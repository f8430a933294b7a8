------------------------- MODULE ChunkedReaderProofs -------------------------
(* Theorems about ChunkedReader, for every size of chunks, files and         *)
(* applications.                                                             *)
EXTENDS ChunkedReaderInvariants, FiniteSetTheorems, TLAPS

\* The handlers posted with their answer.
Bound == [call : Calls, answer : Answers]

Holding == {"examine", "read", "finish", "post"}

-----------------------------------------------------------------------------
(* The inductive invariant.                                                  *)

\* What the types need of the places the threads are at.
StageTypes ==
  /\ mpc = "taken" => /\ q_buf_ready # <<>> /\ calls \in Calls
                      /\ copy \in [pos : Nat, size : 0..ChunkSize, ec : {None}]
  /\ mpc = "prefetched" => n_enqueued < 2
  /\ wpc \in Holding => op \in Reads
  /\ wpc = "post" => op.ec \in ErrorCode
  /\ \A i \in 1..Len(io_) : "answer" \in DOMAIN io_[i] \/ io_[i].ec \in ErrorCode

\* The prefetches that have not been answered yet, by where they are.
Queued == {i \in 1..Len(q_as_read_data) : q_as_read_data[i].call = None}
Held   == {i \in {0} : wpc \in Holding /\ op.call = None}
Posted == {i \in 1..Len(io_) : "answer" \notin DOMAIN io_[i] /\ io_[i].call = None}

Prefetches == ({"queue"} \X Queued) \cup ({"worker"} \X Held) \cup ({"io"} \X Posted)

\* n_enqueued counts them, and the one whose handler is running; the one that was just
\* scheduled is counted next.
CountInv ==
  /\ IsFiniteSet(Prefetches)
  /\ Cardinality(Prefetches) + (IF within = "prefetch" THEN 1 ELSE 0)
       <= n_enqueued + (IF mpc = "prefetched" THEN 1 ELSE 0)

\* Where the bytes of an answer may be: with their call, in a handler posted with them,
\* in the copy next_chunk makes, or in a half that was filled and not released.
Places == ({"got"} \X Calls) \cup ({"io"} \X (Nat \ {0})) \cup ({"half"} \X Buffers)
            \cup {<<"copy", 0>>}

Filled(b) == hot[b] \/ (wpc = "finish" /\ op.buf = b)

At(p) == CASE p[1] = "got"  -> got[p[2]]
           [] p[1] = "io"   -> io_[p[2]].answer
           [] p[1] = "half" -> Answer(start[p[2]], size[p[2]], None)
           [] p[1] = "copy" -> copy

Used(p) == CASE p[1] = "got"  -> got[p[2]] # None
             [] p[1] = "io"   -> p[2] \in 1..Len(io_) /\ "answer" \in DOMAIN io_[p[2]]
             [] p[1] = "half" -> Filled(p[2])
             [] p[1] = "copy" -> mpc = "taken"

Bytes(p) == Used(p) /\ At(p).size > 0

\* No byte is in two places, and none was not read.
PlaceInv ==
  /\ \A p \in Places : Bytes(p) => At(p).pos + At(p).size <= bytes_read_
  /\ \A p, q \in Places :
       p # q /\ Bytes(p) /\ Bytes(q) => \/ At(p).pos + At(p).size <= At(q).pos
                                        \/ At(q).pos + At(q).size <= At(p).pos

\* The worker reads what follows, into a half that has been released.
ReadInv ==
  /\ wpc = "read" => bytes_read_ = op.pos /\ ~hot[op.buf]
  /\ wpc = "finish" => ~hot[op.buf]

IInv == TypeOK /\ StageTypes /\ CountInv /\ PlaceInv /\ ReadInv

-----------------------------------------------------------------------------
(* Sequences and records.                                                    *)

\* An element appended to a sequence comes last and moves nothing.
LEMMA AppendIndices ==
  ASSUME NEW S, NEW s \in Seq(S), NEW e
  PROVE  /\ Len(s) \in Nat /\ Len(Append(s, e)) = Len(s) + 1
         /\ \A i \in 1..Len(s) : Append(s, e)[i] = s[i]
         /\ Append(s, e)[Len(s) + 1] = e
OBVIOUS

\* Taking the first element off a sequence moves each other one to the front.
LEMMA TailIndices ==
  ASSUME NEW S, NEW s \in Seq(S), s # <<>>
  PROVE  /\ Len(s) \in Nat /\ Len(Tail(s)) = Len(s) - 1
         /\ Head(s) = s[1] /\ 1 \in 1..Len(s) /\ s[1] \in S
         /\ \A i \in 1..Len(Tail(s)) : i + 1 \in 1..Len(s) /\ Tail(s)[i] = s[i + 1]
OBVIOUS

\* A posted handler either comes with its answer or is that of a read.
LEMMA HandlerKinds ==
  /\ \A x \in Reads : "answer" \notin DOMAIN x
  /\ \A x \in Bound : "answer" \in DOMAIN x /\ x.call \in Calls /\ x.answer \in Answers
  /\ \A x \in Reads \cup Bound : "answer" \notin DOMAIN x => x \in Reads
  /\ \A x \in Reads \cup Bound : "answer" \in DOMAIN x => x \in Bound
BY DEF Reads, Bound

\* What a read is made of.
LEMMA ReadTypes ==
  \A x \in Reads : /\ x.call \in Calls \cup {None} /\ x.buf \in Buffers /\ x.pos \in Nat
                   /\ \A c \in ErrorCode : [x EXCEPT !.ec = c] \in Reads
BY DEF Reads

\* The answer copied from a half is one.
LEMMA AnswerType ==
  ASSUME TypeOK, NEW b \in Buffers, NEW c \in ErrorCode
  PROVE  Answer(start[b], size[b], c) \in Answers
BY DEF TypeOK, Answer, Answers

-----------------------------------------------------------------------------
(* Types.                                                                    *)

\* What HandOver leaves: a half released and an answer given, or a failed assertion.
LEMMA HandOverType ==
  ASSUME TypeOK, NEW kind \in {"direct", "prefetch"}, NEW h \in Calls, NEW b \in Buffers,
         NEW c \in ErrorCode, HandOver(kind, h, b, c)
  PROVE  /\ hot' \in [Buffers -> BOOLEAN]
         /\ got' \in [Calls -> Answers \cup {None}]
         /\ mpc' \in {"callback", "aborted"}
         /\ within' \in {"none", "bound", "direct", "prefetch"}
<1>1. Answer(start[b], size[b], c) \in Answers
  BY AnswerType
<1> QED
  BY <1>1, ZenonT(30) DEF HandOver, Enter, TypeOK

\* The first posted handler, and those that are left.
LEMMA RunningType ==
  ASSUME TypeOK, StageTypes, NEW kind, Running(kind)
  PROVE  /\ mpc = "idle" /\ io_ # <<>> /\ io_' = Tail(io_)
         /\ io_' \in Seq(Reads \cup Bound)
         /\ kind = "bound" => Head(io_) \in Bound
         /\ kind # "bound" => /\ Head(io_) \in Reads /\ "answer" \notin DOMAIN Head(io_)
                              /\ Head(io_).ec \in ErrorCode
         /\ kind = "direct" => Head(io_).call \in Calls
         /\ kind = "prefetch" => Head(io_).call = None
<1>1. io_ \in Seq(Reads \cup Bound) /\ io_ # <<>> /\ mpc = "idle" /\ io_' = Tail(io_)
  BY DEF TypeOK, Running, Bound
<1>2. Head(io_) = io_[1] /\ 1 \in 1..Len(io_) /\ io_[1] \in Reads \cup Bound
  BY <1>1, TailIndices
<1>3. kind = "bound" => Head(io_) \in Bound
  BY <1>1, <1>2, HandlerKinds DEF Running
<1>4. kind # "bound" => Head(io_) \in Reads /\ "answer" \notin DOMAIN Head(io_)
  BY <1>1, <1>2, HandlerKinds DEF Running
<1>5. kind # "bound" => Head(io_).ec \in ErrorCode
  BY <1>2, <1>4 DEF StageTypes
<1>6. kind = "direct" => Head(io_).call \in Calls
  BY <1>4, ReadTypes DEF Running
<1>7. kind = "prefetch" => Head(io_).call = None
  BY DEF Running
<1> QED
  BY <1>1, <1>3, <1>4, <1>5, <1>6, <1>7

\* Every call keeps the types.
LEMMA CallType ==
  ASSUME TypeOK, StageTypes, Call
  PROVE  TypeOK'
<1>1. calls + 1 \in Calls
  <2>1. MayCall
    BY DEF Call, TakeReady, QueueHandler, EndOfFile, ReadDirect
  <2> QED
    BY <2>1, ChunkedReaderAssumption, SMTT(30) DEF MayCall, TypeOK, Calls
<1>2. CASE TakeReady
  <2>1. Head(q_buf_ready) \in Buffers
    BY <1>2 DEF TakeReady, TypeOK
  <2>2. Answer(start[Head(q_buf_ready)], size[Head(q_buf_ready)], None)
          \in [pos : Nat, size : 0..ChunkSize, ec : {None}]
    BY <2>1 DEF Answer, TypeOK
  <2>3. /\ hot' \in [Buffers -> BOOLEAN] /\ next' \in Buffers
        /\ mpc' \in {"aborted", "taken"}
        /\ copy' \in {None} \cup [pos : Nat, size : 0..ChunkSize, ec : {None}]
    BY <1>2, <2>1, <2>2 DEF TakeReady, TypeOK
  <2>4. /\ calls' = calls + 1
        /\ UNCHANGED <<pos_to_schedule, n_enqueued, swapped, q_handlers, q_buf_ready, within,
                       size, start, bec, workerVars, givenVars, stopped, q_as_read_data,
                       io_, got>>
    BY <1>2 DEF TakeReady
  <2> QED
    BY <1>1, <2>3, <2>4, SMTT(30) DEF TypeOK, Calls, workerVars, givenVars
<1>3. CASE QueueHandler
  BY <1>1, <1>3, SMTT(30) DEF QueueHandler, TypeOK, Calls, halfVars, workerVars, givenVars
<1>4. CASE EndOfFile
  <2>1. Answer(0, 0, "end_of_file") \in Answers
    BY ChunkedReaderAssumption DEF Answer, Answers, ErrorCode
  <2>2. [call |-> calls + 1, answer |-> Answer(0, 0, "end_of_file")] \in Bound
    BY <1>1, <2>1 DEF Bound
  <2> QED
    BY <1>1, <1>4, <2>2, SMTT(30)
    DEF EndOfFile, TypeOK, Calls, halfVars, workerVars, givenVars, Bound
<1>5. CASE ReadDirect
  <2>1. [call |-> calls + 1, buf |-> swapped, pos |-> pos_to_schedule, ec |-> None] \in Reads
    BY <1>1 DEF Reads, TypeOK
  <2> QED
    BY <1>1, <1>5, <2>1
    DEF ReadDirect, Schedule, TypeOK, Calls, Buffers, halfVars, workerVars, givenVars
<1> QED
  BY <1>2, <1>3, <1>4, <1>5 DEF Call

\* Every other step of the main thread keeps the types; n_enqueued is lowered only when
\* it counts the prefetch whose handler ran.
LEMMA MainType ==
  ASSUME TypeOK, StageTypes, CountInv, Main
  PROVE  TypeOK'
<1>1. CASE PostReady
  <2>1. calls \in Calls
    BY <1>1 DEF PostReady, StageTypes
  <2>2. [copy EXCEPT !.ec = bec[next]] \in Answers
    BY <1>1 DEF PostReady, StageTypes, TypeOK, Answers
  <2>3. io_' \in Seq(Reads \cup Bound)
    BY <1>1, <2>1, <2>2 DEF PostReady, TypeOK, Bound
  <2>4. q_buf_ready' \in Seq(Buffers)
    BY <1>1 DEF PostReady, StageTypes, TypeOK
  <2> QED
    BY <1>1, <2>3, <2>4, SMTT(30) DEF PostReady, TypeOK, Bound, halfVars, workerVars, givenVars
<1>2. CASE AdvanceDirect
  BY <1>2, SMTT(30) DEF AdvanceDirect, TypeOK, halfVars, workerVars, givenVars
<1>3. CASE Prefetch
  <2>1. [call |-> None, buf |-> swapped, pos |-> pos_to_schedule, ec |-> None] \in Reads
    BY DEF Reads, TypeOK
  <2>2. /\ q_as_read_data' \in Seq(Reads) /\ next' \in Buffers /\ swapped' \in Buffers
        /\ mpc' \in {"prefetched", "idle", "callback"}
    <3>1. CASE MayPrefetch
      <4>1. Schedule(None) /\ mpc' = "prefetched"
        BY <1>3, <3>1 DEF Prefetch
      <4> QED
        BY <2>1, <4>1 DEF Schedule, TypeOK, Buffers
    <3>2. CASE ~MayPrefetch
      <4>1. /\ mpc' = IF within = "none" THEN "idle" ELSE "callback"
            /\ UNCHANGED <<q_as_read_data, next, swapped>>
        BY <1>3, <3>2 DEF Prefetch
      <4> QED
        BY <4>1 DEF TypeOK
    <3> QED
      BY <3>1, <3>2
  <2>3. UNCHANGED <<copy, pos_to_schedule, n_enqueued, q_handlers, q_buf_ready, calls, within,
                    size, start, hot, bec, bytes_read_, failed, wpc, op, consumer, file_size,
                    actual, resized, stopped, io_, got>>
    BY <1>3 DEF Prefetch, halfVars, workerVars, givenVars
  <2> QED
    BY <2>2, <2>3, SMTT(30) DEF TypeOK
<1>4. CASE AdvancePrefetch
  <2>1. n_enqueued' \in 0..2 /\ pos_to_schedule' \in Nat /\ mpc' \in {"idle", "callback"}
    BY <1>4, SMTT(30) DEF AdvancePrefetch, StageTypes, TypeOK
  <2> QED
    BY <1>4, <2>1, SMTT(30) DEF AdvancePrefetch, TypeOK, halfVars, workerVars, givenVars
<1>5. CASE CallbackReturns
  <2>1. Cardinality(Prefetches) \in Nat
    BY FS_CardinalityType DEF CountInv
  <2>2. n_enqueued' \in 0..2
    BY <1>5, <2>1 DEF CallbackReturns, CountInv, TypeOK
  <2> QED
    BY <1>5, <2>2 DEF CallbackReturns, TypeOK, halfVars, workerVars, givenVars
<1>6. CASE RunBound
  <2>1. Head(io_).call \in Calls /\ Head(io_).answer \in Answers
    BY <1>6, RunningType, HandlerKinds DEF RunBound
  <2>2. got' \in [Calls -> Answers \cup {None}]
    BY <1>6, <2>1 DEF RunBound, Enter, TypeOK
  <2>3. io_' \in Seq(Reads \cup Bound)
    BY <1>6, RunningType DEF RunBound
  <2> QED
    BY <1>6, <2>2, <2>3
    DEF RunBound, Enter, TypeOK, Bound, mainVars, halfVars, workerVars, givenVars
<1>7. CASE RunDirect
  <2>1. /\ Head(io_).call \in Calls /\ Head(io_).buf \in Buffers /\ Head(io_).ec \in ErrorCode
        /\ io_' \in Seq(Reads \cup Bound)
    BY <1>7, RunningType, ReadTypes DEF RunDirect
  <2>2. /\ hot' \in [Buffers -> BOOLEAN] /\ got' \in [Calls -> Answers \cup {None}]
        /\ mpc' \in {"callback", "aborted"}
        /\ within' \in {"none", "bound", "direct", "prefetch"}
    BY <1>7, <2>1, HandOverType DEF RunDirect
  <2> QED
    BY <1>7, <2>1, <2>2, SMTT(30) DEF RunDirect, TypeOK, Bound, mainVars, workerVars, givenVars
<1>8. CASE RunPrefetch
  <2>1. /\ Head(io_).buf \in Buffers /\ Head(io_).ec \in ErrorCode
        /\ io_' \in Seq(Reads \cup Bound)
    BY <1>8, RunningType, ReadTypes DEF RunPrefetch
  <2>2. Head(q_handlers) \in Calls /\ q_handlers' \in Seq(Calls)
    BY <1>8 DEF RunPrefetch, TypeOK
  <2>3. /\ hot' \in [Buffers -> BOOLEAN] /\ got' \in [Calls -> Answers \cup {None}]
        /\ mpc' \in {"callback", "aborted"}
        /\ within' \in {"none", "bound", "direct", "prefetch"}
    BY <1>8, <2>1, <2>2, HandOverType DEF RunPrefetch
  <2> QED
    BY <1>8, <2>1, <2>2, <2>3, SMTT(30) DEF RunPrefetch, TypeOK, Bound, workerVars, givenVars
<1>9. CASE RunPrefetchAhead
  <2>1. Head(io_).buf \in Buffers /\ io_' \in Seq(Reads \cup Bound)
    BY <1>9, RunningType, ReadTypes DEF RunPrefetchAhead
  <2>2. q_buf_ready' \in Seq(Buffers)
    BY <1>9, <2>1 DEF RunPrefetchAhead, TypeOK
  <2>3. UNCHANGED <<copy, pos_to_schedule, n_enqueued, swapped, q_handlers, next, calls, mpc,
                    within, size, start, hot, bec, bytes_read_, failed, wpc, op, consumer,
                    file_size, actual, resized, stopped, q_as_read_data, got>>
    BY <1>9 DEF RunPrefetchAhead, halfVars, workerVars, givenVars
  <2>4. io_' \in Seq(Reads \cup [call : Calls, answer : Answers])
    BY <2>1 DEF Bound
  <2> QED
    BY <2>2, <2>3, <2>4, SMTT(30) DEF TypeOK
<1> QED
  BY <1>1, <1>2, <1>3, <1>4, <1>5, <1>6, <1>7, <1>8, <1>9 DEF Main

\* The worker's steps keep the types.
LEMMA WorkerType ==
  ASSUME TypeOK, StageTypes, Worker
  PROVE  TypeOK'
<1>1. CASE WorkerPop
  <2>1. op' \in Reads /\ q_as_read_data' \in Seq(Reads)
    BY <1>1 DEF WorkerPop, TypeOK
  <2> QED
    BY <1>1, <2>1 DEF WorkerPop, TypeOK, mainVars, halfVars, givenVars
<1>2. CASE WorkerStopped
  <2>1. op' \in Reads
    BY <1>2, ReadTypes DEF WorkerStopped, StageTypes, Holding, ErrorCode
  <2> QED
    BY <1>2, <2>1 DEF WorkerStopped, TypeOK, mainVars, halfVars, givenVars
<1>3. CASE WorkerRequeue
  <2>1. q_as_read_data' \in Seq(Reads)
    BY <1>3 DEF WorkerRequeue, StageTypes, Holding, TypeOK
  <2> QED
    BY <1>3, <2>1 DEF WorkerRequeue, TypeOK, mainVars, halfVars, givenVars
<1>4. CASE WorkerProceed
  BY <1>4 DEF WorkerProceed, TypeOK, mainVars, halfVars, givenVars
<1>5. CASE WorkerRead /\ failed
  <2>1. op' \in Reads
    BY <1>5, ReadTypes DEF WorkerRead, StageTypes, Holding, ErrorCode
  <2> QED
    BY <1>5, <2>1 DEF WorkerRead, TypeOK, mainVars, givenVars
<1>6. CASE WorkerRead /\ ~failed
  <2> DEFINE n == Stream!Least(size[op.buf], IF actual < op.pos THEN 0 ELSE actual - op.pos)
  <2>1. op.buf \in Buffers /\ op.pos \in Nat
    BY <1>6, ReadTypes DEF WorkerRead, StageTypes, Holding
  <2>2. n \in 0..ChunkSize
    <3>1. size[op.buf] \in 0..ChunkSize /\ actual \in Nat /\ ChunkSize \in Nat
      BY <2>1, ChunkedReaderAssumption DEF TypeOK
    <3>2. (IF actual < op.pos THEN 0 ELSE actual - op.pos) \in Nat
      BY <2>1, <3>1
    <3> QED
      BY <3>1, <3>2 DEF Stream!Least
  <2>3. /\ size' = [size EXCEPT ![op.buf] = n] /\ start' = [start EXCEPT ![op.buf] = op.pos]
        /\ bytes_read_' = bytes_read_ + n /\ failed' = (n < size[op.buf])
        /\ wpc' = "finish" /\ op' = op
    BY <1>6 DEF WorkerRead
  <2> HIDE DEF n
  <2>4. /\ size' \in [Buffers -> 0..ChunkSize] /\ start' \in [Buffers -> Nat]
        /\ bytes_read_' \in Nat
    <3>1. size' \in [Buffers -> 0..ChunkSize]
      BY <2>2, <2>3 DEF TypeOK
    <3>2. start' \in [Buffers -> Nat]
      BY <2>1, <2>3 DEF TypeOK
    <3>3. bytes_read_' \in Nat
      <4>1. n \in Nat
        BY <2>2, ChunkedReaderAssumption
      <4>2. bytes_read_' = bytes_read_ + n
        BY <2>3
      <4> QED
        BY <4>1, <4>2 DEF TypeOK
    <3> QED
      BY <3>1, <3>2, <3>3
  <2>5. failed' \in BOOLEAN
    BY <2>3
  <2>6. UNCHANGED <<copy, pos_to_schedule, n_enqueued, swapped, q_handlers, q_buf_ready, next,
                    calls, mpc, within, hot, bec, consumer, file_size, actual, resized, stopped,
                    q_as_read_data, io_, got>>
    BY <1>6 DEF WorkerRead, mainVars, givenVars
  <2>7. /\ wpc' \in {"pop", "examine", "read", "finish", "post", "aborted"}
        /\ op' \in Reads \cup {None}
    BY <2>3 DEF TypeOK
  <2> QED
    BY <2>4, <2>5, <2>6, <2>7, SMTT(30) DEF TypeOK
<1>7. CASE WorkerFinish
  <2>1. op \in Reads /\ op.buf \in Buffers
    BY <1>7, ReadTypes DEF WorkerFinish, StageTypes, Holding
  <2>2. CodeRead \in ErrorCode
    BY DEF CodeRead, ErrorCode
  <2>3. /\ hot' \in [Buffers -> BOOLEAN] /\ bec' \in [Buffers -> ErrorCode]
        /\ op' \in Reads /\ wpc' \in {"aborted", "post"}
    <3>1. hot' = [hot EXCEPT ![op.buf] = TRUE]
      BY <1>7 DEF WorkerFinish
    <3>2. CASE bytes_read_ > file_size
      BY <1>7, <2>1, <3>1, <3>2 DEF WorkerFinish, TypeOK
    <3>3. CASE ~(bytes_read_ > file_size)
      <4>1. /\ bec' = [bec EXCEPT ![op.buf] = CodeRead]
            /\ op' = [op EXCEPT !.ec = CodeRead] /\ wpc' = "post"
        BY <1>7, <3>3 DEF WorkerFinish
      <4>2. op' \in Reads
        BY <2>1, <2>2, <4>1, ReadTypes
      <4> QED
        BY <2>1, <2>2, <3>1, <4>1, <4>2 DEF TypeOK
    <3> QED
      BY <3>2, <3>3
  <2> QED
    BY <1>7, <2>3, SMTT(30) DEF WorkerFinish, TypeOK, mainVars, givenVars
<1>8. CASE WorkerPost
  <2>1. io_' \in Seq(Reads \cup Bound)
    BY <1>8 DEF WorkerPost, StageTypes, Holding, TypeOK, Bound
  <2> QED
    BY <1>8, <2>1, SMTT(30) DEF WorkerPost, TypeOK, Bound, mainVars, halfVars, givenVars
<1> QED
  BY <1>1, <1>2, <1>3, <1>4, <1>5, <1>6, <1>7, <1>8 DEF Worker

\* Every step keeps the types.
LEMMA TypeStep ==
  ASSUME TypeOK, StageTypes, CountInv, [Next]_vars
  PROVE  TypeOK'
<1>1. CASE Stop
  BY <1>1 DEF Stop, TypeOK, mainVars, halfVars, workerVars, givenVars
<1>2. ASSUME NEW n \in Resizes, Resize(n) PROVE TypeOK'
  BY <1>2, ChunkedReaderAssumption, SMTT(30) DEF Resize, TypeOK, mainVars, halfVars, workerVars
<1>3. CASE UNCHANGED vars
  BY <1>3 DEF vars, TypeOK, mainVars, halfVars, workerVars, givenVars
<1> QED
  BY <1>1, <1>2, <1>3, CallType, MainType, WorkerType DEF Next

\* Every step keeps what the types need of the places the threads are at.
LEMMA StageStep ==
  ASSUME TypeOK, StageTypes, [Next]_vars
  PROVE  StageTypes'
<1>1. io_ \in Seq(Reads \cup Bound)
  BY DEF TypeOK, Bound
<1>2. CASE UNCHANGED vars
  BY <1>2 DEF vars, StageTypes, mainVars, halfVars, workerVars, Holding
<1>3. CASE Stop
  BY <1>3 DEF Stop, StageTypes, mainVars, halfVars, workerVars, Holding
<1>4. ASSUME NEW n \in Resizes, Resize(n) PROVE StageTypes'
  BY <1>4 DEF Resize, StageTypes, mainVars, halfVars, workerVars, Holding
<1>5. CASE TakeReady
  <2>1. Head(q_buf_ready) \in Buffers /\ calls + 1 \in Calls
    <3>1. Head(q_buf_ready) \in Buffers
      BY <1>5 DEF TakeReady, TypeOK
    <3>2. MayCall
      BY <1>5 DEF TakeReady
    <3>3. calls + 1 \in Calls
      BY <3>2, ChunkedReaderAssumption, SMTT(30) DEF MayCall, TypeOK, Calls
    <3> QED
      BY <3>1, <3>3
  <2>2. Answer(start[Head(q_buf_ready)], size[Head(q_buf_ready)], None)
          \in [pos : Nat, size : 0..ChunkSize, ec : {None}]
    BY <2>1 DEF Answer, TypeOK
  <2>3. mpc' = "taken" => /\ q_buf_ready' # <<>> /\ calls' \in Calls
                          /\ copy' \in [pos : Nat, size : 0..ChunkSize, ec : {None}]
    BY <1>5, <2>1, <2>2 DEF TakeReady
  <2>4. mpc' # "prefetched" /\ UNCHANGED <<wpc, op, io_>>
    BY <1>5 DEF TakeReady, workerVars
  <2> QED
    BY <2>3, <2>4 DEF StageTypes, Holding
<1>6. CASE QueueHandler \/ ReadDirect
  BY <1>6 DEF QueueHandler, ReadDirect, StageTypes, Holding, workerVars
<1>7. CASE EndOfFile
  <2>1. /\ io_' = Append(io_, [call |-> calls + 1, answer |-> Answer(0, 0, "end_of_file")])
        /\ mpc' = mpc /\ mpc \in {"idle", "callback"} /\ UNCHANGED <<wpc, op>>
    BY <1>7 DEF EndOfFile, MayCall, workerVars
  <2>2. "answer" \in DOMAIN [call |-> calls + 1, answer |-> Answer(0, 0, "end_of_file")]
    OBVIOUS
  <2>3. \A i \in 1..Len(io_') : "answer" \in DOMAIN io_'[i] \/ io_'[i].ec \in ErrorCode
    BY <1>1, <2>1, <2>2, AppendIndices DEF StageTypes
  <2> QED
    BY <2>1, <2>3 DEF StageTypes, Holding
<1>8. CASE PostReady
  <2>1. /\ io_' = Append(io_, [call |-> calls, answer |-> [copy EXCEPT !.ec = bec[next]]])
        /\ mpc' = "prefetch" /\ UNCHANGED <<wpc, op>>
    BY <1>8 DEF PostReady, workerVars
  <2>2. "answer" \in DOMAIN [call |-> calls, answer |-> [copy EXCEPT !.ec = bec[next]]]
    OBVIOUS
  <2>3. \A i \in 1..Len(io_') : "answer" \in DOMAIN io_'[i] \/ io_'[i].ec \in ErrorCode
    BY <1>1, <2>1, <2>2, AppendIndices DEF StageTypes
  <2> QED
    BY <2>1, <2>3 DEF StageTypes, Holding
<1>9. CASE AdvanceDirect \/ AdvancePrefetch \/ CallbackReturns
  BY <1>9 DEF AdvanceDirect, AdvancePrefetch, CallbackReturns, StageTypes, Holding, workerVars
<1>10. CASE Prefetch
  <2>1. /\ mpc' \in {"prefetched", "idle", "callback"} /\ UNCHANGED <<n_enqueued, wpc, op, io_>>
        /\ mpc' = "prefetched" => n_enqueued < 2
    BY <1>10 DEF Prefetch, MayPrefetch, workerVars
  <2> QED
    BY <2>1 DEF StageTypes, Holding
<1>11. CASE RunBound \/ RunDirect \/ RunPrefetch \/ RunPrefetchAhead
  <2>1. /\ io_ # <<>> /\ io_' = Tail(io_) /\ mpc' \in {"idle", "callback", "aborted"}
        /\ UNCHANGED <<wpc, op>>
    BY <1>11 DEF RunBound, RunDirect, RunPrefetch, RunPrefetchAhead, Running, Enter, HandOver,
                 workerVars
  <2>2. \A i \in 1..Len(io_') : "answer" \in DOMAIN io_'[i] \/ io_'[i].ec \in ErrorCode
    BY <1>1, <2>1, TailIndices DEF StageTypes
  <2> QED
    BY <2>1, <2>2 DEF StageTypes, Holding
<1>12. CASE Worker
  <2>1. UNCHANGED <<mpc, q_buf_ready, copy, calls, n_enqueued>>
    BY <1>12 DEF Worker, WorkerPop, WorkerStopped, WorkerRequeue, WorkerProceed, WorkerRead,
                 WorkerFinish, WorkerPost, mainVars
  <2>2. CASE WorkerPop
    BY <2>1, <2>2 DEF WorkerPop, StageTypes, Holding, TypeOK
  <2>3. CASE WorkerStopped
    <3>1. op' \in Reads /\ op'.ec \in ErrorCode /\ wpc' = "post" /\ io_' = io_
      BY <2>3, ReadTypes DEF WorkerStopped, StageTypes, Holding, ErrorCode, Reads
    <3> QED
      BY <2>1, <3>1 DEF StageTypes
  <2>4. CASE WorkerRequeue \/ WorkerProceed
    BY <2>1, <2>4 DEF WorkerRequeue, WorkerProceed, StageTypes, Holding
  <2>5. CASE WorkerRead
    <3>1. CASE failed
      <4>1. op' \in Reads /\ op'.ec \in ErrorCode /\ wpc' = "post" /\ io_' = io_
        BY <2>5, <3>1, ReadTypes DEF WorkerRead, StageTypes, Holding, ErrorCode, Reads
      <4> QED
        BY <2>1, <4>1 DEF StageTypes
    <3>2. CASE ~failed
      <4>1. op' = op /\ op \in Reads /\ wpc' = "finish" /\ io_' = io_
        BY <2>5, <3>2 DEF WorkerRead, StageTypes, Holding
      <4> QED
        BY <2>1, <4>1 DEF StageTypes
    <3> QED
      BY <3>1, <3>2
  <2>6. CASE WorkerFinish
    <3>1. CodeRead \in ErrorCode
      BY DEF CodeRead, ErrorCode
    <3>2. op \in Reads
      BY <2>6 DEF WorkerFinish, StageTypes, Holding
    <3>3. /\ io_' = io_
          /\ \/ wpc' = "aborted"
             \/ wpc' = "post" /\ op' \in Reads /\ op'.ec \in ErrorCode
      BY <2>6, <3>1, <3>2 DEF WorkerFinish, Reads
    <3> QED
      BY <2>1, <3>3 DEF StageTypes, Holding
  <2>7. CASE WorkerPost
    <3>1. io_' = Append(io_, op) /\ op.ec \in ErrorCode /\ wpc' = "pop"
      BY <2>7 DEF WorkerPost, StageTypes
    <3>2. \A i \in 1..Len(io_') : "answer" \in DOMAIN io_'[i] \/ io_'[i].ec \in ErrorCode
      BY <1>1, <3>1, AppendIndices DEF StageTypes
    <3> QED
      BY <2>1, <3>1, <3>2 DEF StageTypes, Holding
  <2> QED
    BY <1>12, <2>2, <2>3, <2>4, <2>5, <2>6, <2>7 DEF Worker
<1> QED
  BY <1>2, <1>3, <1>4, <1>5, <1>6, <1>7, <1>8, <1>9, <1>10, <1>11, <1>12
  DEF Next, Call, Main

-----------------------------------------------------------------------------
(* n_enqueued counts the prefetches that are under way.                      *)

\* What is known of the prefetches at each of the three kinds of place is known of all.
LEMMA EachPrefetch ==
  ASSUME NEW S, NEW phi,
         \A i \in Queued' : phi[<<"queue", i>>] \in S,
         \A i \in Held' : phi[<<"worker", i>>] \in S,
         \A i \in Posted' : phi[<<"io", i>>] \in S
  PROVE  \A p \in Prefetches' : phi[p] \in S
<1> SUFFICES ASSUME NEW p \in Prefetches' PROVE phi[p] \in S
  OBVIOUS
<1>1. CASE p \in {"queue"} \X Queued'
  <2>1. p = <<"queue", p[2]>> /\ p[2] \in Queued'
    BY <1>1
  <2> QED
    BY <2>1
<1>2. CASE p \in {"worker"} \X Held'
  <2>1. p = <<"worker", p[2]>> /\ p[2] \in Held'
    BY <1>2
  <2> QED
    BY <2>1
<1>3. CASE p \in {"io"} \X Posted'
  <2>1. p = <<"io", p[2]>> /\ p[2] \in Posted'
    BY <1>3
  <2> QED
    BY <2>1
<1> QED
  BY <1>1, <1>2, <1>3 DEF Prefetches

\* A change that only takes prefetches away.
LEMMA NoMorePrefetches ==
  ASSUME CountInv, Prefetches' \subseteq Prefetches
  PROVE  /\ IsFiniteSet(Prefetches') /\ Cardinality(Prefetches') <= Cardinality(Prefetches)
         /\ Cardinality(Prefetches') \in Nat /\ Cardinality(Prefetches) \in Nat
BY FS_Subset, FS_CardinalityType DEF CountInv

\* A change that moves prefetches, no two to one place, to those of S.
LEMMA MovedPrefetches ==
  ASSUME CountInv, NEW S \in SUBSET Prefetches, NEW phi \in [Prefetches' -> S],
         \A p, q \in Prefetches' : phi[p] = phi[q] => p = q
  PROVE  /\ IsFiniteSet(Prefetches') /\ Cardinality(Prefetches') <= Cardinality(S)
         /\ Cardinality(Prefetches') \in Nat /\ Cardinality(Prefetches) \in Nat
         /\ Cardinality(S) \in Nat
<1>1. IsFiniteSet(S)
  BY FS_Subset DEF CountInv
<1>2. phi \in Injection(Prefetches', S)
  BY DEF Injection, IsInjective
<1> QED
  BY <1>1, <1>2, FS_Injection, FS_CardinalityType DEF CountInv

\* When a handler is run the others move up; a prefetch's is taken away.
LEMMA RunningPrefetches ==
  ASSUME TypeOK, StageTypes, CountInv, NEW kind, Running(kind),
         UNCHANGED <<q_as_read_data, wpc, op>>
  PROVE  /\ IsFiniteSet(Prefetches') /\ Cardinality(Prefetches') \in Nat
         /\ Cardinality(Prefetches) \in Nat
         /\ Cardinality(Prefetches') + (IF kind = "prefetch" THEN 1 ELSE 0)
              <= Cardinality(Prefetches)
<1> DEFINE first == <<"io", 1>>
           S     == IF kind = "prefetch" THEN Prefetches \ {first} ELSE Prefetches
           phi   == [p \in Prefetches' |-> IF p[1] = "io" THEN <<"io", p[2] + 1>> ELSE p]
<1>1. io_ \in Seq(Reads \cup Bound) /\ io_ # <<>> /\ io_' = Tail(io_)
  BY RunningType DEF TypeOK, Bound
<1>2. /\ Len(io_') \in Nat
      /\ \A i \in 1..Len(io_') : i + 1 \in 1..Len(io_) /\ io_'[i] = io_[i + 1]
      /\ 1 \in 1..Len(io_) /\ io_[1] = Head(io_)
  BY <1>1, TailIndices
<1>3. Queued' = Queued /\ Held' = Held
  BY DEF Queued, Held
<1>4. \A i \in Posted' : i \in Nat \ {0} /\ i + 1 \in Posted
  BY <1>2 DEF Posted
<1>5. \A p \in Prefetches' : phi[p] \in Prefetches \ {first}
  <2>1. ASSUME NEW i \in Posted' PROVE phi[<<"io", i>>] \in Prefetches \ {first}
    BY <1>4 DEF Prefetches
  <2>2. ASSUME NEW i \in Queued PROVE phi[<<"queue", i>>] \in Prefetches \ {first}
    BY <1>3 DEF Prefetches
  <2>3. ASSUME NEW i \in Held PROVE phi[<<"worker", i>>] \in Prefetches \ {first}
    BY <1>3 DEF Prefetches
  <2> HIDE DEF phi
  <2> QED
    BY <1>3, <2>1, <2>2, <2>3, EachPrefetch
<1>6. \A p, q \in Prefetches' : phi[p] = phi[q] => p = q
  BY <1>3, <1>4 DEF Prefetches
<1>7. /\ IsFiniteSet(Prefetches') /\ Cardinality(Prefetches') <= Cardinality(S)
      /\ Cardinality(Prefetches') \in Nat /\ Cardinality(Prefetches) \in Nat
      /\ Cardinality(S) \in Nat
  <2>1. phi \in [Prefetches' -> S]
    BY <1>5
  <2> HIDE DEF phi
  <2> QED
    BY <1>6, <2>1, MovedPrefetches
<1>8. CASE kind = "prefetch"
  <2>1. first \in Prefetches
    BY <1>2, <1>8, RunningType DEF Prefetches, Posted
  <2>2. Cardinality(Prefetches \ {first}) = Cardinality(Prefetches) - 1
    BY <2>1, FS_RemoveElement DEF CountInv
  <2> QED
    BY <1>7, <1>8, <2>2
<1> QED
  BY <1>7, <1>8

\* The worker moves a prefetch from its queue, to its end, or to the io_service.
LEMMA WorkerPrefetches ==
  ASSUME TypeOK, StageTypes, CountInv, Worker
  PROVE  /\ IsFiniteSet(Prefetches') /\ Cardinality(Prefetches') <= Cardinality(Prefetches)
         /\ Cardinality(Prefetches') \in Nat /\ Cardinality(Prefetches) \in Nat
<1>1. io_ \in Seq(Reads \cup Bound) /\ q_as_read_data \in Seq(Reads)
  BY DEF TypeOK, Bound
<1>2. CASE WorkerPop
  <2> DEFINE phi == [p \in Prefetches' |-> IF p[1] = "queue" THEN <<"queue", p[2] + 1>>
                                           ELSE IF p[1] = "worker" THEN <<"queue", 1>> ELSE p]
  <2>1. /\ q_as_read_data # <<>> /\ q_as_read_data' = Tail(q_as_read_data)
        /\ op' = Head(q_as_read_data) /\ io_' = io_
    BY <1>2 DEF WorkerPop
  <2>2. /\ Len(q_as_read_data') \in Nat
        /\ \A i \in 1..Len(q_as_read_data') :
             i + 1 \in 1..Len(q_as_read_data) /\ q_as_read_data'[i] = q_as_read_data[i + 1]
        /\ 1 \in 1..Len(q_as_read_data) /\ q_as_read_data[1] = op'
    BY <1>1, <2>1, TailIndices
  <2>3. \A i \in Queued' : i \in Nat \ {0} /\ i + 1 \in Queued
    BY <2>2 DEF Queued
  <2>4. /\ Posted' = Posted
        /\ \A i \in Held' : i = 0 /\ 1 \in Queued
    BY <2>1, <2>2 DEF Posted, Held, Queued
  <2>5. \A p \in Prefetches' : phi[p] \in Prefetches
    <3>1. ASSUME NEW i \in Queued' PROVE phi[<<"queue", i>>] \in Prefetches
      BY <2>3 DEF Prefetches
    <3>2. ASSUME NEW i \in Held' PROVE phi[<<"worker", i>>] \in Prefetches
      BY <2>4 DEF Prefetches
    <3>3. ASSUME NEW i \in Posted' PROVE phi[<<"io", i>>] \in Prefetches
      BY <2>4 DEF Prefetches
    <3> HIDE DEF phi
    <3> QED
      BY <3>1, <3>2, <3>3, EachPrefetch
  <2>6. \A p, q \in Prefetches' : phi[p] = phi[q] => p = q
    BY <2>3, <2>4 DEF Prefetches
  <2>7. phi \in [Prefetches' -> Prefetches]
    BY <2>5
  <2> HIDE DEF phi
  <2> QED
    BY <2>6, <2>7, MovedPrefetches
<1>3. CASE WorkerRequeue
  <2> DEFINE n   == Len(q_as_read_data) + 1
             phi == [p \in Prefetches' |-> IF p = <<"queue", n>> THEN <<"worker", 0>> ELSE p]
  <2>1. /\ q_as_read_data' = Append(q_as_read_data, op)
        /\ wpc = "examine" /\ wpc' = "pop" /\ io_' = io_
    BY <1>3 DEF WorkerRequeue
  <2>2. /\ n - 1 \in Nat /\ Len(q_as_read_data') = n
        /\ \A i \in 1..(n - 1) : q_as_read_data'[i] = q_as_read_data[i]
        /\ q_as_read_data'[n] = op
    BY <1>1, <2>1, AppendIndices
  <2>3. Posted' = Posted /\ Held' = {}
    BY <2>1 DEF Posted, Held, Holding
  <2>4. \A i \in Queued' : (i \in Queued /\ i # n) \/ (i = n /\ 0 \in Held)
    BY <2>1, <2>2 DEF Queued, Held, Holding
  <2>5. \A p \in Prefetches' : phi[p] \in Prefetches
    <3>1. ASSUME NEW i \in Queued' PROVE phi[<<"queue", i>>] \in Prefetches
      BY <2>4 DEF Prefetches
    <3>2. ASSUME NEW i \in Posted' PROVE phi[<<"io", i>>] \in Prefetches
      BY <2>3 DEF Prefetches
    <3> HIDE DEF phi
    <3> QED
      BY <2>3, <3>1, <3>2, EachPrefetch
  <2>6. \A p, q \in Prefetches' : phi[p] = phi[q] => p = q
    BY <2>3 DEF Prefetches
  <2>7. phi \in [Prefetches' -> Prefetches]
    BY <2>5
  <2> HIDE DEF phi
  <2> QED
    BY <2>6, <2>7, MovedPrefetches
<1>4. CASE WorkerPost
  <2> DEFINE n   == Len(io_) + 1
             phi == [p \in Prefetches' |-> IF p = <<"io", n>> THEN <<"worker", 0>> ELSE p]
  <2>1. /\ io_' = Append(io_, op) /\ wpc = "post" /\ wpc' = "pop"
        /\ q_as_read_data' = q_as_read_data
    BY <1>4 DEF WorkerPost
  <2>2. /\ n - 1 \in Nat /\ Len(io_') = n
        /\ \A i \in 1..(n - 1) : io_'[i] = io_[i]
        /\ io_'[n] = op
    BY <1>1, <2>1, AppendIndices
  <2>3. Queued' = Queued /\ Held' = {}
    BY <2>1 DEF Queued, Held, Holding
  <2>4. \A i \in Posted' : (i \in Posted /\ i # n) \/ (i = n /\ 0 \in Held)
    BY <2>1, <2>2 DEF Posted, Held, Holding
  <2>5. \A p \in Prefetches' : phi[p] \in Prefetches
    <3>1. ASSUME NEW i \in Posted' PROVE phi[<<"io", i>>] \in Prefetches
      BY <2>4 DEF Prefetches
    <3>2. ASSUME NEW i \in Queued PROVE phi[<<"queue", i>>] \in Prefetches
      BY <2>3 DEF Prefetches
    <3> HIDE DEF phi
    <3> QED
      BY <2>3, <3>1, <3>2, EachPrefetch
  <2>6. \A p, q \in Prefetches' : phi[p] = phi[q] => p = q
    BY <2>3 DEF Prefetches
  <2>7. phi \in [Prefetches' -> Prefetches]
    BY <2>5
  <2> HIDE DEF phi
  <2> QED
    BY <2>6, <2>7, MovedPrefetches
<1>5. CASE WorkerStopped \/ WorkerProceed \/ WorkerRead \/ WorkerFinish
  <2>1. Queued' = Queued /\ Posted' = Posted
    BY <1>5 DEF WorkerStopped, WorkerProceed, WorkerRead, WorkerFinish, Queued, Posted
  <2>2. wpc \in Holding /\ op \in Reads
    BY <1>5 DEF WorkerStopped, WorkerProceed, WorkerRead, WorkerFinish, StageTypes, Holding
  <2>3. op' = op \/ \E c \in ErrorCode : op' = [op EXCEPT !.ec = c]
    BY <1>5 DEF WorkerStopped, WorkerProceed, WorkerRead, WorkerFinish, ErrorCode, CodeRead
  <2>4. op'.call = op.call
    BY <2>2, <2>3 DEF Reads
  <2>5. Held' \subseteq Held
    BY <2>2, <2>4 DEF Held
  <2>6. Prefetches' \subseteq Prefetches
    BY <2>1, <2>5 DEF Prefetches
  <2> QED
    BY <2>6, NoMorePrefetches
<1> QED
  BY <1>2, <1>3, <1>4, <1>5 DEF Worker

\* Every step keeps the count.
LEMMA CountStep ==
  ASSUME TypeOK, StageTypes, CountInv, [Next]_vars
  PROVE  CountInv'
<1> DEFINE running == IF within = "prefetch" THEN 1 ELSE 0
           scheduled == IF mpc = "prefetched" THEN 1 ELSE 0
<1>1. /\ io_ \in Seq(Reads \cup Bound) /\ q_as_read_data \in Seq(Reads)
      /\ n_enqueued \in Nat
  BY DEF TypeOK, Bound
<1>2. CASE UNCHANGED <<q_as_read_data, wpc, op, io_, n_enqueued, within, mpc>>
  BY <1>2 DEF CountInv, Prefetches, Queued, Held, Posted
<1>3. CASE Stop \/ UNCHANGED vars \/ \E n \in Resizes : Resize(n)
  BY <1>2, <1>3 DEF Stop, Resize, vars, mainVars, workerVars
<1>4. CASE Call
  <2>1. Prefetches' \subseteq Prefetches
    <3>1. CASE TakeReady \/ QueueHandler
      BY <3>1 DEF TakeReady, QueueHandler, Prefetches, Queued, Held, Posted, workerVars
    <3>2. CASE EndOfFile
      <4> DEFINE x == [call |-> calls + 1, answer |-> Answer(0, 0, "end_of_file")]
      <4>1. io_' = Append(io_, x) /\ "answer" \in DOMAIN x
        BY <3>2 DEF EndOfFile
      <4> HIDE DEF x
      <4>2. Posted' \subseteq Posted
        BY <1>1, <4>1, AppendIndices DEF Posted
      <4>3. Queued' = Queued /\ Held' = Held
        BY <3>2 DEF EndOfFile, Queued, Held, workerVars
      <4> QED
        BY <4>2, <4>3 DEF Prefetches
    <3>3. CASE ReadDirect
      <4> DEFINE x == [call |-> calls + 1, buf |-> swapped, pos |-> pos_to_schedule,
                       ec |-> None]
      <4>1. q_as_read_data' = Append(q_as_read_data, x)
        BY <3>3 DEF ReadDirect, Schedule
      <4>2. x.call # None
        BY ChunkedReaderAssumption, SMTT(30) DEF TypeOK
      <4> HIDE DEF x
      <4>3. Queued' \subseteq Queued
        BY <1>1, <4>1, <4>2, AppendIndices DEF Queued
      <4>4. Posted' = Posted /\ Held' = Held
        BY <3>3 DEF ReadDirect, Posted, Held, workerVars
      <4> QED
        BY <4>3, <4>4 DEF Prefetches
    <3> QED
      BY <1>4, <3>1, <3>2, <3>3 DEF Call
  <2>2. /\ n_enqueued' = n_enqueued /\ within' = within
        /\ mpc \in {"idle", "callback"} /\ mpc' # "prefetched"
    BY <1>4 DEF Call, TakeReady, QueueHandler, EndOfFile, ReadDirect, MayCall
  <2>3. /\ IsFiniteSet(Prefetches') /\ Cardinality(Prefetches') <= Cardinality(Prefetches)
        /\ Cardinality(Prefetches') \in Nat /\ Cardinality(Prefetches) \in Nat
    BY <2>1, NoMorePrefetches
  <2>4. scheduled = 0 /\ scheduled' = 0 /\ running' = running /\ running \in Nat
    BY <2>2
  <2>5. Cardinality(Prefetches') + running' <= n_enqueued' + scheduled'
    <3>1. Cardinality(Prefetches) + running <= n_enqueued + scheduled
      BY DEF CountInv
    <3> HIDE DEF running, scheduled
    <3> QED
      BY <1>1, <2>2, <2>3, <2>4, <3>1
  <2> QED
    BY <2>3, <2>5 DEF CountInv
<1>5. CASE PostReady
  <2> DEFINE x == [call |-> calls, answer |-> [copy EXCEPT !.ec = bec[next]]]
  <2>1. io_' = Append(io_, x) /\ "answer" \in DOMAIN x
    BY <1>5 DEF PostReady
  <2> HIDE DEF x
  <2>2. Posted' \subseteq Posted
    BY <1>1, <2>1, AppendIndices DEF Posted
  <2>3. /\ Queued' = Queued /\ Held' = Held /\ n_enqueued' = n_enqueued /\ within' = within
        /\ mpc = "taken" /\ mpc' = "prefetch"
    BY <1>5 DEF PostReady, Queued, Held, workerVars
  <2>4. Prefetches' \subseteq Prefetches
    BY <2>2, <2>3 DEF Prefetches
  <2> QED
    BY <1>1, <2>3, <2>4, NoMorePrefetches DEF CountInv
<1>6. CASE AdvanceDirect \/ AdvancePrefetch \/ CallbackReturns
  <2>1. Prefetches' = Prefetches
    BY <1>6 DEF AdvanceDirect, AdvancePrefetch, CallbackReturns, Prefetches, Queued, Held,
                Posted, workerVars
  <2>2. n_enqueued' - running' + scheduled' >= n_enqueued - running + scheduled
    BY <1>1, <1>6 DEF AdvanceDirect, AdvancePrefetch, CallbackReturns
  <2>3. IsFiniteSet(Prefetches') /\ Cardinality(Prefetches') = Cardinality(Prefetches)
        /\ Cardinality(Prefetches) \in Nat
    BY <2>1, FS_CardinalityType DEF CountInv
  <2>4. /\ running \in Nat /\ running' \in Nat /\ scheduled \in Nat /\ scheduled' \in Nat
        /\ n_enqueued' \in Int
    BY <1>1, <1>6 DEF AdvanceDirect, AdvancePrefetch, CallbackReturns
  <2>5. Cardinality(Prefetches') + running' <= n_enqueued' + scheduled'
    <3>1. Cardinality(Prefetches) + running <= n_enqueued + scheduled
      BY DEF CountInv
    <3>2. \A c, n, r, t, m, u, v \in Int :
            c + r <= n + t /\ m - u + v >= n - r + t => c + u <= m + v
      OBVIOUS
    <3> HIDE DEF running, scheduled
    <3>3. /\ Cardinality(Prefetches) \in Int /\ n_enqueued \in Int /\ n_enqueued' \in Int
          /\ running \in Int /\ running' \in Int /\ scheduled \in Int /\ scheduled' \in Int
      BY <1>1, <2>3, <2>4
    <3> QED
      BY <2>2, <2>3, <3>1, <3>2, <3>3, ZenonT(30)
  <2> QED
    BY <2>3, <2>5 DEF CountInv
<1>7. CASE Prefetch
  <2>1. CASE MayPrefetch
    <3> DEFINE x == [call |-> None, buf |-> swapped, pos |-> pos_to_schedule, ec |-> None]
               n == Len(q_as_read_data) + 1
    <3>1. /\ q_as_read_data' = Append(q_as_read_data, x)
          /\ mpc = "prefetch" /\ mpc' = "prefetched" /\ n_enqueued' = n_enqueued
          /\ within' = within
      BY <1>7, <2>1 DEF Prefetch, Schedule
    <3> HIDE DEF x
    <3>2. Queued' \subseteq Queued \cup {n}
      BY <1>1, <3>1, AppendIndices DEF Queued
    <3>3. Posted' = Posted /\ Held' = Held
      BY <1>7 DEF Prefetch, Posted, Held, workerVars
    <3>4. Prefetches' \subseteq Prefetches \cup {<<"queue", n>>}
      BY <3>2, <3>3 DEF Prefetches
    <3>5. /\ IsFiniteSet(Prefetches \cup {<<"queue", n>>})
          /\ Cardinality(Prefetches \cup {<<"queue", n>>}) <= Cardinality(Prefetches) + 1
          /\ Cardinality(Prefetches) \in Nat
          /\ Cardinality(Prefetches \cup {<<"queue", n>>}) \in Nat
      BY FS_AddElement, FS_CardinalityType DEF CountInv
    <3>6. /\ IsFiniteSet(Prefetches') /\ Cardinality(Prefetches') \in Nat
          /\ Cardinality(Prefetches') <= Cardinality(Prefetches \cup {<<"queue", n>>})
      BY <3>4, <3>5, FS_Subset, FS_CardinalityType
    <3> QED
      BY <1>1, <3>1, <3>5, <3>6 DEF CountInv
  <2>2. CASE ~MayPrefetch
    <3>1. /\ UNCHANGED <<q_as_read_data, wpc, op, io_, n_enqueued, within>>
          /\ mpc = "prefetch" /\ mpc' # "prefetched"
      BY <1>7, <2>2 DEF Prefetch, workerVars
    <3> QED
      BY <3>1 DEF CountInv, Prefetches, Queued, Held, Posted
  <2> QED
    BY <2>1, <2>2
<1>8. CASE RunBound \/ RunDirect \/ RunPrefetch \/ RunPrefetchAhead
  <2>1. PICK kind : /\ Running(kind) /\ UNCHANGED <<q_as_read_data, wpc, op>>
                    /\ n_enqueued' = n_enqueued /\ mpc' # "prefetched"
                    /\ within' = "prefetch" => within = "prefetch" \/ kind = "prefetch"
    <3>1. CASE RunBound
      BY <3>1 DEF RunBound, Enter, mainVars, workerVars
    <3>2. CASE RunDirect
      BY <3>2 DEF RunDirect, HandOver, Enter, mainVars, workerVars
    <3>3. CASE RunPrefetch
      BY <3>3 DEF RunPrefetch, HandOver, Enter, workerVars
    <3>4. CASE RunPrefetchAhead
      BY <3>4 DEF RunPrefetchAhead, Running, workerVars
    <3> QED
      BY <1>8, <3>1, <3>2, <3>3, <3>4
  <2>2. mpc = "idle"
    BY <2>1 DEF Running
  <2>3. /\ IsFiniteSet(Prefetches') /\ Cardinality(Prefetches') \in Nat
        /\ Cardinality(Prefetches) \in Nat
        /\ Cardinality(Prefetches') + (IF kind = "prefetch" THEN 1 ELSE 0)
             <= Cardinality(Prefetches)
    BY <2>1, RunningPrefetches
  <2>4. Cardinality(Prefetches) + running <= n_enqueued
    <3>1. scheduled = 0
      BY <2>2
    <3>2. Cardinality(Prefetches) + running <= n_enqueued + scheduled
      BY DEF CountInv
    <3> HIDE DEF scheduled
    <3> QED
      BY <1>1, <3>1, <3>2
  <2>5. running' <= running + (IF kind = "prefetch" THEN 1 ELSE 0)
    BY <2>1
  <2>6. Cardinality(Prefetches') + running' <= n_enqueued
    <3>1. running \in Nat /\ running' \in Nat
      OBVIOUS
    <3> HIDE DEF running
    <3> QED
      BY <1>1, <2>3, <2>4, <2>5, <3>1
  <2>7. scheduled' = 0 /\ n_enqueued' = n_enqueued
    BY <2>1
  <2>8. Cardinality(Prefetches') + running' <= n_enqueued' + scheduled'
    <3> HIDE DEF running, scheduled
    <3> QED
      BY <1>1, <2>6, <2>7
  <2> QED
    BY <2>3, <2>8 DEF CountInv
<1>9. CASE Worker
  <2>1. UNCHANGED <<n_enqueued, within, mpc>>
    BY <1>9 DEF Worker, WorkerPop, WorkerStopped, WorkerRequeue, WorkerProceed, WorkerRead,
                WorkerFinish, WorkerPost, mainVars
  <2> QED
    BY <1>1, <1>9, <2>1, WorkerPrefetches DEF CountInv
<1> QED
  BY <1>3, <1>4, <1>5, <1>6, <1>7, <1>8, <1>9 DEF Next, Main

-----------------------------------------------------------------------------
(* Where the bytes are.                                                      *)

\* The main thread only ever releases a half.
LEMMA MainReleases ==
  ASSUME TypeOK, Call \/ Main
  PROVE  \A b \in Buffers : hot'[b] => hot[b]
<1>1. hot' = hot \/ \E b \in Buffers : hot' = [hot EXCEPT ![b] = FALSE]
  <2>1. CASE TakeReady
    <3>1. Head(q_buf_ready) \in Buffers
      BY <2>1 DEF TakeReady, TypeOK
    <3> QED
      BY <2>1, <3>1 DEF TakeReady
  <2>2. CASE RunDirect \/ RunPrefetch
    <3>1. hot' = hot \/ hot' = [hot EXCEPT ![Head(io_).buf] = FALSE]
      BY <2>2 DEF RunDirect, RunPrefetch, HandOver
    <3>2. \A b : b \notin Buffers => [hot EXCEPT ![b] = FALSE] = hot
      BY DEF TypeOK
    <3> QED
      BY <3>1, <3>2
  <2>3. CASE ~(TakeReady \/ RunDirect \/ RunPrefetch)
    BY <2>3 DEF Call, QueueHandler, EndOfFile, ReadDirect, Main, PostReady, AdvanceDirect,
                Prefetch, AdvancePrefetch, CallbackReturns, RunBound, RunPrefetchAhead, halfVars
  <2> QED
    BY <2>1, <2>2, <2>3
<1> QED
  BY <1>1 DEF TypeOK

\* Every step of the worker finds its half released until it has filled it.
LEMMA ReadStep ==
  ASSUME TypeOK, StageTypes, ReadInv, [Next]_vars
  PROVE  ReadInv'
<1>1. CASE Call \/ Main
  <2>1. UNCHANGED workerVars
    BY <1>1 DEF Call, TakeReady, QueueHandler, EndOfFile, ReadDirect, Main, PostReady,
                AdvanceDirect, Prefetch, AdvancePrefetch, CallbackReturns, RunBound, RunDirect,
                RunPrefetch, RunPrefetchAhead
  <2>2. wpc \in Holding => op.buf \in Buffers
    BY ReadTypes DEF StageTypes
  <2> QED
    BY <1>1, <2>1, <2>2, MainReleases DEF ReadInv, Holding, workerVars
<1>2. CASE Stop \/ UNCHANGED vars \/ \E n \in Resizes : Resize(n)
  BY <1>2 DEF Stop, Resize, vars, halfVars, workerVars, ReadInv
<1>3. CASE WorkerPop \/ WorkerStopped \/ WorkerRequeue \/ WorkerPost
  BY <1>3 DEF WorkerPop, WorkerStopped, WorkerRequeue, WorkerPost, ReadInv
<1>4. CASE WorkerProceed
  BY <1>4 DEF WorkerProceed, MayProceed, halfVars, ReadInv
<1>5. CASE WorkerRead
  BY <1>5 DEF WorkerRead, ReadInv
<1>6. CASE WorkerFinish
  BY <1>6 DEF WorkerFinish, ReadInv
<1> QED
  BY <1>1, <1>2, <1>3, <1>4, <1>5, <1>6 DEF Next, Worker

\* What is at q after the step was at p before it.
Carried(p, q) ==
  Bytes(q)' => p \in Places /\ Bytes(p) /\ At(q)'.pos = At(p).pos /\ At(q)'.size = At(p).size

\* What the places hold, and when.
LEMMA PlaceValues ==
  /\ \A h : /\ At(<<"got", h>>) = got[h] /\ At(<<"got", h>>)' = got'[h]
            /\ Used(<<"got", h>>) <=> got[h] # None
            /\ Used(<<"got", h>>)' <=> got'[h] # None
  /\ \A i : /\ At(<<"io", i>>) = io_[i].answer /\ At(<<"io", i>>)' = io_'[i].answer
            /\ Used(<<"io", i>>) <=> i \in 1..Len(io_) /\ "answer" \in DOMAIN io_[i]
            /\ Used(<<"io", i>>)' <=> i \in 1..Len(io_') /\ "answer" \in DOMAIN io_'[i]
  /\ \A b : /\ At(<<"half", b>>).pos = start[b] /\ At(<<"half", b>>).size = size[b]
            /\ At(<<"half", b>>)'.pos = start'[b] /\ At(<<"half", b>>)'.size = size'[b]
            /\ Used(<<"half", b>>) <=> Filled(b)
            /\ Used(<<"half", b>>)' <=> Filled(b)'
  /\ At(<<"copy", 0>>) = copy /\ At(<<"copy", 0>>)' = copy'
  /\ Used(<<"copy", 0>>) <=> mpc = "taken"
  /\ Used(<<"copy", 0>>)' <=> mpc' = "taken"
<1>1. \A h : /\ At(<<"got", h>>) = got[h] /\ At(<<"got", h>>)' = got'[h]
             /\ Used(<<"got", h>>) <=> got[h] # None
             /\ Used(<<"got", h>>)' <=> got'[h] # None
  BY DEF At, Used
<1>2. \A i : /\ At(<<"io", i>>) = io_[i].answer /\ At(<<"io", i>>)' = io_'[i].answer
             /\ Used(<<"io", i>>) <=> i \in 1..Len(io_) /\ "answer" \in DOMAIN io_[i]
             /\ Used(<<"io", i>>)' <=> i \in 1..Len(io_') /\ "answer" \in DOMAIN io_'[i]
  BY DEF At, Used
<1>3. \A b : /\ At(<<"half", b>>).pos = start[b] /\ At(<<"half", b>>).size = size[b]
             /\ At(<<"half", b>>)'.pos = start'[b] /\ At(<<"half", b>>)'.size = size'[b]
             /\ Used(<<"half", b>>) <=> Filled(b)
             /\ Used(<<"half", b>>)' <=> Filled(b)'
  BY DEF At, Used, Answer
<1>4. /\ At(<<"copy", 0>>) = copy /\ At(<<"copy", 0>>)' = copy'
      /\ Used(<<"copy", 0>>) <=> mpc = "taken"
      /\ Used(<<"copy", 0>>)' <=> mpc' = "taken"
  BY DEF At, Used
<1> QED
  BY <1>1, <1>2, <1>3, <1>4

\* A place is of one of four kinds.
LEMMA EachPlace ==
  ASSUME NEW S,
         \A h \in Calls : <<"got", h>> \in S, \A i \in Nat \ {0} : <<"io", i>> \in S,
         \A b \in Buffers : <<"half", b>> \in S, <<"copy", 0>> \in S
  PROVE  \A p \in Places : p \in S
<1> SUFFICES ASSUME NEW p \in Places PROVE p \in S
  OBVIOUS
<1>1. CASE p \in {"got"} \X Calls
  BY <1>1
<1>2. CASE p \in {"io"} \X (Nat \ {0})
  BY <1>2
<1>3. CASE p \in {"half"} \X Buffers
  BY <1>3
<1>4. CASE p = <<"copy", 0>>
  BY <1>4
<1> QED
  BY <1>1, <1>2, <1>3, <1>4 DEF Places

\* When the bytes only move, no two answers to one place, no byte is in two places.
LEMMA PlacesMoved ==
  ASSUME PlaceInv, UNCHANGED bytes_read_, NEW from,
         \A q \in Places : Carried(from[q], q),
         \A p, q \in Places : p # q /\ Bytes(p)' /\ Bytes(q)' => from[p] # from[q]
  PROVE  PlaceInv'
<1>1. Places' = Places
  BY DEF Places, Calls, Buffers
<1>2. ASSUME NEW q \in Places, Bytes(q)'
      PROVE  At(q)'.pos + At(q)'.size <= bytes_read_'
  BY <1>2 DEF PlaceInv, Carried
<1>3. ASSUME NEW p \in Places, NEW q \in Places, p # q, Bytes(p)', Bytes(q)'
      PROVE  \/ At(p)'.pos + At(p)'.size <= At(q)'.pos
             \/ At(q)'.pos + At(q)'.size <= At(p)'.pos
  <2>1. /\ from[p] \in Places /\ from[q] \in Places /\ from[p] # from[q]
        /\ Bytes(from[p]) /\ Bytes(from[q])
        /\ At(p)'.pos = At(from[p]).pos /\ At(p)'.size = At(from[p]).size
        /\ At(q)'.pos = At(from[q]).pos /\ At(q)'.size = At(from[q]).size
    BY <1>3 DEF Carried
  <2>2. \/ At(from[p]).pos + At(from[p]).size <= At(from[q]).pos
        \/ At(from[q]).pos + At(from[q]).size <= At(from[p]).pos
    BY <2>1 DEF PlaceInv
  <2> QED
    BY <2>1, <2>2
<1> QED
  BY <1>1, <1>2, <1>3 DEF PlaceInv

\* What stays where it is.
LEMMA CarriedStaying ==
  /\ \A h \in Calls : got'[h] = got[h] => Carried(<<"got", h>>, <<"got", h>>)
  /\ \A i, j \in Nat :
       (i \in 1..Len(io_') => j \in 1..Len(io_) /\ io_'[i] = io_[j])
         => Carried(<<"io", j>>, <<"io", i>>)
  /\ \A b \in Buffers :
       (Filled(b)' => Filled(b) /\ size'[b] = size[b] /\ start'[b] = start[b])
         => Carried(<<"half", b>>, <<"half", b>>)
  /\ (mpc' = "taken" => mpc = "taken" /\ copy' = copy)
       => Carried(<<"copy", 0>>, <<"copy", 0>>)
<1>1. ASSUME NEW h \in Calls, got'[h] = got[h]
      PROVE  Carried(<<"got", h>>, <<"got", h>>)
  BY <1>1, PlaceValues DEF Carried, Bytes, Places
<1>2. ASSUME NEW i \in Nat, NEW j \in Nat,
             i \in 1..Len(io_') => j \in 1..Len(io_) /\ io_'[i] = io_[j]
      PROVE  Carried(<<"io", j>>, <<"io", i>>)
  BY <1>2, PlaceValues DEF Carried, Bytes, Places
<1>3. ASSUME NEW b \in Buffers,
             Filled(b)' => Filled(b) /\ size'[b] = size[b] /\ start'[b] = start[b]
      PROVE  Carried(<<"half", b>>, <<"half", b>>)
  BY <1>3, PlaceValues DEF Carried, Bytes, Places
<1>4. ASSUME mpc' = "taken" => mpc = "taken" /\ copy' = copy
      PROVE  Carried(<<"copy", 0>>, <<"copy", 0>>)
  BY <1>4, PlaceValues DEF Carried, Bytes, Places
<1> QED
  BY <1>1, <1>2, <1>3, <1>4

\* When nothing moves and nothing is read.
LEMMA PlacesKept ==
  ASSUME PlaceInv, UNCHANGED <<bytes_read_, got>>,
         \A i \in Nat : Carried(<<"io", i>>, <<"io", i>>),
         \A b \in Buffers : Filled(b)' => Filled(b) /\ size'[b] = size[b] /\ start'[b] = start[b],
         mpc' = "taken" => mpc = "taken" /\ copy' = copy
  PROVE  PlaceInv'
<1> DEFINE from == [p \in Places |-> p]
           S    == {q \in Places : Carried(q, q)}
<1>1. /\ \A h \in Calls : <<"got", h>> \in S
      /\ \A i \in Nat \ {0} : <<"io", i>> \in S
      /\ \A b \in Buffers : <<"half", b>> \in S
      /\ <<"copy", 0>> \in S
  BY CarriedStaying DEF Places
<1>2. \A q \in Places : q \in S
  <2> HIDE DEF S
  <2> QED
    BY <1>1, EachPlace
<1>3. \A q \in Places : Carried(from[q], q)
  BY <1>2
<1>4. \A p, q \in Places : p # q => from[p] # from[q]
  OBVIOUS
<1> HIDE DEF from
<1> QED
  BY <1>3, <1>4, PlacesMoved

\* A handler appended to those posted moves none of them.
LEMMA CarriedAppended ==
  ASSUME io_ \in Seq(Reads \cup Bound), NEW x, io_' = Append(io_, x),
         NEW i \in Nat, i # Len(io_) + 1
  PROVE  Carried(<<"io", i>>, <<"io", i>>)
BY AppendIndices, CarriedStaying

\* When the first handler is taken off, each other one has moved up.
LEMMA CarriedUp ==
  ASSUME io_ \in Seq(Reads \cup Bound), io_ # <<>>, io_' = Tail(io_), NEW i \in Nat
  PROVE  Carried(<<"io", i + 1>>, <<"io", i>>)
<1>1. i \in 1..Len(io_') => i + 1 \in 1..Len(io_) /\ io_'[i] = io_[i + 1]
  BY TailIndices
<1> QED
  BY <1>1, CarriedStaying

\* The first handler is taken off; the call h, if it is one, is given what p held.
LEMMA FirstHandled ==
  ASSUME TypeOK, PlaceInv, UNCHANGED bytes_read_, io_ # <<>>, io_' = Tail(io_),
         NEW h \in Calls \cup {None}, NEW p,
         \A g \in Calls : g # h => got'[g] = got[g],
         h \in Calls => Carried(p, <<"got", h>>),
         p = <<"io", 1>> \/ \E b \in Buffers : p = <<"half", b>> /\ ~Filled(b)',
         \A b \in Buffers : Filled(b)' => Filled(b) /\ size'[b] = size[b] /\ start'[b] = start[b],
         mpc' # "taken"
  PROVE  PlaceInv'
<1> DEFINE from == [q \in Places |-> IF q = <<"got", h>> THEN p
                                     ELSE IF q[1] = "io" THEN <<"io", q[2] + 1>> ELSE q]
           S    == {q \in Places : Carried(from[q], q)}
<1>1. \A q \in Places : q \in S
  <2>1. io_ \in Seq(Reads \cup Bound)
    BY DEF TypeOK, Bound
  <2>2. ASSUME NEW g \in Calls PROVE <<"got", g>> \in S
    <3>1. <<"got", g>> \in Places /\ Carried(from[<<"got", g>>], <<"got", g>>)
      BY CarriedStaying DEF Places
    <3> QED
      BY <3>1
  <2>3. ASSUME NEW i \in Nat \ {0} PROVE <<"io", i>> \in S
    <3>1. <<"io", i>> \in Places /\ from[<<"io", i>>] = <<"io", i + 1>>
      BY DEF Places
    <3>2. Carried(<<"io", i + 1>>, <<"io", i>>)
      BY <2>1, CarriedUp
    <3> QED
      BY <3>1, <3>2
  <2>4. ASSUME NEW b \in Buffers PROVE <<"half", b>> \in S
    <3>1. <<"half", b>> \in Places /\ Carried(<<"half", b>>, <<"half", b>>)
      BY CarriedStaying DEF Places
    <3> QED
      BY <3>1
  <2>5. <<"copy", 0>> \in S
    <3>1. <<"copy", 0>> \in Places /\ Carried(<<"copy", 0>>, <<"copy", 0>>)
      BY CarriedStaying DEF Places
    <3> QED
      BY <3>1
  <2> HIDE DEF S
  <2> QED
    BY <2>2, <2>3, <2>4, <2>5, EachPlace
<1>2. ASSUME NEW q \in Places, NEW r \in Places, q # r, Bytes(q)', Bytes(r)'
      PROVE  from[q] # from[r]
  <2>1. ASSUME NEW t \in Places, t # <<"got", h>>, Bytes(t)'
        PROVE  from[t] # p
    <3>1. CASE p = <<"io", 1>>
      BY <2>1, <3>1 DEF Places
    <3>2. ASSUME NEW b \in Buffers, p = <<"half", b>>, ~Filled(b)' PROVE from[t] # p
      <4>1. t # p
        BY <2>1, <3>2, PlaceValues DEF Bytes
      <4> QED
        BY <2>1, <3>2, <4>1
    <3> QED
      BY <3>1, <3>2
  <2>2. CASE q = <<"got", h>>
    BY <1>2, <2>1, <2>2
  <2>3. CASE r = <<"got", h>>
    BY <1>2, <2>1, <2>3
  <2>4. CASE q # <<"got", h>> /\ r # <<"got", h>>
    BY <1>2, <2>4 DEF Places
  <2> QED
    BY <2>2, <2>3, <2>4
<1>3. \A q \in Places : Carried(from[q], q)
  BY <1>1
<1> HIDE DEF from
<1> QED
  BY <1>2, <1>3, PlacesMoved

\* What p held is at q, and all the rest is where it was.
LEMMA OneMoved ==
  ASSUME PlaceInv, UNCHANGED bytes_read_, NEW p, NEW q, ~Bytes(p)', Carried(p, q),
         \A r \in Places : r # q => Carried(r, r)
  PROVE  PlaceInv'
<1> DEFINE from == [r \in Places |-> IF r = q THEN p ELSE r]
<1>1. \A r \in Places : Carried(from[r], r)
  OBVIOUS
<1>2. ASSUME NEW r \in Places, NEW t \in Places, r # t, Bytes(r)', Bytes(t)'
      PROVE  from[r] # from[t]
  <2>1. r # p /\ t # p
    BY <1>2
  <2> QED
    BY <1>2, <2>1
<1> HIDE DEF from
<1> QED
  BY <1>1, <1>2, PlacesMoved

\* The places besides q, when only q changes.
LEMMA RestKept ==
  ASSUME NEW q,
         \A h \in Calls : got'[h] = got[h],
         \A i \in Nat : <<"io", i>> # q => Carried(<<"io", i>>, <<"io", i>>),
         \A b \in Buffers : <<"half", b>> # q /\ Filled(b)' =>
                             Filled(b) /\ size'[b] = size[b] /\ start'[b] = start[b],
         <<"copy", 0>> # q => Carried(<<"copy", 0>>, <<"copy", 0>>)
  PROVE  \A r \in Places : r # q => Carried(r, r)
<1> DEFINE S == {r \in Places : r # q => Carried(r, r)}
<1>1. /\ \A h \in Calls : <<"got", h>> \in S
      /\ \A i \in Nat \ {0} : <<"io", i>> \in S
      /\ \A b \in Buffers : <<"half", b>> \in S
      /\ <<"copy", 0>> \in S
  BY CarriedStaying DEF Places
<1>2. \A r \in Places : r \in S
  <2> HIDE DEF S
  <2> QED
    BY <1>1, EachPlace
<1> QED
  BY <1>2

\* The calls keep the bytes apart.
LEMMA CallPlaces ==
  ASSUME TypeOK, StageTypes, PlaceInv, ReadInv, Call
  PROVE  PlaceInv'
<1>1. io_ \in Seq(Reads \cup Bound)
  BY DEF TypeOK, Bound
<1>2. CASE QueueHandler \/ ReadDirect
  <2>1. /\ UNCHANGED <<bytes_read_, got, io_, hot, size, start, wpc, op, copy>>
        /\ mpc' # "taken"
    BY <1>2 DEF QueueHandler, ReadDirect, halfVars, workerVars
  <2>2. \A i \in Nat : Carried(<<"io", i>>, <<"io", i>>)
    BY <2>1, CarriedStaying
  <2> QED
    BY <2>1, <2>2, PlacesKept DEF Filled
<1>3. CASE EndOfFile
  <2> DEFINE x == [call |-> calls + 1, answer |-> Answer(0, 0, "end_of_file")]
  <2>1. /\ UNCHANGED <<bytes_read_, got, hot, size, start, wpc, op, copy, mpc>>
        /\ io_' = Append(io_, x)
    BY <1>3 DEF EndOfFile, halfVars, workerVars
  <2>2. x.answer.size = 0
    BY DEF Answer
  <2>3. ASSUME NEW i \in Nat PROVE Carried(<<"io", i>>, <<"io", i>>)
    <3>1. CASE i = Len(io_) + 1
      <4>1. io_'[i] = x
        BY <1>1, <2>1, <3>1, AppendIndices
      <4>2. At(<<"io", i>>)'.size = 0
        BY <2>2, <4>1, PlaceValues
      <4> QED
        BY <4>2 DEF Carried, Bytes
    <3>2. CASE i # Len(io_) + 1
      BY <1>1, <2>1, <3>2, CarriedAppended
    <3> QED
      BY <3>1, <3>2
  <2> QED
    BY <2>1, <2>3, PlacesKept DEF Filled
<1>4. CASE TakeReady
  <2>1. PICK b \in Buffers : b = Head(q_buf_ready)
    BY <1>4, SMTT(30) DEF TakeReady, TypeOK
  <2>2. UNCHANGED <<bytes_read_, got, io_, size, start, wpc, op>>
    BY <1>4 DEF TakeReady, workerVars
  <2>3. \A i \in Nat : Carried(<<"io", i>>, <<"io", i>>)
    BY <2>2, CarriedStaying
  <2>4. CASE ~hot[b]
    <3>1. mpc' # "taken" /\ hot' = hot
      BY <1>4, <2>1, <2>4 DEF TakeReady
    <3> QED
      BY <2>2, <2>3, <3>1, PlacesKept DEF Filled
  <2>5. CASE hot[b]
    <3>1. hot' = [hot EXCEPT ![b] = FALSE] /\ copy' = Answer(start[b], size[b], None)
      BY <1>4, <2>1, <2>5 DEF TakeReady
    <3>2. /\ ~Filled(b)'
          /\ \A c \in Buffers : Filled(c)' => Filled(c) /\ size'[c] = size[c]
                                                /\ start'[c] = start[c]
      <4>1. ~(wpc = "finish" /\ op.buf = b)
        BY <2>5 DEF ReadInv
      <4>2. /\ ~hot'[b]
            /\ \A c \in Buffers : c # b => hot'[c] = hot[c]
        BY <2>1, <3>1 DEF TypeOK
      <4> QED
        BY <2>2, <4>1, <4>2 DEF Filled
    <3>3. ~Bytes(<<"half", b>>)'
      BY <3>2, PlaceValues DEF Bytes
    <3>4. copy'.pos = start[b] /\ copy'.size = size[b]
      BY <3>1 DEF Answer
    <3>5. Carried(<<"half", b>>, <<"copy", 0>>)
      BY <2>1, <2>5, <3>4, PlaceValues DEF Carried, Bytes, Places, Filled
    <3>6. \A r \in Places : r # <<"copy", 0>> => Carried(r, r)
      BY <2>2, <2>3, <3>2, RestKept
    <3> QED
      BY <2>2, <3>3, <3>5, <3>6, OneMoved
  <2> QED
    BY <2>4, <2>5
<1> QED
  BY <1>2, <1>3, <1>4 DEF Call

\* A half that is released and handed over takes its bytes to the call.
LEMMA HandOverPlaces ==
  ASSUME TypeOK, PlaceInv, ReadInv, NEW kind, NEW h \in Calls, NEW b \in Buffers, NEW c,
         HandOver(kind, h, b, c), io_ # <<>>, io_' = Tail(io_),
         UNCHANGED <<bytes_read_, size, start, wpc, op>>
  PROVE  PlaceInv'
<1>1. CASE ~hot[b]
  <2>1. mpc' # "taken" /\ hot' = hot /\ got' = got
    BY <1>1 DEF HandOver
  <2>2. None \notin Calls
    BY ChunkedReaderAssumption DEF Calls
  <2> QED
    BY <2>1, <2>2, FirstHandled DEF Filled
<1>2. CASE hot[b]
  <2>1. /\ hot' = [hot EXCEPT ![b] = FALSE] /\ mpc' # "taken"
        /\ got' = [got EXCEPT ![h] = Answer(start[b], size[b], c)]
    BY <1>2 DEF HandOver, Enter
  <2>2. /\ ~Filled(b)'
        /\ \A d \in Buffers : Filled(d)' => Filled(d) /\ size'[d] = size[d]
                                              /\ start'[d] = start[d]
    <3>1. ~(wpc = "finish" /\ op.buf = b)
      BY <1>2 DEF ReadInv
    <3>2. /\ ~hot'[b]
          /\ \A d \in Buffers : d # b => hot'[d] = hot[d]
      BY <2>1 DEF TypeOK
    <3> QED
      BY <3>1, <3>2 DEF Filled
  <2>3. /\ got'[h].pos = start[b] /\ got'[h].size = size[b]
        /\ \A g \in Calls : g # h => got'[g] = got[g]
    BY <2>1 DEF TypeOK, Answer
  <2>4. Carried(<<"half", b>>, <<"got", h>>)
    BY <1>2, <2>3, PlaceValues DEF Carried, Bytes, Places, Filled
  <2> QED
    BY <2>1, <2>2, <2>3, <2>4, FirstHandled
<1> QED
  BY <1>1, <1>2

\* The other steps of the main thread keep the bytes apart.
LEMMA MainPlaces ==
  ASSUME TypeOK, StageTypes, PlaceInv, ReadInv, Main
  PROVE  PlaceInv'
<1>1. io_ \in Seq(Reads \cup Bound)
  BY DEF TypeOK, Bound
<1>2. CASE AdvanceDirect \/ Prefetch \/ AdvancePrefetch \/ CallbackReturns
  <2>1. /\ UNCHANGED <<bytes_read_, got, io_, hot, size, start, wpc, op, copy>>
        /\ mpc' # "taken"
    BY <1>2 DEF AdvanceDirect, Prefetch, AdvancePrefetch, CallbackReturns, halfVars, workerVars
  <2>2. \A i \in Nat : Carried(<<"io", i>>, <<"io", i>>)
    BY <2>1, CarriedStaying
  <2> QED
    BY <2>1, <2>2, PlacesKept DEF Filled
<1>3. CASE PostReady
  <2> DEFINE x == [call |-> calls, answer |-> [copy EXCEPT !.ec = bec[next]]]
  <2>1. PICK n \in Nat : n = Len(io_) + 1
    BY <1>1, AppendIndices
  <2>2. /\ UNCHANGED <<bytes_read_, got, hot, size, start, wpc, op>>
        /\ io_' = Append(io_, x) /\ mpc = "taken" /\ mpc' # "taken"
    BY <1>3 DEF PostReady, halfVars, workerVars
  <2>3. x.answer.pos = copy.pos /\ x.answer.size = copy.size
    BY <2>2 DEF StageTypes
  <2>4. io_'[n] = x
    BY <1>1, <2>1, <2>2, AppendIndices
  <2> HIDE DEF x
  <2>5. Carried(<<"copy", 0>>, <<"io", n>>)
    BY <2>2, <2>3, <2>4, PlaceValues DEF Carried, Bytes, Places
  <2>6. ~Bytes(<<"copy", 0>>)'
    BY <2>2, PlaceValues DEF Bytes
  <2>7. \A r \in Places : r # <<"io", n>> => Carried(r, r)
    <3>1. \A i \in Nat : <<"io", i>> # <<"io", n>> => Carried(<<"io", i>>, <<"io", i>>)
      BY <1>1, <2>1, <2>2, CarriedAppended
    <3>2. Carried(<<"copy", 0>>, <<"copy", 0>>)
      BY <2>2, CarriedStaying
    <3>3. \A b \in Buffers : Filled(b)' => Filled(b) /\ size'[b] = size[b]
                                             /\ start'[b] = start[b]
      BY <2>2 DEF Filled
    <3>4. \A h \in Calls : got'[h] = got[h]
      BY <2>2
    <3> QED
      BY <3>1, <3>2, <3>3, <3>4, RestKept
  <2> QED
    BY <2>2, <2>5, <2>6, <2>7, OneMoved
<1>4. CASE RunBound
  <2>1. /\ Head(io_) \in Bound /\ io_ # <<>> /\ io_' = Tail(io_)
    BY <1>4, RunningType DEF RunBound
  <2>2. PICK h \in Calls : h = Head(io_).call
    BY <2>1, HandlerKinds
  <2>3. /\ got' = [got EXCEPT ![h] = Head(io_).answer] /\ mpc' # "taken"
        /\ UNCHANGED <<bytes_read_, hot, size, start, wpc, op>>
    BY <1>4, <2>2 DEF RunBound, Enter, halfVars, workerVars
  <2>4. /\ got'[h] = io_[1].answer /\ 1 \in 1..Len(io_) /\ "answer" \in DOMAIN io_[1]
        /\ \A g \in Calls : g # h => got'[g] = got[g]
    <3>1. io_[1] = Head(io_) /\ 1 \in 1..Len(io_)
      BY <1>1, <2>1, TailIndices
    <3> QED
      BY <2>1, <2>3, <3>1, HandlerKinds DEF TypeOK
  <2>5. Carried(<<"io", 1>>, <<"got", h>>)
    BY <2>4, PlaceValues DEF Carried, Bytes, Places
  <2> QED
    BY <2>1, <2>3, <2>4, <2>5, FirstHandled DEF Filled
<1>5. CASE RunDirect
  <2>1. /\ io_ # <<>> /\ io_' = Tail(io_)
        /\ Head(io_).call \in Calls /\ Head(io_).buf \in Buffers
    BY <1>5, RunningType, ReadTypes DEF RunDirect
  <2>2. /\ HandOver("direct", Head(io_).call, Head(io_).buf, Head(io_).ec)
        /\ UNCHANGED <<bytes_read_, size, start, wpc, op>>
    BY <1>5 DEF RunDirect, workerVars
  <2> QED
    BY <2>1, <2>2, HandOverPlaces
<1>6. CASE RunPrefetch
  <2>1. /\ io_ # <<>> /\ io_' = Tail(io_)
        /\ Head(q_handlers) \in Calls /\ Head(io_).buf \in Buffers
    <3>1. io_ # <<>> /\ io_' = Tail(io_) /\ Head(io_).buf \in Buffers
      BY <1>6, RunningType, ReadTypes DEF RunPrefetch
    <3>2. Head(q_handlers) \in Calls
      BY <1>6 DEF RunPrefetch, TypeOK
    <3> QED
      BY <3>1, <3>2
  <2>2. /\ HandOver("prefetch", Head(q_handlers), Head(io_).buf, Head(io_).ec)
        /\ UNCHANGED <<bytes_read_, size, start, wpc, op>>
    BY <1>6 DEF RunPrefetch, workerVars
  <2> QED
    BY <2>1, <2>2, HandOverPlaces
<1>7. CASE RunPrefetchAhead
  <2>1. /\ io_ # <<>> /\ io_' = Tail(io_) /\ mpc' # "taken"
        /\ UNCHANGED <<bytes_read_, got, hot, size, start, wpc, op>>
    BY <1>7 DEF RunPrefetchAhead, Running, halfVars, workerVars
  <2>2. None \notin Calls
    BY ChunkedReaderAssumption DEF Calls
  <2> QED
    BY <2>1, <2>2, FirstHandled DEF Filled
<1> QED
  BY <1>2, <1>3, <1>4, <1>5, <1>6, <1>7 DEF Main

\* The bytes at a place have a position and a size.
LEMMA PlaceTypes ==
  ASSUME TypeOK, StageTypes
  PROVE  \A p \in Places : Used(p) => At(p).pos \in Nat /\ At(p).size \in Nat
<1> DEFINE S == {p \in Places : Used(p) => At(p).pos \in Nat /\ At(p).size \in Nat}
<1>1. 0..ChunkSize \subseteq Nat
  BY ChunkedReaderAssumption
<1>2. ASSUME NEW h \in Calls PROVE <<"got", h>> \in S
  <2>1. got[h] # None => got[h] \in Answers
    BY DEF TypeOK
  <2>2. <<"got", h>> \in Places
    BY DEF Places
  <2>3. Used(<<"got", h>>) => /\ At(<<"got", h>>).pos \in Nat
                              /\ At(<<"got", h>>).size \in Nat
    BY <1>1, <2>1, PlaceValues DEF Answers
  <2> QED
    BY <2>2, <2>3
<1>3. ASSUME NEW i \in Nat \ {0} PROVE <<"io", i>> \in S
  <2>1. i \in 1..Len(io_) /\ "answer" \in DOMAIN io_[i] => io_[i].answer \in Answers
    <3>1. io_ \in Seq(Reads \cup Bound)
      BY DEF TypeOK, Bound
    <3> QED
      BY <3>1, HandlerKinds
  <2>2. <<"io", i>> \in Places
    BY DEF Places
  <2>3. Used(<<"io", i>>) => At(<<"io", i>>).pos \in Nat /\ At(<<"io", i>>).size \in Nat
    BY <1>1, <2>1, PlaceValues DEF Answers
  <2> QED
    BY <2>2, <2>3
<1>4. ASSUME NEW b \in Buffers PROVE <<"half", b>> \in S
  <2>1. <<"half", b>> \in Places
    BY DEF Places
  <2>2. At(<<"half", b>>).pos \in Nat /\ At(<<"half", b>>).size \in Nat
    BY <1>1, PlaceValues, SMTT(30) DEF TypeOK
  <2> QED
    BY <2>1, <2>2
<1>5. <<"copy", 0>> \in S
  <2>1. mpc = "taken" => copy.pos \in Nat /\ copy.size \in Nat
    BY <1>1 DEF StageTypes
  <2> QED
    BY <2>1, PlaceValues DEF Places
<1>6. \A p \in Places : p \in S
  <2> HIDE DEF S
  <2> QED
    BY <1>2, <1>3, <1>4, <1>5, EachPlace
<1> QED
  BY <1>6

\* The worker reads the bytes that follow all those anyone has.
LEMMA ReadPlaces ==
  ASSUME TypeOK, TypeOK', StageTypes, PlaceInv, ReadInv, WorkerRead, ~failed
  PROVE  PlaceInv'
<1>1. PICK b \in Buffers : b = op.buf
  BY ReadTypes DEF WorkerRead, StageTypes, Holding
<1>2. /\ start' = [start EXCEPT ![b] = op.pos] /\ bytes_read_' = bytes_read_ + size'[b]
      /\ \A c \in Buffers : c # b => size'[c] = size[c]
      /\ wpc' = "finish" /\ UNCHANGED <<op, got, io_, hot, copy, mpc>>
      /\ wpc = "read"
  BY <1>1 DEF WorkerRead, TypeOK, mainVars
<1>3. /\ start'[b] = bytes_read_
      /\ \A c \in Buffers : c # b => start'[c] = start[c]
  BY <1>1, <1>2 DEF ReadInv, TypeOK
<1>4. /\ bytes_read_ \in Nat /\ bytes_read_' \in Nat /\ size'[b] \in Nat
      /\ bytes_read_ <= bytes_read_'
  <2>1. size'[b] \in 0..ChunkSize /\ bytes_read_ \in Nat
    BY DEF TypeOK
  <2>2. size'[b] \in Nat
    BY <2>1, ChunkedReaderAssumption
  <2> QED
    BY <1>2, <2>1, <2>2
<1>5. \A c \in Buffers : <<"half", c>> # <<"half", b>> /\ Filled(c)' =>
                           Filled(c) /\ size'[c] = size[c] /\ start'[c] = start[c]
  BY <1>1, <1>2, <1>3 DEF Filled
<1> DEFINE q == <<"half", b>>
<1>6. \A r \in Places : r # q => Carried(r, r)
  <2>1. \A i \in Nat : Carried(<<"io", i>>, <<"io", i>>)
    BY <1>2, CarriedStaying
  <2>2. Carried(<<"copy", 0>>, <<"copy", 0>>)
    BY <1>2, CarriedStaying
  <2>3. \A h \in Calls : got'[h] = got[h]
    BY <1>2
  <2> QED
    BY <1>5, <2>1, <2>2, <2>3, RestKept
<1>7. At(q)'.pos = bytes_read_ /\ At(q)'.size = size'[b]
  BY <1>3, PlaceValues
<1>8. ASSUME NEW r \in Places, r # q, Bytes(r)'
      PROVE  /\ At(r)'.pos \in Nat /\ At(r)'.size \in Nat
             /\ At(r)'.pos + At(r)'.size <= bytes_read_
  <2>1. Bytes(r) /\ At(r)'.pos = At(r).pos /\ At(r)'.size = At(r).size
    BY <1>6, <1>8 DEF Carried
  <2>2. At(r).pos \in Nat /\ At(r).size \in Nat
    BY <2>1, PlaceTypes DEF Bytes
  <2>3. At(r).pos + At(r).size <= bytes_read_
    BY <2>1 DEF PlaceInv
  <2> QED
    BY <2>1, <2>2, <2>3
<1> HIDE DEF q
<1>9. ASSUME NEW r \in Places, Bytes(r)'
      PROVE  At(r)'.pos + At(r)'.size <= bytes_read_'
  <2>1. CASE r = q
    BY <1>2, <1>4, <1>7, <2>1
  <2>2. CASE r # q
    BY <1>4, <1>8, <1>9, <2>2
  <2> QED
    BY <2>1, <2>2
<1>10. ASSUME NEW r \in Places, NEW t \in Places, r # t, Bytes(r)', Bytes(t)'
       PROVE  \/ At(r)'.pos + At(r)'.size <= At(t)'.pos
              \/ At(t)'.pos + At(t)'.size <= At(r)'.pos
  <2>1. CASE r = q
    BY <1>7, <1>8, <1>10, <2>1
  <2>2. CASE t = q
    BY <1>7, <1>8, <1>10, <2>2
  <2>3. CASE r # q /\ t # q
    <3>1. /\ Bytes(r) /\ At(r)'.pos = At(r).pos /\ At(r)'.size = At(r).size
          /\ Bytes(t) /\ At(t)'.pos = At(t).pos /\ At(t)'.size = At(t).size
      BY <1>6, <1>10, <2>3 DEF Carried
    <3>2. \/ At(r).pos + At(r).size <= At(t).pos
          \/ At(t).pos + At(t).size <= At(r).pos
      BY <1>10, <3>1 DEF PlaceInv
    <3> QED
      BY <3>1, <3>2
  <2> QED
    BY <2>1, <2>2, <2>3
<1>11. Places' = Places
  BY DEF Places, Calls, Buffers
<1> QED
  BY <1>9, <1>10, <1>11 DEF PlaceInv

\* The worker keeps the bytes apart.
LEMMA WorkerPlaces ==
  ASSUME TypeOK, TypeOK', StageTypes, PlaceInv, ReadInv, Worker
  PROVE  PlaceInv'
<1>1. io_ \in Seq(Reads \cup Bound)
  BY DEF TypeOK, Bound
<1>2. CASE WorkerPop \/ WorkerStopped \/ WorkerRequeue \/ WorkerProceed
             \/ (WorkerRead /\ failed)
  <2>1. /\ UNCHANGED <<bytes_read_, got, io_, hot, size, start, copy, mpc>>
        /\ wpc' # "finish"
    BY <1>2 DEF WorkerPop, WorkerStopped, WorkerRequeue, WorkerProceed, WorkerRead, halfVars
  <2>2. \A i \in Nat : Carried(<<"io", i>>, <<"io", i>>)
    BY <2>1, CarriedStaying
  <2> QED
    BY <2>1, <2>2, PlacesKept DEF Filled
<1>3. CASE WorkerRead /\ ~failed
  BY <1>3, ReadPlaces
<1>4. CASE WorkerFinish
  <2>1. /\ UNCHANGED <<bytes_read_, got, io_, size, start, copy, mpc>>
        /\ wpc = "finish" /\ wpc' # "finish" /\ hot' = [hot EXCEPT ![op.buf] = TRUE]
    BY <1>4 DEF WorkerFinish
  <2>2. \A i \in Nat : Carried(<<"io", i>>, <<"io", i>>)
    BY <2>1, CarriedStaying
  <2>3. \A b \in Buffers : Filled(b)' => Filled(b) /\ size'[b] = size[b] /\ start'[b] = start[b]
    BY <2>1 DEF Filled, TypeOK
  <2> QED
    BY <2>1, <2>2, <2>3, PlacesKept
<1>5. CASE WorkerPost
  <2>1. /\ UNCHANGED <<bytes_read_, got, hot, size, start, copy, mpc>>
        /\ wpc' # "finish" /\ io_' = Append(io_, op) /\ op \in Reads
    BY <1>5 DEF WorkerPost, StageTypes, Holding, halfVars
  <2>2. ASSUME NEW i \in Nat PROVE Carried(<<"io", i>>, <<"io", i>>)
    <3>1. CASE i = Len(io_) + 1
      <4>1. "answer" \notin DOMAIN io_'[i]
        BY <1>1, <2>1, <3>1, AppendIndices, HandlerKinds
      <4>2. ~Used(<<"io", i>>)'
        BY <4>1, PlaceValues
      <4> QED
        BY <4>2 DEF Carried, Bytes
    <3>2. CASE i # Len(io_) + 1
      BY <1>1, <2>1, <3>2, CarriedAppended
    <3> QED
      BY <3>1, <3>2
  <2> QED
    BY <2>1, <2>2, PlacesKept DEF Filled
<1> QED
  BY <1>2, <1>3, <1>4, <1>5 DEF Worker

\* Every step keeps the bytes apart.
LEMMA PlaceStep ==
  ASSUME TypeOK, TypeOK', StageTypes, PlaceInv, ReadInv, [Next]_vars
  PROVE  PlaceInv'
<1>1. CASE Stop \/ UNCHANGED vars \/ \E n \in Resizes : Resize(n)
  <2>1. UNCHANGED <<bytes_read_, got, io_, hot, size, start, copy, mpc, wpc, op>>
    BY <1>1 DEF Stop, Resize, vars, halfVars, workerVars
  <2>2. \A i \in Nat : Carried(<<"io", i>>, <<"io", i>>)
    BY <2>1, CarriedStaying
  <2> QED
    BY <2>1, <2>2, PlacesKept DEF Filled
<1> QED
  BY <1>1, CallPlaces, MainPlaces, WorkerPlaces DEF Next

-----------------------------------------------------------------------------
(* The theorems.                                                             *)

\* The reader starts with nothing asked for and nothing read.
LEMMA InitInv == Init => IInv
<1> SUFFICES ASSUME Init PROVE IInv
  OBVIOUS
<1>1. TypeOK
  <2>1. /\ file_size \in Nat /\ actual \in Nat /\ pos_to_schedule \in Nat
        /\ bytes_read_ \in Nat /\ n_enqueued \in 0..2 /\ calls \in 0..MaxCalls
    BY ChunkedReaderAssumption DEF Init
  <2>5. /\ consumer \in Consumers /\ swapped \in Buffers /\ next \in Buffers
        /\ resized \in BOOLEAN /\ stopped \in BOOLEAN /\ failed \in BOOLEAN
    BY DEF Init, Buffers
  <2>2. /\ size \in [Buffers -> 0..ChunkSize] /\ start \in [Buffers -> Nat]
        /\ hot \in [Buffers -> BOOLEAN] /\ bec \in [Buffers -> ErrorCode]
        /\ got \in [Calls -> Answers \cup {None}]
    BY ChunkedReaderAssumption DEF Init, ErrorCode
  <2>3. /\ q_handlers \in Seq(Calls) /\ q_buf_ready \in Seq(Buffers)
        /\ q_as_read_data \in Seq(Reads)
        /\ io_ \in Seq(Reads \cup [call : Calls, answer : Answers])
    BY DEF Init
  <2>4. /\ mpc \in {"idle", "callback", "taken", "scheduled", "prefetch", "prefetched",
                    "aborted"}
        /\ within \in {"none", "bound", "direct", "prefetch"}
        /\ wpc \in {"pop", "examine", "read", "finish", "post", "aborted"}
        /\ op \in Reads \cup {None}
        /\ copy \in {None} \cup [pos : Nat, size : 0..ChunkSize, ec : {None}]
    BY DEF Init
  <2> QED
    BY <2>1, <2>2, <2>3, <2>4, <2>5 DEF TypeOK
<1>2. StageTypes
  BY DEF Init, StageTypes, Holding
<1>3. CountInv
  <2>1. Prefetches = {}
    BY DEF Init, Prefetches, Queued, Held, Posted, Holding
  <2>2. IsFiniteSet(Prefetches) /\ Cardinality(Prefetches) = 0
    BY <2>1, FS_EmptySet
  <2> QED
    BY <2>2 DEF Init, CountInv
<1>4. PlaceInv
  <2> DEFINE S == {p \in Places : ~Used(p)}
  <2>1. \A h \in Calls : <<"got", h>> \in S
    BY PlaceValues DEF Init, Places
  <2>2. ASSUME NEW i \in Nat \ {0} PROVE <<"io", i>> \in S
    <3>1. i \notin 1..Len(io_)
      BY DEF Init
    <3> QED
      BY <3>1, PlaceValues DEF Places
  <2>3. \A b \in Buffers : <<"half", b>> \in S
    BY PlaceValues DEF Init, Places, Filled
  <2>4. <<"copy", 0>> \in S
    BY PlaceValues DEF Init, Places
  <2>5. \A p \in Places : p \in S
    <3> HIDE DEF S
    <3> QED
      BY <2>1, <2>2, <2>3, <2>4, EachPlace
  <2> QED
    BY <2>5 DEF PlaceInv, Bytes
<1>5. ReadInv
  BY DEF Init, ReadInv
<1> QED
  BY <1>1, <1>2, <1>3, <1>4, <1>5 DEF IInv

\* Every step keeps the invariant.
LEMMA StepInv == IInv /\ [Next]_vars => IInv'
<1> SUFFICES ASSUME IInv, [Next]_vars PROVE IInv'
  OBVIOUS
<1>1. TypeOK /\ StageTypes /\ CountInv /\ PlaceInv /\ ReadInv
  BY DEF IInv
<1>2. TypeOK' /\ StageTypes' /\ CountInv'
  BY <1>1, TypeStep, StageStep, CountStep
<1>3. ReadInv' /\ PlaceInv'
  BY <1>1, <1>2, ReadStep, PlaceStep
<1> QED
  BY <1>2, <1>3 DEF IInv

\* The invariant always holds.
THEOREM Invariance == Spec => []IInv
BY InitInv, StepInv, PTL DEF Spec

\* Every variable keeps its type: in particular n_enqueued, which is unsigned and is
\* lowered after a handler has run (fs_manager.cpp:620), never passes below zero.
THEOREM TypeCorrect == Spec => []TypeOK
<1>1. IInv => TypeOK
  BY DEF IInv
<1> QED
  BY <1>1, Invariance, PTL

\* No byte is given twice and none before it has been read, however the calls, the
\* handlers and the worker interleave and whatever is done to the file or the stream.
THEOREM DeliveredOnceAlways == Spec => []DeliveredOnce
<1>1. IInv => DeliveredOnce
  <2> SUFFICES ASSUME IInv PROVE DeliveredOnce
    OBVIOUS
  <2>1. ASSUME NEW h \in Delivered
        PROVE  /\ <<"got", h>> \in Places /\ Bytes(<<"got", h>>)
               /\ At(<<"got", h>>) = got[h]
    BY PlaceValues DEF Delivered, Bytes, Places
  <2>2. ASSUME NEW h \in Delivered PROVE got[h].pos + got[h].size <= bytes_read_
    BY <2>1 DEF IInv, PlaceInv
  <2>3. ASSUME NEW h \in Delivered, NEW i \in Delivered, h # i
        PROVE  \/ got[h].pos + got[h].size <= got[i].pos
               \/ got[i].pos + got[i].size <= got[h].pos
    <3>1. <<"got", h>> # <<"got", i>>
      BY <2>3
    <3> QED
      BY <2>1, <3>1 DEF IInv, PlaceInv
  <2> QED
    BY <2>2, <2>3 DEF DeliveredOnce
<1> QED
  BY <1>1, Invariance, PTL

-----------------------------------------------------------------------------
(* The numbers of the reads.                                               *)

\* Consecutive reads use different halves.
LEMMA Halves ==
  /\ \A k \in Nat : /\ HalfOf(k) \in Buffers /\ HalfOf(k + 1) = 1 - HalfOf(k)
                    /\ HalfOf(k + 1) # HalfOf(k) /\ HalfOf(k + 2) = HalfOf(k)
  /\ \A k, l \in Nat : k <= l /\ l <= k + 1 /\ HalfOf(k) = HalfOf(l) => k = l
  /\ \A k \in Nat, b \in Buffers : b # HalfOf(k) => b = HalfOf(k + 1)
<1>1. \A k \in Nat : HalfOf(k) \in Buffers /\ HalfOf(k + 1) = 1 - HalfOf(k)
  BY DEF HalfOf, Buffers
<1> QED
  BY <1>1, SMT DEF HalfOf, Buffers

\* The reads of a file that is not cut follow each other.
LEMMA Begins ==
  /\ Begin(0) = 0
  /\ \A k \in Nat : Begin(k) \in Nat /\ Begin(k + 1) = Begin(k) + ChunkSize
  /\ \A k, l \in Nat : k < l => Begin(k) + ChunkSize <= Begin(l)
<1>1. ChunkSize \in Nat
  BY ChunkedReaderAssumption
<1>2. \A k \in Nat : Begin(k) \in Nat /\ Begin(k + 1) = Begin(k) + ChunkSize
  BY <1>1 DEF Begin
<1>3. ASSUME NEW k \in Nat, NEW l \in Nat, k < l  PROVE Begin(k) + ChunkSize <= Begin(l)
  <2>1. PICK d \in Nat : l = k + 1 + d
    <3>1. l - k - 1 \in Nat /\ l = k + 1 + (l - k - 1)
      BY <1>3
    <3> QED
      BY <3>1
  <2>2. Begin(l) = Begin(k) + ChunkSize + d * ChunkSize /\ d * ChunkSize \in Nat
    BY <1>1, <2>1 DEF Begin
  <2> QED
    BY <1>1, <1>2, <2>2
<1> QED
  BY <1>1, <1>2, <1>3 DEF Begin

-----------------------------------------------------------------------------
(* The worker takes reads, puts them back, and posts them.                 *)

\* The worker takes the first read of the queue, with its number.
LEMMA PopFlows ==
  ASSUME NEW s, NEW f, NEW r, NEW a, NEW qn, NEW on, NEW bn,
         TypeOK, StageTypes, Flowing(s, f, r, a, qn, on, bn), WorkerPop
  PROVE  Flowing(s, f, r, a, Tail(qn), Head(qn), bn)'
<1> USE DEF Flowing
<1>1. /\ wpc = "pop" /\ wpc' = "examine" /\ op' = Head(q_as_read_data)
      /\ q_as_read_data' = Tail(q_as_read_data) /\ q_as_read_data # <<>>
      /\ UNCHANGED <<mpc, within, pos_to_schedule, n_enqueued, swapped, q_handlers, q_buf_ready,
                     next, size, hot, bytes_read_, failed, file_size, stopped, io_>>
  BY DEF WorkerPop, mainVars, halfVars, givenVars
<1>2. q_as_read_data \in Seq(Reads) /\ qn \in Seq(Nat) /\ qn # <<>>
      /\ Len(qn) = Len(q_as_read_data)
  BY <1>1 DEF NumberInv, TypeOK
<1>3. /\ Len(Tail(qn)) = Len(qn) - 1 /\ Len(qn) \in Nat /\ Head(qn) = qn[1] /\ 1 \in 1..Len(qn)
      /\ qn[1] \in Nat /\ Tail(qn) \in Seq(Nat)
      /\ \A i \in 1..Len(Tail(qn)) : i + 1 \in 1..Len(qn) /\ Tail(qn)[i] = qn[i + 1]
  BY <1>2, TailIndices
<1>4. /\ Len(q_as_read_data') = Len(q_as_read_data) - 1 /\ op' = q_as_read_data[1]
      /\ \A i \in 1..Len(Tail(qn)) : q_as_read_data'[i] = q_as_read_data[i + 1]
  BY <1>1, <1>2, TailIndices
<1>5. NumberInv(s, f, r, a, Tail(qn), Head(qn), bn)'
  BY <1>1, <1>2, <1>3, <1>4 DEF NumberInv, Ready
<1>6. /\ EnqueuedInv(s, r, a)' /\ DirectInv(s, r, a)' /\ ReadyInv(s, r, a)'
      /\ ScheduleInv(s, f)'
  BY <1>1 DEF EnqueuedInv, DirectInv, ReadyInv, ScheduleInv, Ready, Front, Scheduling
<1>7. DueInv(s, f, a, Tail(qn), Head(qn))'
  <2>1. \A i \in 1..Len(qn) : Awaits(q_as_read_data[i], qn[i], s, f, a)
    BY DEF DueInv
  <2>2. \A i, j \in 1..Len(qn) : i # j => qn[i] # qn[j]
    BY DEF DueInv
  <2>3. \A i \in 1..Len(Tail(qn)) : Awaits(q_as_read_data[i], Tail(qn)[i], s, f, a)'
    <3>1. \A i \in 1..Len(Tail(qn)) : Awaits(q_as_read_data'[i], Tail(qn)[i], s, f, a)
      BY <1>3, <1>4, <2>1
    <3> QED
      BY <1>1, <3>1 DEF Awaits
  <2>4. \A i, j \in 1..Len(Tail(qn)) : i # j => Tail(qn)[i] # Tail(qn)[j]
    BY <1>3, <2>2
  <2>5. Awaits(op, Head(qn), s, f, a)'
    <3>1. Awaits(op', Head(qn), s, f, a)
      BY <1>3, <1>4, <2>1
    <3> QED
      BY <1>1, <3>1 DEF Awaits
  <2>6. \A i \in 1..Len(Tail(qn)) : Tail(qn)[i] # Head(qn)
    BY <1>3, <2>2
  <2> QED
    BY <1>1, <2>3, <2>4, <2>5, <2>6 DEF DueInv
<1>8. ~Made /\ ~Made'
  BY <1>1 DEF Made
<1>9. MadeInv(f, r, a, Head(qn), bn)'
  BY <1>1, <1>8 DEF MadeInv
<1>10. StoppedInv(s, f, a, Head(qn), bn)'
  BY <1>1, <1>8 DEF StoppedInv
<1>11. WindowInv(f, r)'
  BY <1>1 DEF WindowInv, Ready
<1> QED
  BY <1>1, <1>5, <1>6, <1>7, <1>9, <1>10, <1>11

\* A read the worker finds stopped comes after those that were made.
LEMMA WorkerStoppedFlows ==
  ASSUME NEW s, NEW f, NEW r, NEW a, NEW qn, NEW on, NEW bn,
         TypeOK, StageTypes, Flowing(s, f, r, a, qn, on, bn), WorkerStopped
  PROVE  Flowing(s, f, r, a, qn, on, bn)'
<1> USE DEF Flowing
<1>1. /\ wpc = "examine" /\ wpc' = "post" /\ op' = [op EXCEPT !.ec = "stopped"] /\ stopped
      /\ UNCHANGED <<mpc, within, pos_to_schedule, n_enqueued, swapped, q_handlers, q_buf_ready,
                     next, size, hot, bytes_read_, failed, file_size, stopped, q_as_read_data,
                     io_>>
  BY DEF WorkerStopped, mainVars, halfVars, givenVars
<1>2. op \in Reads
  BY <1>1 DEF StageTypes, Holding
<1>3. op'.ec = "stopped" /\ op'.buf = op.buf /\ op'.call = op.call
  BY <1>1, <1>2 DEF Reads
<1>4. ~Made /\ ~Made' /\ ~Waits' /\ Waits /\ ~HasData(op')
  BY <1>1, <1>3 DEF Made, HasData, Waits
<1>5. NumberInv(s, f, r, a, qn, on, bn)' /\ EnqueuedInv(s, r, a)' /\ DirectInv(s, r, a)'
      /\ ReadyInv(s, r, a)' /\ ScheduleInv(s, f)' /\ WindowInv(f, r)'
  BY <1>1 DEF NumberInv, EnqueuedInv, DirectInv, ReadyInv, ScheduleInv, WindowInv, Ready, Front,
              Scheduling
<1>6. DueInv(s, f, a, qn, on)'
  BY <1>1, <1>4 DEF DueInv, Awaits
<1>7. MadeInv(f, r, a, on, bn)'
  BY <1>1, <1>4 DEF MadeInv
<1>8. on \in f..(s - 1) /\ Numbered(op, on, a)
  BY <1>4 DEF DueInv, Awaits
<1>9. StoppedInv(s, f, a, on, bn)'
  BY <1>1, <1>3, <1>4, <1>8 DEF StoppedInv, Numbered
<1> QED
  BY <1>1, <1>5, <1>6, <1>7, <1>9

\* A read put back keeps its number.
LEMMA RequeueFlows ==
  ASSUME NEW s, NEW f, NEW r, NEW a, NEW qn, NEW on, NEW bn,
         TypeOK, StageTypes, Flowing(s, f, r, a, qn, on, bn), WorkerRequeue
  PROVE  Flowing(s, f, r, a, Append(qn, on), on, bn)'
<1> USE DEF Flowing
<1>1. /\ wpc = "examine" /\ wpc' = "pop" /\ ~stopped
      /\ q_as_read_data' = Append(q_as_read_data, op)
      /\ UNCHANGED <<mpc, within, pos_to_schedule, n_enqueued, swapped, q_handlers, q_buf_ready,
                     next, size, hot, bytes_read_, failed, file_size, stopped, io_>>
  BY DEF WorkerRequeue, mainVars, halfVars, givenVars
<1>2. /\ q_as_read_data \in Seq(Reads) /\ qn \in Seq(Nat) /\ on \in Nat
      /\ Len(qn) = Len(q_as_read_data)
  BY <1>1 DEF NumberInv, TypeOK
<1>3. /\ Len(qn) \in Nat /\ Len(Append(qn, on)) = Len(qn) + 1 /\ Append(qn, on) \in Seq(Nat)
      /\ \A i \in 1..Len(qn) : Append(qn, on)[i] = qn[i]
      /\ Append(qn, on)[Len(qn) + 1] = on
  BY <1>2, AppendIndices
<1>4. /\ Len(q_as_read_data') = Len(qn) + 1
      /\ \A i \in 1..Len(qn) : q_as_read_data'[i] = q_as_read_data[i]
      /\ q_as_read_data'[Len(qn) + 1] = op
  BY <1>1, <1>2, AppendIndices
<1>5. NumberInv(s, f, r, a, Append(qn, on), on, bn)'
  BY <1>1, <1>2, <1>3, <1>4 DEF NumberInv, Ready
<1>6. EnqueuedInv(s, r, a)' /\ DirectInv(s, r, a)' /\ ReadyInv(s, r, a)'
      /\ ScheduleInv(s, f)' /\ WindowInv(f, r)'
  BY <1>1 DEF EnqueuedInv, DirectInv, ReadyInv, ScheduleInv, WindowInv, Ready, Front, Scheduling
<1>7. ~Made /\ ~Made' /\ ~Waits' /\ Waits
  BY <1>1 DEF Made, HasData, Waits
<1>8. DueInv(s, f, a, Append(qn, on), on)'
  <2>1. /\ \A i \in 1..Len(qn) : Awaits(q_as_read_data[i], qn[i], s, f, a)
        /\ Awaits(op, on, s, f, a)
        /\ \A i, j \in 1..Len(qn) : i # j => qn[i] # qn[j]
        /\ \A i \in 1..Len(qn) : qn[i] # on
    BY <1>7 DEF DueInv
  <2>2. \A i \in 1..(Len(qn) + 1) : i \in 1..Len(qn) \/ i = Len(qn) + 1
    BY <1>3
  <2>3. ASSUME NEW i \in 1..(Len(qn) + 1)
        PROVE  Awaits(q_as_read_data'[i], Append(qn, on)[i], s, f, a)
    BY <1>3, <1>4, <2>1, <2>2
  <2>4. \A i \in 1..(Len(qn) + 1) : Awaits(q_as_read_data[i], Append(qn, on)[i], s, f, a)'
    BY <1>1, <2>3 DEF Awaits
  <2>5. ASSUME NEW i \in 1..(Len(qn) + 1), NEW j \in 1..(Len(qn) + 1), i # j
        PROVE  Append(qn, on)[i] # Append(qn, on)[j]
    BY <1>3, <2>1, <2>2, <2>5
  <2> QED
    BY <1>1, <1>3, <1>7, <2>4, <2>5 DEF DueInv
<1>9. MadeInv(f, r, a, on, bn)' /\ StoppedInv(s, f, a, on, bn)'
  BY <1>1, <1>7 DEF MadeInv, StoppedInv
<1> QED
  BY <1>1, <1>5, <1>6, <1>8, <1>9

\* A handler is posted with the number of its read.
LEMMA PostFlows ==
  ASSUME NEW s, NEW f, NEW r, NEW a, NEW qn, NEW on, NEW bn,
         TypeOK, StageTypes, Flowing(s, f, r, a, qn, on, bn), WorkerPost
  PROVE  Flowing(s, f, r, a, qn, on, Append(bn, on))'
<1> USE DEF Flowing
<1>1. /\ wpc = "post" /\ wpc' = "pop" /\ io_' = Append(io_, op)
      /\ UNCHANGED <<mpc, within, pos_to_schedule, n_enqueued, swapped, q_handlers, q_buf_ready,
                     next, size, hot, bytes_read_, failed, file_size, stopped, q_as_read_data>>
  BY DEF WorkerPost, mainVars, halfVars, givenVars
<1>2. /\ io_ \in Seq(Reads \cup Bound) /\ bn \in Seq(Nat) /\ on \in Nat /\ f \in Nat /\ r \in Nat
      /\ Len(bn) = Len(io_) /\ op \in Reads /\ IsRead(op)
  BY <1>1, HandlerKinds DEF NumberInv, TypeOK, StageTypes, Holding, Bound, IsRead
<1>3. /\ Len(bn) \in Nat /\ Len(Append(bn, on)) = Len(bn) + 1 /\ Append(bn, on) \in Seq(Nat)
      /\ \A i \in 1..Len(bn) : Append(bn, on)[i] = bn[i]
      /\ Append(bn, on)[Len(bn) + 1] = on
  BY <1>2, AppendIndices
<1>4. /\ Len(io_') = Len(bn) + 1 /\ \A i \in 1..Len(bn) : io_'[i] = io_[i]
      /\ io_'[Len(bn) + 1] = op
  BY <1>1, <1>2, AppendIndices
<1>5. NumberInv(s, f, r, a, qn, on, Append(bn, on))'
  BY <1>1, <1>2, <1>3, <1>4 DEF NumberInv, Ready
<1>6. EnqueuedInv(s, r, a)' /\ DirectInv(s, r, a)' /\ ReadyInv(s, r, a)'
      /\ ScheduleInv(s, f)' /\ WindowInv(f, r)'
  BY <1>1 DEF EnqueuedInv, DirectInv, ReadyInv, ScheduleInv, WindowInv, Ready, Front, Scheduling
<1>7. ~Made' /\ ~Waits' /\ ~Waits /\ (Made <=> HasData(op)) /\ wpc # "read" /\ wpc' # "read"
  BY <1>1 DEF Made, Waits
<1>8. DueInv(s, f, a, qn, on)'
  BY <1>1, <1>7 DEF DueInv, Awaits
<1> DEFINE m == Len(bn)
<1> DEFINE d == Append(bn, on)
<1>9. m \in Nat /\ Len(d) = m + 1 /\ (\A i \in 1..m : d[i] = bn[i]) /\ d[m + 1] = on
      /\ (\A i \in 1..m : io_'[i] = io_[i]) /\ io_'[m + 1] = op
      /\ \A i \in 1..(m + 1) : i \in 1..m \/ i = m + 1
  BY <1>3, <1>4
<1>10. MadeInv(f, r, a, on, d)'
  <2>1. /\ HasData(op) => r < f /\ on = f - 1 /\ Numbered(op, on, a)
        /\ \A i \in 1..m : IsRead(io_[i]) /\ HasData(io_[i]) =>
             /\ bn[i] \in r..(f - 1) /\ Numbered(io_[i], bn[i], a)
             /\ HasData(op) => bn[i] # on
        /\ \A i, j \in 1..m :
             IsRead(io_[i]) /\ HasData(io_[i]) /\ IsRead(io_[j]) /\ HasData(io_[j]) /\ i < j
               => bn[i] < bn[j]
        /\ \A k \in r..(f - 1) :
             \/ \E i \in 1..m : IsRead(io_[i]) /\ HasData(io_[i]) /\ bn[i] = k
             \/ HasData(op) /\ on = k
    BY <1>7 DEF MadeInv
  <2> HIDE DEF m, d
  <2>2. ASSUME NEW i \in 1..(m + 1), IsRead(io_'[i]) /\ HasData(io_'[i])
        PROVE  d[i] \in r..(f - 1) /\ Numbered(io_'[i], d[i], a)
    BY <1>2, <1>9, <2>1, <2>2
  <2>3. ASSUME NEW i \in 1..(m + 1), NEW j \in 1..(m + 1), i < j,
               IsRead(io_'[i]) /\ HasData(io_'[i]) /\ IsRead(io_'[j]) /\ HasData(io_'[j])
        PROVE  d[i] < d[j]
    <3>1. i \in 1..m
      BY <1>9, <2>3
    <3>2. CASE j \in 1..m
      BY <1>9, <2>1, <2>3, <3>1, <3>2
    <3>3. CASE j = m + 1
      <4>1. HasData(op) /\ d[j] = f - 1 /\ d[i] = bn[i] /\ bn[i] \in r..(f - 1) /\ bn[i] # f - 1
        BY <1>9, <2>1, <2>3, <3>1, <3>3
      <4> QED
        BY <1>2, <4>1
    <3> QED
      BY <1>9, <3>2, <3>3
  <2>4. ASSUME NEW k \in r..(f - 1)
        PROVE  \E i \in 1..(m + 1) : IsRead(io_'[i]) /\ HasData(io_'[i]) /\ d[i] = k
    <3>1. CASE HasData(op) /\ on = k
      BY <1>2, <1>9, <3>1
    <3>2. CASE \E i \in 1..m : IsRead(io_[i]) /\ HasData(io_[i]) /\ bn[i] = k
      BY <1>9, <3>2
    <3> QED
      BY <2>1, <3>1, <3>2
  <2> QED
    BY <1>7, <1>9, <2>2, <2>3, <2>4 DEF MadeInv, HasData, IsRead, Numbered
<1>11. StoppedInv(s, f, a, on, d)'
  <2>1. /\ stopped => mpc \in {"idle", "callback"}
        /\ \A i \in 1..m : IsRead(io_[i]) /\ ~HasData(io_[i]) =>
             /\ stopped /\ ~HasData(op)
             /\ bn[i] \in f..(s - 1) /\ Numbered(io_[i], bn[i], a)
             /\ \A j \in 1..m : i < j /\ IsRead(io_[j]) => ~HasData(io_[j])
        /\ ~HasData(op) => stopped /\ on \in f..(s - 1) /\ Numbered(op, on, a)
    BY <1>1, <1>7 DEF StoppedInv
  <2> HIDE DEF m, d
  <2>2. ASSUME NEW i \in 1..(m + 1), IsRead(io_'[i]) /\ ~HasData(io_'[i])
        PROVE  /\ stopped /\ d[i] \in f..(s - 1) /\ Numbered(io_'[i], d[i], a)
               /\ \A j \in 1..(m + 1) : i < j /\ IsRead(io_'[j]) => ~HasData(io_'[j])
    <3>1. CASE i = m + 1
      BY <1>9, <2>1, <2>2, <3>1
    <3>2. CASE i \in 1..m
      BY <1>9, <2>1, <2>2, <3>2
    <3> QED
      BY <1>9, <3>1, <3>2
  <2> QED
    BY <1>1, <1>7, <1>9, <2>1, <2>2 DEF StoppedInv, HasData, IsRead, Numbered
<1> QED
  BY <1>1, <1>5, <1>6, <1>8, <1>10, <1>11

-----------------------------------------------------------------------------
(* The worker reads.                                                       *)

\* Before the next read is made, at most one half holds a read that is not consumed.
LEMMA ProceedRoom ==
  ASSUME NEW s, NEW f, NEW r, NEW a, NEW qn, NEW on, NEW bn,
         TypeOK, StageTypes, Flowing(s, f, r, a, qn, on, bn), WorkerProceed
  PROVE  on = f /\ f + Ready <= r + 1
<1> USE DEF Flowing
<1>1. /\ wpc = "examine" /\ bytes_read_ = op.pos /\ ~hot[op.buf]
  BY DEF WorkerProceed, MayProceed
<1>2. Awaits(op, on, s, f, a)
  BY <1>1 DEF DueInv, Waits
<1>3. s \in Nat /\ f \in Nat /\ r \in Nat /\ on \in f..(s - 1) /\ Ready \in Nat /\ Ready <= r
      /\ r <= f /\ n_enqueued \in 0..2 /\ \A k \in 0..s : a[k] \in Nat
  <2>1. /\ s \in Nat /\ f \in Nat /\ r \in Nat /\ Ready <= r /\ r <= f /\ a \in [Nat -> Nat]
    BY DEF NumberInv
  <2>2. Ready \in Nat /\ n_enqueued \in 0..2
    BY DEF Ready, TypeOK
  <2>3. on \in f..(s - 1)
    BY <1>2 DEF Awaits
  <2> QED
    BY <2>1, <2>2, <2>3
<1>4. on = f
  <2>1. CASE failed
    BY <1>1, <1>2, <1>3, <2>1, SMTT(20) DEF Awaits, TypeOK
  <2>2. CASE ~failed
    <3>1. op.pos = Begin(on) /\ bytes_read_ = Begin(f)
      BY <1>2, <2>2 DEF Awaits, ScheduleInv
    <3>2. ~(f < on)
      <4>1. f < on => Begin(f) + ChunkSize <= Begin(on)
        BY <1>3, Begins
      <4>2. ChunkSize \in Nat \ {0} /\ Begin(f) \in Nat
        BY <1>3, Begins, ChunkedReaderAssumption
      <4> QED
        BY <1>1, <3>1, <4>1, <4>2
    <3> QED
      BY <1>3, <3>2
  <2> QED
    BY <2>1, <2>2
<1>5. ASSUME ~(f + Ready <= r + 1)  PROVE FALSE
  <2>1. f + Ready = r + 2
    BY <1>1, <1>3, <1>5 DEF WindowInv
  <2>2. r - Ready \in Nat /\ r - Ready = f - 2 /\ f = (r - Ready) + 2
    BY <1>3, <2>1
  <2>3. HalfOf(r - Ready) = op.buf
    BY <1>2, <1>4, <2>2, Halves DEF Awaits, Numbered
  <2>4. r - Ready \in (r - Ready)..(f - 1)
    BY <1>3, <2>2
  <2>5. mpc = "taken"
    BY <1>1, <2>3, <2>4 DEF WindowInv
  <2>6. Ready > 0 /\ \A k \in r..(s - 1) : a[k + 1] = a[k] + 1
    BY <2>5 DEF ReadyInv
  <2>7. a[s] + Ready <= a[r] + 2
    <3>1. a[s] \in Nat /\ a[r] \in Nat
      BY <1>3
    <3>2. a[s] + Ready + (IF within = "prefetch" THEN 1 ELSE 0)
            <= a[r] + n_enqueued + (IF mpc = "prefetched" THEN 1 ELSE 0)
      BY DEF EnqueuedInv
    <3> QED
      BY <1>3, <2>5, <3>1, <3>2
  <2>8. a[f + 1] = a[f] + 1 /\ a[f + 1] <= a[s] /\ a[r] <= a[f]
    <3>1. f \in r..(s - 1) /\ f + 1 \in 0..s /\ s \in 0..s /\ r \in 0..s /\ f \in 0..s
      BY <1>3, <1>4
    <3> QED
      BY <1>3, <1>4, <2>6, <3>1 DEF KindInv
  <2>9. a[s] \in Nat /\ a[r] \in Nat /\ a[f] \in Nat /\ a[f + 1] \in Nat
    BY <1>3, <1>4
  <2>10. Ready = 1 /\ f = r + 1
    BY <1>3, <2>1, <2>6, <2>7, <2>8, <2>9
  <2>11. r \in r..(s - 1)
    BY <1>3, <1>4, <2>10
  <2>12. a[f] = a[r] + 1
    BY <2>6, <2>10, <2>11
  <2> QED
    BY <2>7, <2>8, <2>9, <2>10, <2>12
<1> QED
  BY <1>4, <1>5

\* The read that is about to be made leaves the window as it is.
LEMMA ProceedFlows ==
  ASSUME NEW s, NEW f, NEW r, NEW a, NEW qn, NEW on, NEW bn,
         TypeOK, StageTypes, Flowing(s, f, r, a, qn, on, bn), WorkerProceed
  PROVE  Flowing(s, f, r, a, qn, on, bn)'
<1>0. on = f /\ f + Ready <= r + 1
  BY ProceedRoom
<1> USE DEF Flowing
<1>1. /\ wpc = "examine" /\ wpc' = "read" /\ ~stopped /\ bytes_read_ = op.pos
      /\ UNCHANGED <<mpc, within, pos_to_schedule, n_enqueued, swapped, q_handlers, q_buf_ready,
                     next, size, hot, bytes_read_, failed, op, file_size, stopped,
                     q_as_read_data, io_>>
  BY DEF WorkerProceed, MayProceed, mainVars, halfVars, givenVars
<1>2. ~Made /\ ~Made' /\ Waits /\ Waits'
  BY <1>1 DEF Made, Waits
<1>3. NumberInv(s, f, r, a, qn, on, bn)' /\ EnqueuedInv(s, r, a)' /\ DirectInv(s, r, a)'
      /\ ReadyInv(s, r, a)' /\ ScheduleInv(s, f)'
  BY <1>1 DEF NumberInv, EnqueuedInv, DirectInv, ReadyInv, ScheduleInv, Ready, Front, Scheduling
<1>4. DueInv(s, f, a, qn, on)'
  BY <1>0, <1>1, <1>2 DEF DueInv, Awaits
<1>5. MadeInv(f, r, a, on, bn)' /\ StoppedInv(s, f, a, on, bn)'
  BY <1>1, <1>2 DEF MadeInv, StoppedInv
<1>6. WindowInv(f, r)'
  BY <1>0, <1>1 DEF WindowInv, Ready
<1> QED
  BY <1>1, <1>3, <1>4, <1>5, <1>6

\* The read is made: it is the last of those, and the next one has its turn.
LEMMA ReadFlows ==
  ASSUME NEW s, NEW f, NEW r, NEW a, NEW qn, NEW on, NEW bn,
         TypeOK, StageTypes, ReadInv, Flowing(s, f, r, a, qn, on, bn), WorkerRead, ~failed
  PROVE  Flowing(s, f + 1, r, a, qn, on, bn)'
<1> USE DEF Flowing
<1> DEFINE n == Stream!Least(size[op.buf], IF actual < op.pos THEN 0 ELSE actual - op.pos)
<1>1. /\ wpc = "read" /\ wpc' = "finish" /\ size' = [size EXCEPT ![op.buf] = n]
      /\ bytes_read_' = bytes_read_ + n /\ failed' = (n < size[op.buf])
      /\ UNCHANGED <<mpc, within, pos_to_schedule, n_enqueued, swapped, q_handlers, q_buf_ready,
                     next, hot, op, file_size, stopped, q_as_read_data, io_>>
  BY DEF WorkerRead, mainVars, givenVars
<1>2. op \in Reads /\ op.buf \in Buffers /\ op.pos \in Nat
  BY <1>1, ReadTypes DEF StageTypes, Holding
<1>3. on = f /\ bytes_read_ = op.pos /\ Awaits(op, on, s, f, a) /\ Waits
  BY <1>1 DEF DueInv, Waits
<1>4. /\ s \in Nat /\ f \in Nat /\ r \in Nat /\ r <= f /\ f < s /\ Ready \in Nat /\ Ready <= r
      /\ f + 1 \in Nat /\ f + 1 <= s /\ r <= f + 1
  BY <1>3 DEF NumberInv, Awaits, Ready
<1>5. n \in Nat /\ n <= ChunkSize /\ ChunkSize \in Nat \ {0}
  <2>1. size[op.buf] = ChunkSize /\ actual \in Nat /\ ChunkSize \in Nat \ {0}
    BY <1>2, ChunkedReaderAssumption DEF ScheduleInv, TypeOK
  <2>2. (IF actual < op.pos THEN 0 ELSE actual - op.pos) \in Nat
    BY <1>2, <2>1
  <2> QED
    BY <2>1, <2>2 DEF Stream!Least
<1> HIDE DEF n
<1>6. Made' /\ ~Made /\ ~Waits'
  BY <1>1 DEF Made, Waits
<1>7. NumberInv(s, f + 1, r, a, qn, on, bn)'
  BY <1>1, <1>4 DEF NumberInv, Ready
<1>8. EnqueuedInv(s, r, a)' /\ DirectInv(s, r, a)' /\ ReadyInv(s, r, a)'
  BY <1>1 DEF EnqueuedInv, DirectInv, ReadyInv, Ready
<1>9. /\ size = [b \in Buffers |-> ChunkSize] /\ bytes_read_ = Begin(f) /\ Front = Begin(s)
      /\ swapped = HalfOf(s) /\ (Scheduling => s > 0 /\ next = HalfOf(s - 1))
  BY DEF ScheduleInv
<1>10. op.buf = HalfOf(f) /\ HalfOf(f + 1) # op.buf /\ HalfOf(f + 1) \in Buffers
  BY <1>3, <1>4, Halves DEF Awaits, Numbered
<1>11. /\ Begin(f) \in Nat /\ Begin(f + 1) = Begin(f) + ChunkSize
       /\ \A k \in Nat : f + 1 < k => Begin(f + 1) + ChunkSize <= Begin(k)
       /\ Begin(s) \in Nat /\ bytes_read_' = Begin(f) + n
  BY <1>1, <1>4, <1>9, Begins
<1>12. ScheduleInv(s, f + 1)'
  <2>1. swapped' = HalfOf(s) /\ (Scheduling' => s > 0 /\ next' = HalfOf(s - 1))
    BY <1>1, <1>9 DEF Scheduling
  <2>2. CASE n = ChunkSize
    <3>1. size' = size /\ ~failed'
      <4>1. size[op.buf] = ChunkSize /\ size' = [size EXCEPT ![op.buf] = size[op.buf]]
        BY <1>1, <1>2, <1>9, <2>2
      <4>2. size' = size
        BY <1>2, <1>9, <4>1
      <4>3. ~failed'
        <5>1. failed' => n < ChunkSize
          BY <1>1, <4>1
        <5> QED
          BY <1>5, <2>2, <5>1
      <4> QED
        BY <4>2, <4>3
    <3>2. Front' = Front
      BY <1>1, <3>1 DEF Front, Scheduling
    <3> QED
      BY <1>9, <1>11, <2>1, <2>2, <3>1, <3>2 DEF ScheduleInv
  <2>3. CASE n < ChunkSize
    <3>1. failed' /\ size'[HalfOf(f + 1)] = ChunkSize /\ size'[op.buf] = n
      <4>1. size[op.buf] = ChunkSize /\ size[HalfOf(f + 1)] = ChunkSize
        BY <1>2, <1>9, <1>10
      <4>2. size'[HalfOf(f + 1)] = size[HalfOf(f + 1)] /\ size'[op.buf] = n
        BY <1>1, <1>2, <1>10 DEF TypeOK
      <4>3. failed'
        BY <1>1, <2>3, <4>1
      <4> QED
        BY <4>1, <4>2, <4>3
    <3>2. CASE ~Scheduling
      <4>1. Front' = Begin(s)
        BY <1>1, <1>9, <3>2 DEF Front, Scheduling, TypeOK
      <4>2. Begin(f + 1) <= Begin(s)
        BY <1>4, <1>5, <1>11, Begins
      <4>3. bytes_read_' < Front'
        BY <1>5, <1>11, <2>3, <4>1, <4>2
      <4>4. bytes_read_' <= Front'
        BY <1>5, <1>11, <2>3, <4>1, <4>2
      <4> QED
        BY <1>4, <2>1, <3>1, <4>3, <4>4 DEF ScheduleInv
    <3>3. CASE Scheduling
      <4>1. s > 0 /\ next = HalfOf(s - 1) /\ s - 1 \in Nat /\ next \in Buffers
        BY <1>4, <1>9, <3>3, SMTT(20) DEF TypeOK
      <4>2. pos_to_schedule + ChunkSize = Begin(s) /\ pos_to_schedule \in Nat
        BY <1>9, <3>3, <4>1 DEF Front, TypeOK
      <4>3. Begin(s) = Begin(s - 1) + ChunkSize /\ Begin(s - 1) \in Nat
        <5>1. Begin((s - 1) + 1) = Begin(s - 1) + ChunkSize /\ Begin(s - 1) \in Nat
          BY <4>1, Begins
        <5>2. (s - 1) + 1 = s
          BY <1>4
        <5> QED
          BY <5>1, <5>2
      <4>4. pos_to_schedule = Begin(s - 1)
        BY <1>5, <4>2, <4>3
      <4>5. Front' = Begin(s - 1) + size'[next]
        BY <1>1, <3>3, <4>4 DEF Front, Scheduling
      <4>6. size'[next] \in Nat
        BY <1>1, <1>2, <1>5, <1>9, <4>1
      <4>7. CASE s = f + 1
        <5>1. s - 1 = f
          BY <1>4, <4>7
        <5>2. Front' = Begin(f) + n
          BY <1>10, <3>1, <4>1, <4>5, <5>1
        <5>3. bytes_read_' = Front' /\ ~(f + 1 < s)
          BY <1>4, <1>11, <4>7, <5>2
        <5> QED
          BY <1>4, <1>5, <1>11, <2>1, <3>1, <5>2, <5>3 DEF ScheduleInv
      <4>8. CASE f + 1 < s
        <5>1. Begin(f + 1) <= Begin(s - 1)
          <6>1. f + 1 = s - 1 \/ f + 1 < s - 1
            BY <1>4, <4>8
          <6> QED
            BY <1>4, <1>5, <1>11, <4>1, <4>3, <6>1
        <5>2. bytes_read_' < Front' /\ bytes_read_' <= Front'
          BY <1>5, <1>11, <2>3, <4>3, <4>5, <4>6, <5>1
        <5> QED
          BY <1>4, <2>1, <3>1, <5>2 DEF ScheduleInv
      <4> QED
        BY <1>4, <4>7, <4>8
    <3> QED
      BY <3>2, <3>3
  <2> QED
    BY <1>5, <2>2, <2>3
<1>13. DueInv(s, f + 1, a, qn, on)'
  <2>1. ASSUME NEW i \in 1..Len(qn)
        PROVE  /\ qn[i] \in (f + 1)..(s - 1) /\ Numbered(q_as_read_data[i], qn[i], a)
               /\ q_as_read_data[i].pos < file_size
               /\ q_as_read_data[i].pos = Begin(qn[i])
    <3>1. Awaits(q_as_read_data[i], qn[i], s, f, a) /\ qn[i] # f
      BY <1>3 DEF DueInv
    <3> QED
      BY <1>4, <3>1 DEF Awaits
  <2>2. ASSUME NEW i \in 1..Len(qn)
        PROVE  failed' => /\ bytes_read_' <= q_as_read_data[i].pos
                          /\ qn[i] > f + 1 => bytes_read_' < q_as_read_data[i].pos
    <3>1. qn[i] \in Nat /\ (qn[i] = f + 1 \/ f + 1 < qn[i])
      BY <1>4, <2>1
    <3>2. q_as_read_data[i].pos = Begin(qn[i]) /\ Begin(qn[i]) \in Nat
      BY <2>1, <3>1, Begins
    <3>3. Begin(f + 1) <= Begin(qn[i]) /\ Begin(f + 1) \in Nat
      BY <1>4, <1>5, <1>11, <3>1, <3>2, SMTT(20)
    <3>4. failed' => n < ChunkSize
      BY <1>1, <1>2, <1>9
    <3> QED
      BY <1>5, <1>11, <3>2, <3>3, <3>4
  <2>3. ASSUME NEW i \in 1..Len(qn)  PROVE Awaits(q_as_read_data[i], qn[i], s, f + 1, a)'
    BY <1>1, <2>1, <2>2 DEF Awaits, Numbered
  <2>4. \A i, j \in 1..Len(qn) : i # j => qn[i] # qn[j]
    BY DEF DueInv
  <2> QED
    BY <1>1, <1>6, <2>3, <2>4 DEF DueInv
<1>14. MadeInv(f + 1, r, a, on, bn)'
  <2>1. Numbered(op, on, a)
    BY <1>3 DEF Awaits
  <2>2. \A i \in 1..Len(bn) : IsRead(io_[i]) /\ HasData(io_[i]) =>
          /\ bn[i] \in r..f /\ Numbered(io_[i], bn[i], a)
          /\ bn[i] # on
    BY <1>3, <1>4 DEF MadeInv
  <2>3. \A k \in r..f : \/ k = f
                        \/ \E i \in 1..Len(bn) : IsRead(io_[i]) /\ HasData(io_[i]) /\ bn[i] = k
    <3>1. \A k \in r..f : k = f \/ k \in r..(f - 1)
      BY <1>4
    <3> QED
      BY <1>6, <3>1 DEF MadeInv
  <2>4. (f + 1) - 1 = f /\ r < f + 1
    BY <1>4
  <2>5. \A i, j \in 1..Len(bn) :
          IsRead(io_[i]) /\ HasData(io_[i]) /\ IsRead(io_[j]) /\ HasData(io_[j]) /\ i < j
            => bn[i] < bn[j]
    BY DEF MadeInv
  <2> QED
    BY <1>1, <1>3, <1>6, <2>1, <2>2, <2>3, <2>4, <2>5 DEF MadeInv, Numbered
<1>15. StoppedInv(s, f + 1, a, on, bn)'
  BY <1>1 DEF StoppedInv
<1>16. WindowInv(f + 1, r)'
  <2>1. f + 1 + Ready <= r + 2
    BY <1>1, <1>4 DEF WindowInv
  <2>2. (f + 1) - 1 = f
    BY <1>4
  <2>3. ~hot[HalfOf(f)]
    BY <1>1, <1>10 DEF ReadInv
  <2>4. \A k \in (r - Ready)..f : k = f \/ hot[HalfOf(k)] \/ (mpc = "taken" /\ k = r - Ready)
    <3>1. \A k \in (r - Ready)..f : k = f \/ k \in (r - Ready)..(f - 1)
      BY <1>4
    <3> QED
      BY <1>1, <3>1 DEF WindowInv
  <2>5. \A b \in Buffers : hot[b] => \E k \in (r - Ready)..f : HalfOf(k) = b
    <3>1. (r - Ready)..(f - 1) \subseteq (r - Ready)..f
      BY <1>4
    <3> QED
      BY <3>1 DEF WindowInv
  <2>6. mpc = "taken" => ~hot[next]
    BY DEF WindowInv
  <2>7. Ready' = Ready
    BY <1>1 DEF Ready
  <2> QED
    BY <1>1, <2>1, <2>2, <2>3, <2>4, <2>5, <2>6, <2>7 DEF WindowInv
<1> QED
  BY <1>1, <1>7, <1>8, <1>12, <1>13, <1>14, <1>15, <1>16

-----------------------------------------------------------------------------
(* The worker finishes a read; the stream and the file.                    *)

\* A read that follows a short one fails: nothing more is read.
LEMMA ReadBreaks ==
  ASSUME NEW s, NEW f, NEW r, NEW a, NEW qn, NEW on, NEW bn,
         TypeOK, StageTypes, EndInv, Flowing(s, f, r, a, qn, on, bn), WorkerRead, failed
  PROVE  Broken'
<1> USE DEF Flowing
<1>1. /\ wpc = "read" /\ wpc' = "post"
      /\ UNCHANGED <<mpc, pos_to_schedule, next, size, bytes_read_, failed, resized, file_size,
                     q_as_read_data>>
  BY DEF WorkerRead, mainVars, givenVars
<1>2. on = f /\ bytes_read_ = op.pos /\ Awaits(op, on, s, f, a) /\ Waits
  BY <1>1 DEF DueInv, Waits
<1>3. s \in Nat /\ f \in Nat /\ f < s /\ file_size \in Nat /\ bytes_read_ \in Nat
  BY <1>2 DEF NumberInv, Awaits, TypeOK
<1>4. resized
  BY <1>2, <1>3 DEF EndInv, Awaits
<1>5. bytes_read_ < Front
  BY <1>3 DEF ScheduleInv
<1>6. ASSUME NEW i \in 1..Len(q_as_read_data)  PROVE bytes_read_ < q_as_read_data[i].pos
  <2>1. i \in 1..Len(qn)
    BY DEF NumberInv
  <2>2. Awaits(q_as_read_data[i], qn[i], s, f, a) /\ qn[i] # f
    BY <1>2, <2>1 DEF DueInv
  <2> QED
    BY <1>3, <2>2 DEF Awaits
<1> QED
  BY <1>1, <1>4, <1>5, <1>6 DEF Broken, Front, Scheduling

\* A read that is made makes its half hot, or finds that the file has grown.
LEMMA FinishFlows ==
  ASSUME NEW s, NEW f, NEW r, NEW a, NEW qn, NEW on, NEW bn,
         TypeOK, StageTypes, EndInv, Flowing(s, f, r, a, qn, on, bn), WorkerFinish
  PROVE  Broken' \/ Flowing(s, f, r, a, qn, on, bn)'
<1> USE DEF Flowing
<1>1. /\ wpc = "finish" /\ hot' = [hot EXCEPT ![op.buf] = TRUE]
      /\ UNCHANGED <<mpc, within, pos_to_schedule, n_enqueued, swapped, q_handlers, q_buf_ready,
                     next, size, bytes_read_, failed, resized, file_size, stopped,
                     q_as_read_data, io_>>
  BY DEF WorkerFinish, mainVars, givenVars
<1>2. CASE bytes_read_ > file_size
  <2>1. wpc' = "aborted"
    BY <1>2 DEF WorkerFinish
  <2>2. resized
    BY <1>2 DEF EndInv, TypeOK
  <2> QED
    BY <1>1, <2>1, <2>2 DEF Broken
<1>3. CASE ~(bytes_read_ > file_size)
  <2>1. wpc' = "post" /\ op' = [op EXCEPT !.ec = CodeRead]
    BY <1>3 DEF WorkerFinish
  <2>2. op \in Reads /\ op.buf \in Buffers
    BY <1>1, ReadTypes DEF StageTypes, Holding
  <2>3. /\ op'.ec = CodeRead /\ op'.buf = op.buf /\ op'.call = op.call /\ HasData(op')
    BY <2>1, <2>2 DEF Reads, CodeRead, HasData
  <2>4. Made /\ Made' /\ ~Waits /\ ~Waits'
    BY <1>1, <2>1, <2>3 DEF Made, Waits, HasData
  <2>5. NumberInv(s, f, r, a, qn, on, bn)' /\ EnqueuedInv(s, r, a)' /\ DirectInv(s, r, a)'
        /\ ReadyInv(s, r, a)' /\ ScheduleInv(s, f)'
    BY <1>1 DEF NumberInv, EnqueuedInv, DirectInv, ReadyInv, ScheduleInv, Ready, Front,
                Scheduling
  <2>6. DueInv(s, f, a, qn, on)'
    BY <1>1, <2>1, <2>4 DEF DueInv, Awaits
  <2>7. MadeInv(f, r, a, on, bn)'
    BY <1>1, <2>3, <2>4 DEF MadeInv, Numbered
  <2>8. StoppedInv(s, f, a, on, bn)'
    <3>1. \A i \in 1..Len(bn) : IsRead(io_[i]) => HasData(io_[i])
      BY <2>4 DEF StoppedInv
    <3> QED
      BY <1>1, <2>1, <2>3, <3>1 DEF StoppedInv
  <2>9. WindowInv(f, r)'
    <3>1. /\ f \in Nat /\ r \in Nat /\ r < f /\ Ready \in Nat /\ Ready <= r /\ on = f - 1
          /\ f + Ready <= r + 2 /\ Numbered(op, on, a) /\ f - 1 \in Nat
      <4>1. f \in Nat /\ r \in Nat /\ Ready \in Nat /\ Ready <= r
        BY DEF NumberInv, Ready
      <4>2. r < f /\ on = f - 1 /\ Numbered(op, on, a)
        BY <2>4 DEF MadeInv
      <4>3. f + Ready <= r + 2
        BY <1>1, <4>1 DEF WindowInv
      <4> QED
        BY <4>1, <4>2, <4>3
    <3>2. /\ op.buf = HalfOf(f - 1) /\ hot'[op.buf]
          /\ \A b \in Buffers : b # op.buf => hot'[b] = hot[b]
      BY <1>1, <2>2, <3>1 DEF Numbered, TypeOK
    <3>3. \A k \in (r - Ready)..(f - 1) : HalfOf(k) \in Buffers
      <4>1. \A k \in (r - Ready)..(f - 1) : k \in Nat
        BY <3>1
      <4> QED
        BY <4>1, Halves
    <3>4. \A k \in (r - Ready)..(f - 1) : hot'[HalfOf(k)] \/ (mpc = "taken" /\ k = r - Ready)
      BY <1>1, <3>2, <3>3 DEF WindowInv
    <3>5. \A b \in Buffers : hot'[b] => \E k \in (r - Ready)..(f - 1) : HalfOf(k) = b
      <4>1. f - 1 \in (r - Ready)..(f - 1)
        BY <3>1
      <4> QED
        BY <3>2, <4>1 DEF WindowInv
    <3>6. mpc = "taken" => ~hot'[next]
      <4>1. SUFFICES ASSUME mpc = "taken" PROVE ~hot'[next]
        OBVIOUS
      <4>2. Ready > 0 /\ next = q_buf_ready[1] /\ ~hot[next] /\ next \in Buffers
        BY <4>1 DEF ReadyInv, WindowInv, TypeOK
      <4>3. next = HalfOf(r - Ready)
        <5>1. 1 \in 1..Ready
          BY <3>1, <4>2
        <5>2. q_buf_ready[1] = HalfOf(r - Ready + 1 - 1)
          BY <5>1 DEF ReadyInv
        <5>3. r - Ready + 1 - 1 = r - Ready
          BY <3>1
        <5> QED
          BY <4>2, <5>2, <5>3
      <4>4. r - Ready \in Nat /\ f - 1 = (r - Ready) + 1
        BY <3>1, <4>2
      <4>5. next # op.buf
        BY <3>2, <4>3, <4>4, Halves
      <4> QED
        BY <3>2, <4>2, <4>5
    <3>7. Ready' = Ready
      BY <1>1 DEF Ready
    <3> QED
      BY <1>1, <2>1, <3>1, <3>4, <3>5, <3>6, <3>7 DEF WindowInv
  <2> QED
    BY <1>1, <2>1, <2>5, <2>6, <2>7, <2>8, <2>9
<1> QED
  BY <1>2, <1>3

\* The reads that were made are handed on also after the stream is destroyed.
LEMMA StopFlows ==
  ASSUME NEW s, NEW f, NEW r, NEW a, NEW qn, NEW on, NEW bn,
         Flowing(s, f, r, a, qn, on, bn), Stop
  PROVE  Flowing(s, f, r, a, qn, on, bn)'
<1> USE DEF Flowing
<1>1. /\ mpc \in {"idle", "callback"} /\ ~stopped /\ stopped'
      /\ UNCHANGED <<mpc, within, pos_to_schedule, n_enqueued, swapped, q_handlers, q_buf_ready,
                     next, size, hot, bytes_read_, failed, file_size, wpc, op,
                     q_as_read_data, io_>>
  BY DEF Stop, mainVars, halfVars, workerVars, givenVars
<1>2. NumberInv(s, f, r, a, qn, on, bn)' /\ EnqueuedInv(s, r, a)' /\ DirectInv(s, r, a)'
      /\ ReadyInv(s, r, a)' /\ ScheduleInv(s, f)' /\ WindowInv(f, r)'
  BY <1>1 DEF NumberInv, EnqueuedInv, DirectInv, ReadyInv, ScheduleInv, WindowInv, Ready, Front,
              Scheduling
<1>3. DueInv(s, f, a, qn, on)' /\ MadeInv(f, r, a, on, bn)'
  BY <1>1 DEF DueInv, MadeInv, Awaits, Made, Waits
<1>4. StoppedInv(s, f, a, on, bn)'
  BY <1>1 DEF StoppedInv, Made
<1> QED
  BY <1>1, <1>2, <1>3, <1>4

\* The reader does not see that the file changes its size.
LEMMA SameFlows ==
  ASSUME NEW s, NEW f, NEW r, NEW a, NEW qn, NEW on, NEW bn,
         Flowing(s, f, r, a, qn, on, bn),
         UNCHANGED <<mpc, within, pos_to_schedule, n_enqueued, swapped, q_handlers, q_buf_ready,
                     next, size, hot, bytes_read_, failed, file_size, wpc, op, stopped,
                     q_as_read_data, io_>>
  PROVE  Flowing(s, f, r, a, qn, on, bn)'
<1> USE DEF Flowing
<1>1. NumberInv(s, f, r, a, qn, on, bn)' /\ EnqueuedInv(s, r, a)' /\ DirectInv(s, r, a)'
      /\ ReadyInv(s, r, a)' /\ ScheduleInv(s, f)' /\ WindowInv(f, r)'
  BY DEF NumberInv, EnqueuedInv, DirectInv, ReadyInv, ScheduleInv, WindowInv, Ready, Front,
         Scheduling
<1>2. DueInv(s, f, a, qn, on)' /\ MadeInv(f, r, a, on, bn)'
  BY DEF DueInv, MadeInv, Awaits, Made, Waits
<1>3. StoppedInv(s, f, a, on, bn)'
  BY DEF StoppedInv, Made
<1>4. KindInv(s, a)' /\ mpc' # "aborted" /\ wpc' # "aborted"
  OBVIOUS
<1> QED
  BY <1>1, <1>2, <1>3, <1>4

-----------------------------------------------------------------------------
(* next_chunk, without a read.                                             *)

\* Handlers posted with their answer leave the reads as they are.
LEMMA AnswerPosted ==
  ASSUME NEW s, NEW f, NEW r, NEW a, NEW qn, NEW on, NEW bn, NEW x,
         TypeOK, Flowing(s, f, r, a, qn, on, bn), ~IsRead(x), io_' = Append(io_, x),
         ~stopped, UNCHANGED <<wpc, op, stopped>>
  PROVE  /\ Len(Append(bn, 0)) = Len(io_') /\ Append(bn, 0) \in Seq(Nat)
         /\ MadeInv(f, r, a, on, Append(bn, 0))' /\ StoppedInv(s, f, a, on, Append(bn, 0))'
<1> USE DEF Flowing
<1>1. /\ io_ \in Seq(Reads \cup Bound) /\ bn \in Seq(Nat) /\ Len(bn) = Len(io_) /\ 0 \in Nat
  BY DEF NumberInv, TypeOK, Bound
<1> DEFINE m == Len(bn)
<1> DEFINE d == Append(bn, 0)
<1>2. m \in Nat /\ Len(d) = m + 1 /\ d \in Seq(Nat) /\ \A i \in 1..m : d[i] = bn[i]
  BY <1>1, AppendIndices
<1>3. Len(io_') = m + 1 /\ (\A i \in 1..m : io_'[i] = io_[i]) /\ io_'[m + 1] = x
  BY <1>1, AppendIndices
<1>4. \A i \in 1..(m + 1) : IsRead(io_'[i]) => i \in 1..m
  <2>1. \A i \in 1..(m + 1) : i \in 1..m \/ i = m + 1
    BY <1>2
  <2> QED
    BY <1>3, <2>1
<1>5. \A i \in 1..m : i \in 1..(m + 1) /\ d[i] = bn[i] /\ io_'[i] = io_[i]
  BY <1>2, <1>3
<1>6. Made' <=> Made
  BY DEF Made
<1>7. MadeInv(f, r, a, on, d)'
  <2>1. /\ Made => r < f /\ on = f - 1 /\ Numbered(op, on, a)
        /\ \A i \in 1..m : IsRead(io_[i]) /\ HasData(io_[i]) =>
             /\ bn[i] \in r..(f - 1) /\ Numbered(io_[i], bn[i], a)
             /\ Made => bn[i] # on
        /\ \A i, j \in 1..m :
             IsRead(io_[i]) /\ HasData(io_[i]) /\ IsRead(io_[j]) /\ HasData(io_[j]) /\ i < j
               => bn[i] < bn[j]
        /\ \A k \in r..(f - 1) :
             \/ \E i \in 1..m : IsRead(io_[i]) /\ HasData(io_[i]) /\ bn[i] = k
             \/ Made /\ on = k
    BY DEF MadeInv
  <2> HIDE DEF m, d
  <2>2. ASSUME NEW i \in 1..(m + 1), IsRead(io_'[i]) /\ HasData(io_'[i])
        PROVE  d[i] \in r..(f - 1) /\ Numbered(io_'[i], d[i], a) /\ (Made => d[i] # on)
    BY <1>4, <1>5, <2>1, <2>2
  <2>3. ASSUME NEW i \in 1..(m + 1), NEW j \in 1..(m + 1), i < j,
               IsRead(io_'[i]) /\ HasData(io_'[i]) /\ IsRead(io_'[j]) /\ HasData(io_'[j])
        PROVE  d[i] < d[j]
    BY <1>4, <1>5, <2>1, <2>3
  <2>4. ASSUME NEW k \in r..(f - 1)
        PROVE  \/ \E i \in 1..(m + 1) : IsRead(io_'[i]) /\ HasData(io_'[i]) /\ d[i] = k
               \/ Made /\ on = k
    BY <1>5, <2>1
  <2> QED
    BY <1>2, <1>6, <2>1, <2>2, <2>3, <2>4 DEF MadeInv, HasData, IsRead, Numbered
<1>8. StoppedInv(s, f, a, on, d)'
  <2>1. /\ \A i \in 1..m : IsRead(io_[i]) => HasData(io_[i])
        /\ wpc = "post" => HasData(op)
    BY DEF StoppedInv
  <2> HIDE DEF m, d
  <2>2. \A i \in 1..(m + 1) : IsRead(io_'[i]) => HasData(io_'[i])
    BY <1>4, <1>5, <2>1
  <2> QED
    BY <1>2, <2>1, <2>2 DEF StoppedInv, HasData, IsRead, Numbered
<1> QED
  BY <1>2, <1>3, <1>7, <1>8

\* A call that waits for a prefetch leaves the reads as they are.
LEMMA QueueHandlerFlows ==
  ASSUME NEW s, NEW f, NEW r, NEW a, NEW qn, NEW on, NEW bn,
         TypeOK, Flowing(s, f, r, a, qn, on, bn), QueueHandler
  PROVE  Flowing(s, f, r, a, qn, on, bn)'
<1> USE DEF Flowing
<1>1. /\ mpc \in {"idle", "callback"} /\ mpc' = "prefetch" /\ ~stopped /\ q_buf_ready = <<>>
      /\ q_handlers' = Append(q_handlers, calls + 1)
      /\ UNCHANGED <<pos_to_schedule, n_enqueued, swapped, q_buf_ready, next, within, size, hot,
                     bytes_read_, failed, wpc, op, file_size, stopped, q_as_read_data, io_>>
  BY DEF QueueHandler, MayCall, halfVars, workerVars, givenVars
<1>2. Ready = 0 /\ Ready' = 0
  BY <1>1 DEF Ready
<1>3. Len(q_handlers') = Len(q_handlers) + 1 /\ Len(q_handlers) \in Nat
  BY <1>1, AppendIndices DEF TypeOK
<1>4. NumberInv(s, f, r, a, qn, on, bn)' /\ EnqueuedInv(s, r, a)' /\ ScheduleInv(s, f)'
      /\ WindowInv(f, r)'
  BY <1>1 DEF NumberInv, EnqueuedInv, ScheduleInv, WindowInv, Ready, Front, Scheduling
<1>5. ReadyInv(s, r, a)'
  BY <1>1, <1>2 DEF ReadyInv
<1>6. DirectInv(s, r, a)'
  <2>1. s \in Nat /\ r \in Nat /\ a \in [Nat -> Nat]
    BY DEF NumberInv
  <2>2. \A k \in r..(s - 1) : a[k] \in Nat /\ a[r] \in Nat
    BY <2>1
  <2> QED
    BY <1>3, <2>2 DEF DirectInv
<1>7. DueInv(s, f, a, qn, on)' /\ MadeInv(f, r, a, on, bn)'
  BY <1>1 DEF DueInv, MadeInv, Awaits, Made, Waits
<1>8. StoppedInv(s, f, a, on, bn)'
  BY <1>1 DEF StoppedInv, Made
<1> QED
  BY <1>1, <1>4, <1>5, <1>6, <1>7, <1>8

\* So does the one that is answered at once.
LEMMA EndOfFileFlows ==
  ASSUME NEW s, NEW f, NEW r, NEW a, NEW qn, NEW on, NEW bn,
         TypeOK, Flowing(s, f, r, a, qn, on, bn), EndOfFile
  PROVE  Flowing(s, f, r, a, qn, on, Append(bn, 0))'
<1> USE DEF Flowing
<1> DEFINE x == [call |-> calls + 1, answer |-> Answer(0, 0, "end_of_file")]
<1>1. /\ ~stopped /\ io_' = Append(io_, x)
      /\ UNCHANGED <<mpc, pos_to_schedule, n_enqueued, swapped, q_handlers, q_buf_ready, next,
                     within, size, hot, bytes_read_, failed, wpc, op, file_size, stopped,
                     q_as_read_data>>
  BY DEF EndOfFile, MayCall, halfVars, workerVars, givenVars
<1>2. ~IsRead(x)
  BY DEF IsRead
<1> HIDE DEF x
<1>3. /\ Len(Append(bn, 0)) = Len(io_') /\ Append(bn, 0) \in Seq(Nat)
      /\ MadeInv(f, r, a, on, Append(bn, 0))' /\ StoppedInv(s, f, a, on, Append(bn, 0))'
  BY <1>1, <1>2, AnswerPosted
<1>4. NumberInv(s, f, r, a, qn, on, Append(bn, 0))'
  BY <1>1, <1>3 DEF NumberInv, Ready
<1>5. /\ EnqueuedInv(s, r, a)' /\ ScheduleInv(s, f)' /\ WindowInv(f, r)' /\ DirectInv(s, r, a)'
      /\ ReadyInv(s, r, a)'
  BY <1>1 DEF EnqueuedInv, ScheduleInv, WindowInv, Ready, Front, Scheduling, DirectInv, ReadyInv
<1>6. DueInv(s, f, a, qn, on)'
  BY <1>1 DEF DueInv, Awaits, Waits
<1> QED
  BY <1>1, <1>3, <1>4, <1>5, <1>6

\* next_chunk takes the first of the halves that are ready, which is hot.
LEMMA TakeReadyFlows ==
  ASSUME NEW s, NEW f, NEW r, NEW a, NEW qn, NEW on, NEW bn,
         TypeOK, Flowing(s, f, r, a, qn, on, bn), TakeReady
  PROVE  Flowing(s, f, r, a, qn, on, bn)'
<1> USE DEF Flowing
<1> DEFINE b == Head(q_buf_ready)
<1>1. /\ mpc \in {"idle", "callback"} /\ ~stopped /\ q_buf_ready # <<>>
      /\ UNCHANGED <<pos_to_schedule, n_enqueued, swapped, q_handlers, q_buf_ready, within, size,
                     bytes_read_, failed, wpc, op, file_size, stopped, q_as_read_data, io_>>
  BY DEF TakeReady, MayCall, workerVars, givenVars
<1>2. /\ Ready \in Nat /\ 1 \in 1..Ready /\ b = q_buf_ready[1] /\ b \in Buffers
  BY <1>1, TailIndices DEF TypeOK, Ready
<1>3. f \in Nat /\ r \in Nat /\ Ready <= r /\ r <= f /\ f + Ready <= r + 2
      /\ (wpc = "finish" => r < f)
  <2>1. f \in Nat /\ r \in Nat /\ Ready <= r /\ r <= f
    BY DEF NumberInv
  <2>2. f + Ready <= r + 2
    BY <1>2, <2>1 DEF WindowInv
  <2>3. wpc = "finish" => r < f
    BY DEF MadeInv, Made
  <2> QED
    BY <2>1, <2>2, <2>3
<1>4. b = HalfOf(r - Ready)
  <2>1. b = HalfOf(r - Ready + 1 - 1)
    BY <1>2 DEF ReadyInv
  <2>2. r - Ready + 1 - 1 = r - Ready
    BY <1>2, <1>3
  <2> QED
    BY <2>1, <2>2
<1>5. /\ r - Ready \in (r - Ready)..(f - 1) /\ r - Ready \in Nat
      /\ wpc = "finish" => r - Ready # f - 1
  BY <1>2, <1>3
<1>6. hot[b]
  BY <1>1, <1>4, <1>5 DEF WindowInv
<1>7. mpc' = "taken" /\ hot' = [hot EXCEPT ![b] = FALSE] /\ next' = b
  BY <1>6 DEF TakeReady
<1>8. ~hot'[b] /\ \A c \in Buffers : c # b => hot'[c] = hot[c]
  BY <1>2, <1>7 DEF TypeOK
<1> HIDE DEF b
<1>9. NumberInv(s, f, r, a, qn, on, bn)' /\ EnqueuedInv(s, r, a)' /\ ScheduleInv(s, f)'
      /\ DirectInv(s, r, a)'
  BY <1>1, <1>7 DEF NumberInv, EnqueuedInv, ScheduleInv, DirectInv, Ready, Front, Scheduling
<1>10. ReadyInv(s, r, a)'
  BY <1>1, <1>2, <1>7 DEF ReadyInv, Ready
<1>11. DueInv(s, f, a, qn, on)' /\ MadeInv(f, r, a, on, bn)'
  BY <1>1 DEF DueInv, MadeInv, Awaits, Made, Waits
<1>12. StoppedInv(s, f, a, on, bn)'
  BY <1>1 DEF StoppedInv, Made
<1>13. WindowInv(f, r)'
  <2>1. \A k \in (r - Ready)..(f - 1) : k \in Nat /\ HalfOf(k) \in Buffers
    BY <1>2, <1>3, Halves
  <2>2. \A k \in (r - Ready)..(f - 1) : k # r - Ready => HalfOf(k) # b
    <3>1. \A k \in (r - Ready)..(f - 1) : k # r - Ready => k = (r - Ready) + 1
      BY <1>2, <1>3
    <3> QED
      BY <1>4, <1>5, <3>1, Halves
  <2>3. \A k \in (r - Ready)..(f - 1) :
          hot'[HalfOf(k)] \/ (wpc = "finish" /\ k = f - 1) \/ k = r - Ready
    BY <1>1, <1>8, <2>1, <2>2 DEF WindowInv
  <2>4. \A c \in Buffers : hot'[c] => hot[c]
    BY <1>8
  <2>5. wpc = "finish" => ~hot'[HalfOf(f - 1)]
    <3>1. wpc = "finish" => f - 1 \in (r - Ready)..(f - 1)
      BY <1>2, <1>3
    <3> QED
      BY <2>1, <2>4, <3>1 DEF WindowInv
  <2>6. Ready' = Ready
    BY <1>1 DEF Ready
  <2> QED
    BY <1>1, <1>7, <1>8, <2>3, <2>4, <2>5, <2>6 DEF WindowInv
<1> QED
  BY <1>1, <1>7, <1>9, <1>10, <1>11, <1>12, <1>13

\* ... and posts its handler.
LEMMA PostReadyFlows ==
  ASSUME NEW s, NEW f, NEW r, NEW a, NEW qn, NEW on, NEW bn,
         TypeOK, Flowing(s, f, r, a, qn, on, bn), PostReady
  PROVE  Flowing(s, f, r, a, qn, on, Append(bn, 0))'
<1> USE DEF Flowing
<1> DEFINE x == [call |-> calls, answer |-> [copy EXCEPT !.ec = bec[next]]]
<1>1. /\ mpc = "taken" /\ mpc' = "prefetch" /\ io_' = Append(io_, x)
      /\ q_buf_ready' = Tail(q_buf_ready)
      /\ UNCHANGED <<pos_to_schedule, n_enqueued, swapped, q_handlers, next, within, size, hot,
                     bytes_read_, failed, wpc, op, file_size, stopped, q_as_read_data>>
  BY DEF PostReady, halfVars, workerVars, givenVars
<1>2. ~IsRead(x)
  BY DEF IsRead
<1> HIDE DEF x
<1>3. Ready > 0 /\ next = q_buf_ready[1] /\ ~hot[next]
  BY <1>1 DEF ReadyInv, WindowInv
<1>4. /\ Ready \in Nat /\ Ready' = Ready - 1 /\ 1 \in 1..Ready
      /\ \A i \in 1..Ready' : i + 1 \in 1..Ready /\ q_buf_ready'[i] = q_buf_ready[i + 1]
  <2>1. q_buf_ready \in Seq(Buffers) /\ q_buf_ready # <<>>
    BY <1>3 DEF TypeOK, Ready
  <2> QED
    BY <1>1, <2>1, TailIndices DEF Ready
<1>5. ~stopped
  BY <1>1 DEF StoppedInv
<1>6. /\ Len(Append(bn, 0)) = Len(io_') /\ Append(bn, 0) \in Seq(Nat)
      /\ MadeInv(f, r, a, on, Append(bn, 0))' /\ StoppedInv(s, f, a, on, Append(bn, 0))'
  BY <1>1, <1>2, <1>5, AnswerPosted
<1>7. f \in Nat /\ r \in Nat /\ Ready <= r /\ r <= f /\ s \in Nat
      /\ a[s] \in Nat /\ a[r] \in Nat /\ n_enqueued \in 0..2
  BY DEF NumberInv, TypeOK
<1>8. NumberInv(s, f, r, a, qn, on, Append(bn, 0))'
  <2>1. Ready' <= r
    BY <1>4, <1>7
  <2> QED
    BY <1>1, <1>6, <2>1 DEF NumberInv
<1>9. ScheduleInv(s, f)' /\ DirectInv(s, r, a)' /\ DueInv(s, f, a, qn, on)'
  BY <1>1 DEF ScheduleInv, DirectInv, Front, Scheduling, DueInv, Awaits, Waits
<1>10. EnqueuedInv(s, r, a)'
  <2>1. a[s] + Ready + (IF within = "prefetch" THEN 1 ELSE 0)
          <= a[r] + n_enqueued + (IF mpc = "prefetched" THEN 1 ELSE 0)
    BY DEF EnqueuedInv
  <2>2. PICK l, m, w, n, d : /\ l = a[s] /\ m = a[r] /\ n = n_enqueued /\ d = Ready
                             /\ w = IF within = "prefetch" THEN 1 ELSE 0
    OBVIOUS
  <2>3. l \in Nat /\ m \in Nat /\ n \in Nat /\ w \in Nat /\ d \in Nat
    BY <1>4, <1>7, <2>2
  <2>4. l + d + w <= m + n + 0
    BY <1>1, <2>1, <2>2
  <2>5. l + (d - 1) + w <= m + n + 0
    BY <2>3, <2>4
  <2>6. a[s] + Ready' + w <= a[r] + n_enqueued + 0
    BY <1>4, <2>2, <2>5
  <2> QED
    BY <1>1, <2>2, <2>6 DEF EnqueuedInv
<1>11. \A i \in 1..Ready : q_buf_ready[i] = HalfOf(r - Ready + i - 1)
  BY DEF ReadyInv
<1>12. ReadyInv(s, r, a)'
  <2>1. ASSUME NEW i \in 1..Ready'  PROVE q_buf_ready'[i] = HalfOf(r - Ready' + i - 1)
    <3>1. q_buf_ready'[i] = HalfOf(r - Ready + (i + 1) - 1)
      BY <1>4, <1>11
    <3>2. r - Ready + (i + 1) - 1 = r - Ready' + i - 1
      BY <1>4, <1>7
    <3> QED
      BY <3>1, <3>2
  <2>2. q_handlers = <<>> /\ \A k \in r..(s - 1) : a[k + 1] = a[k] + 1
    BY <1>3 DEF ReadyInv
  <2> QED
    BY <1>1, <2>1, <2>2 DEF ReadyInv
<1>13. WindowInv(f, r)'
  <2>1. r - Ready' = (r - Ready) + 1 /\ r - Ready \in Nat
    BY <1>4, <1>7
  <2>2. next = HalfOf(r - Ready)
    <3>1. q_buf_ready[1] = HalfOf(r - Ready + 1 - 1) /\ r - Ready + 1 - 1 = r - Ready
      BY <1>4, <1>7, <1>11
    <3> QED
      BY <1>3, <3>1
  <2>3. \A k \in (r - Ready')..(f - 1) : k \in (r - Ready)..(f - 1) /\ k # r - Ready
    BY <1>4, <1>7
  <2>4. \A k \in (r - Ready)..(f - 1) : k = r - Ready \/ k \in (r - Ready')..(f - 1)
    BY <1>4, <1>7
  <2>5. \A k \in (r - Ready')..(f - 1) : hot[HalfOf(k)] \/ (wpc = "finish" /\ k = f - 1)
    BY <2>3 DEF WindowInv
  <2>6. \A c \in Buffers : hot[c] => \E k \in (r - Ready')..(f - 1) : HalfOf(k) = c
    BY <1>3, <2>2, <2>4 DEF WindowInv
  <2>7. f + Ready' <= r + IF wpc = "read" THEN 1 ELSE 2
    BY <1>4, <1>7 DEF WindowInv
  <2>8. wpc = "finish" => ~hot[HalfOf(f - 1)]
    BY DEF WindowInv
  <2> QED
    BY <1>1, <2>5, <2>6, <2>7, <2>8 DEF WindowInv
<1> QED
  BY <1>1, <1>6, <1>8, <1>9, <1>10, <1>12, <1>13

-----------------------------------------------------------------------------
(* next_chunk schedules a read.                                            *)

\* The count of the prefetches, when one more read is scheduled for the call h, or for none.
Counted(a, s, h) == [a EXCEPT ![s + 1] = IF h = None THEN a[s] + 1 ELSE a[s]]

\* a, with the read s.
LEMMA CountedMore ==
  ASSUME NEW a \in [Nat -> Nat], NEW s \in Nat, NEW h
  PROVE  /\ Counted(a, s, h) \in [Nat -> Nat]
         /\ \A k \in 0..s : Counted(a, s, h)[k] = a[k]
         /\ Counted(a, s, h)[s + 1] = IF h = None THEN a[s] + 1 ELSE a[s]
<1>1. /\ s + 1 \in Nat /\ (IF h = None THEN a[s] + 1 ELSE a[s]) \in Nat
      /\ \A k \in 0..s : k \in Nat /\ k # s + 1
  OBVIOUS
<1> QED
  BY <1>1 DEF Counted

\* Scheduling a read gives it the next number.
LEMMA ScheduleFlows ==
  ASSUME NEW s, NEW f, NEW r, NEW a, NEW qn, NEW on, NEW bn, NEW h,
         TypeOK, Flowing(s, f, r, a, qn, on, bn), Schedule(h), pos_to_schedule < file_size,
         ~Scheduling, Scheduling', ~stopped, mpc # "taken",
         UNCHANGED <<pos_to_schedule, q_handlers, q_buf_ready, size, hot, bytes_read_, failed,
                     wpc, op, file_size, stopped, io_>>
  PROVE  /\ NumberInv(s + 1, f, r, Counted(a, s, h), Append(qn, s), on, bn)'
         /\ KindInv(s + 1, Counted(a, s, h))'
         /\ ScheduleInv(s + 1, f)'
         /\ DueInv(s + 1, f, Counted(a, s, h), Append(qn, s), on)'
         /\ MadeInv(f, r, Counted(a, s, h), on, bn)'
         /\ StoppedInv(s + 1, f, Counted(a, s, h), on, bn)'
         /\ WindowInv(f, r)'
<1> USE DEF Flowing
<1> DEFINE x == [call |-> h, buf |-> swapped, pos |-> pos_to_schedule, ec |-> None]
<1> DEFINE c == Counted(a, s, h)
<1> DEFINE d == Append(qn, s)
<1>1. /\ q_as_read_data' = Append(q_as_read_data, x) /\ next' = swapped /\ swapped' = 1 - swapped
      /\ x.call = h /\ x.buf = swapped /\ x.pos = pos_to_schedule
  BY DEF Schedule
<1> HIDE DEF x
<1>2. /\ s \in Nat /\ f \in Nat /\ r \in Nat /\ f <= s /\ r <= f /\ s + 1 \in Nat
      /\ a \in [Nat -> Nat] /\ qn \in Seq(Nat) /\ Len(qn) = Len(q_as_read_data)
      /\ (s + 1) - 1 = s /\ f <= s + 1
  <2>1. /\ s \in Nat /\ f \in Nat /\ r \in Nat /\ f <= s /\ r <= f
    BY DEF NumberInv
  <2>2. a \in [Nat -> Nat] /\ qn \in Seq(Nat) /\ Len(qn) = Len(q_as_read_data)
    BY DEF NumberInv
  <2>3. s + 1 \in Nat /\ (s + 1) - 1 = s /\ f <= s + 1
    BY <2>1
  <2> QED
    BY <2>1, <2>2, <2>3
<1>3. c \in [Nat -> Nat] /\ (\A k \in 0..s : c[k] = a[k])
      /\ c[s + 1] = IF h = None THEN a[s] + 1 ELSE a[s]
  <2>1. a \in [Nat -> Nat] /\ s \in Nat
    BY <1>2
  <2>2. /\ Counted(a, s, h) \in [Nat -> Nat]
        /\ \A k \in 0..s : Counted(a, s, h)[k] = a[k]
        /\ Counted(a, s, h)[s + 1] = IF h = None THEN a[s] + 1 ELSE a[s]
    BY <2>1, CountedMore
  <2> QED
    BY <2>2
<1> HIDE DEF c
<1>4. /\ Len(qn) \in Nat /\ Len(d) = Len(qn) + 1 /\ d \in Seq(Nat)
      /\ \A i \in 1..Len(qn) : d[i] = qn[i]
      /\ d[Len(qn) + 1] = s
  <2>1. qn \in Seq(Nat) /\ s \in Nat
    BY <1>2
  <2> QED
    BY <2>1, AppendIndices
<1>5. /\ Len(q_as_read_data') = Len(qn) + 1
      /\ \A i \in 1..Len(qn) : q_as_read_data'[i] = q_as_read_data[i]
      /\ q_as_read_data'[Len(qn) + 1] = x
  BY <1>1, <1>2, AppendIndices DEF TypeOK
<1> HIDE DEF d
<1>6. NumberInv(s + 1, f, r, c, d, on, bn)'
  <2>1. Ready' = Ready
    BY DEF Ready
  <2> QED
    BY <1>2, <1>3, <1>4, <1>5, <2>1 DEF NumberInv
<1>7. KindInv(s + 1, c)'
  <2>1. ASSUME NEW k \in 0..s  PROVE c[k + 1] \in {c[k], c[k] + 1}
    <3>1. CASE k = s
      BY <1>3, <3>1
    <3>2. CASE k # s
      <4>1. k \in 0..(s - 1) /\ k + 1 \in 0..s
        BY <1>2, <3>2
      <4> QED
        BY <1>3, <4>1 DEF KindInv
    <3> QED
      BY <3>1, <3>2
  <2>2. ASSUME NEW k \in 0..(s + 1), NEW l \in 0..(s + 1), k <= l  PROVE c[k] <= c[l]
    <3>1. CASE l \in 0..s
      <4>1. k \in 0..s
        BY <1>2, <2>2, <3>1
      <4> QED
        BY <1>3, <2>2, <3>1, <4>1 DEF KindInv
    <3>2. CASE l = s + 1 /\ k = s + 1
      BY <1>2, <1>3, <3>2, SMTT(20)
    <3>3. CASE l = s + 1 /\ k \in 0..s
      <4>1. a[k] <= a[s] /\ a[k] \in Nat /\ a[s] \in Nat
        <5>1. k \in Nat /\ s \in 0..s /\ k <= s /\ k \in 0..s
          BY <1>2, <3>3
        <5>2. a[k] <= a[s]
          BY <5>1 DEF KindInv
        <5>3. a[k] \in Nat /\ a[s] \in Nat
          BY <1>2, <5>1
        <5> QED
          BY <5>2, <5>3
      <4>2. c[k] = a[k] /\ (c[l] = a[s] \/ c[l] = a[s] + 1)
        BY <1>3, <3>3
      <4> QED
        BY <4>1, <4>2
    <3> QED
      BY <1>2, <3>1, <3>2, <3>3
  <2> QED
    BY <1>2, <2>1, <2>2 DEF KindInv
<1>8. /\ swapped = HalfOf(s) /\ Front = pos_to_schedule
  BY DEF ScheduleInv, Front, TypeOK
<1>9. Front' = pos_to_schedule + size[swapped]
  BY <1>1 DEF Front, Scheduling
<1>10. ScheduleInv(s + 1, f)'
  <2>1. swapped' = HalfOf(s + 1) /\ next' = HalfOf((s + 1) - 1) /\ s + 1 > 0
    BY <1>1, <1>2, <1>8, Halves
  <2>2. /\ size[swapped] \in Nat /\ pos_to_schedule \in Nat /\ bytes_read_ \in Nat
        /\ swapped \in Buffers /\ ChunkSize \in Nat \ {0}
    BY ChunkedReaderAssumption DEF TypeOK
  <2>3. CASE ~failed
    <3>1. size = [b \in Buffers |-> ChunkSize] /\ bytes_read_ = Begin(f) /\ Front = Begin(s)
      BY <2>3 DEF ScheduleInv
    <3>2. Front' = Begin(s) + ChunkSize
      BY <1>8, <1>9, <2>2, <3>1
    <3>3. Front' = Begin(s + 1)
      BY <1>2, <3>2, Begins
    <3> QED
      BY <2>1, <2>3, <3>1, <3>3 DEF ScheduleInv
  <2>4. CASE failed
    <3>1. /\ f > 0 /\ size[HalfOf(f)] = ChunkSize
          /\ bytes_read_ <= Front /\ (f < s => bytes_read_ < Front)
      BY <2>4 DEF ScheduleInv
    <3>2. bytes_read_ < Front'
      <4>1. CASE f < s
        BY <1>8, <1>9, <2>2, <3>1, <4>1
      <4>2. CASE f = s
        <5>1. size[swapped] = ChunkSize
          BY <1>8, <3>1, <4>2
        <5> QED
          BY <1>8, <1>9, <2>2, <3>1, <5>1
      <4> QED
        BY <1>2, <4>1, <4>2
    <3>3. bytes_read_ <= Front'
      BY <1>8, <1>9, <2>2, <3>1
    <3> QED
      BY <2>1, <2>4, <3>1, <3>2, <3>3 DEF ScheduleInv
  <2> QED
    BY <2>3, <2>4
<1>11. \A y, k : k \in 0..(s - 1) /\ Numbered(y, k, a) => Numbered(y, k, c)
  <2>1. \A k \in 0..(s - 1) : k \in 0..s /\ k + 1 \in 0..s
    BY <1>2
  <2> QED
    BY <1>3, <2>1 DEF Numbered
<1>12. DueInv(s + 1, f, c, d, on)'
  <2>1. \A y, k : Awaits(y, k, s, f, a) => Awaits(y, k, s + 1, f, c)
    <3>1. \A k : k \in f..(s - 1) => k \in 0..(s - 1) /\ k \in f..((s + 1) - 1)
      <4>1. s \in Nat /\ f \in Nat
        BY <1>2
      <4> QED
        BY <4>1
    <3> QED
      BY <1>11, <3>1 DEF Awaits
  <2>2. Awaits(x, s, s + 1, f, c)
    <3>1. s \in f..((s + 1) - 1) /\ s \in 0..s
      BY <1>2
    <3>2. Numbered(x, s, c)
      BY <1>1, <1>3, <1>8, <3>1 DEF Numbered
    <3>3. ~failed => x.pos = Begin(s)
      BY <1>1, <1>8 DEF ScheduleInv
    <3>4. failed => bytes_read_ <= x.pos /\ (s > f => bytes_read_ < x.pos)
      BY <1>1, <1>2, <1>8 DEF ScheduleInv
    <3> QED
      BY <1>1, <3>1, <3>2, <3>3, <3>4 DEF Awaits
  <2>3. \A i \in 1..(Len(qn) + 1) : i \in 1..Len(qn) \/ i = Len(qn) + 1
    BY <1>4
  <2>4. /\ \A i \in 1..Len(qn) : Awaits(q_as_read_data[i], qn[i], s, f, a)
        /\ \A i, j \in 1..Len(qn) : i # j => qn[i] # qn[j]
        /\ Waits => Awaits(op, on, s, f, a) /\ \A i \in 1..Len(qn) : qn[i] # on
        /\ wpc = "read" => on = f /\ bytes_read_ = op.pos
    BY DEF DueInv
  <2>5. \A i \in 1..(Len(qn) + 1) : Awaits(q_as_read_data'[i], d[i], s + 1, f, c)
    BY <1>4, <1>5, <2>1, <2>2, <2>3, <2>4
  <2>6. \A i \in 1..Len(qn) : qn[i] # s
    <3>1. \A i \in 1..Len(qn) : qn[i] \in f..(s - 1)
      BY <2>4 DEF Awaits
    <3>2. s \notin f..(s - 1)
      BY <1>2
    <3> QED
      BY <3>1, <3>2
  <2>7. ASSUME NEW i \in 1..(Len(qn) + 1), NEW j \in 1..(Len(qn) + 1), i # j
        PROVE  d[i] # d[j]
    BY <1>4, <2>3, <2>4, <2>6, <2>7
  <2>8. Waits => Awaits(op, on, s + 1, f, c) /\ \A i \in 1..(Len(qn) + 1) : d[i] # on
    <3>1. Waits => on # s
      BY <1>2, <2>4 DEF Awaits
    <3> QED
      BY <1>4, <2>1, <2>3, <2>4, <3>1
  <2> QED
    BY <1>4, <2>4, <2>5, <2>7, <2>8 DEF DueInv, Awaits, Waits
<1>13. r..(f - 1) \subseteq 0..(s - 1) /\ (Made => f - 1 \in 0..(s - 1))
  <2>1. Made => r < f
    BY DEF MadeInv
  <2>2. s \in Nat /\ f \in Nat /\ r \in Nat /\ r <= f /\ f <= s
    BY <1>2
  <2>3. r..(f - 1) \subseteq 0..(s - 1)
    BY <2>2
  <2>4. r < f => f - 1 \in 0..(s - 1)
    BY <2>2
  <2> QED
    BY <2>1, <2>3, <2>4
<1>14. MadeInv(f, r, c, on, bn)'
  <2>1. Made => r < f /\ on = f - 1 /\ Numbered(op, on, c)
    BY <1>11, <1>13 DEF MadeInv
  <2>2. \A i \in 1..Len(bn) : IsRead(io_[i]) /\ HasData(io_[i]) =>
          /\ bn[i] \in r..(f - 1) /\ Numbered(io_[i], bn[i], c)
          /\ Made => bn[i] # on
    BY <1>11, <1>13 DEF MadeInv
  <2> QED
    BY <2>1, <2>2 DEF MadeInv, Made
<1>15. StoppedInv(s + 1, f, c, on, bn)'
  BY DEF StoppedInv
<1>16. mpc' # "taken"
  BY DEF Scheduling
<1>17. WindowInv(f, r)'
  BY <1>16 DEF WindowInv, Ready
<1> QED
  BY <1>6, <1>7, <1>10, <1>12, <1>14, <1>15, <1>17 DEF c, d

\* A direct read is scheduled when a call waits for every prefetch.
LEMMA ReadDirectFlows ==
  ASSUME NEW s, NEW f, NEW r, NEW a, NEW qn, NEW on, NEW bn,
         TypeOK, Flowing(s, f, r, a, qn, on, bn), ReadDirect
  PROVE  \E c : /\ c = Counted(a, s, calls + 1)
                /\ Flowing(s + 1, f, r, c, Append(qn, s), on, bn)'
<1> PICK h : h = calls + 1
  OBVIOUS
<1>1. /\ mpc \in {"idle", "callback"} /\ mpc' = "scheduled" /\ ~stopped /\ q_buf_ready = <<>>
      /\ n_enqueued <= Len(q_handlers) /\ pos_to_schedule < file_size /\ Schedule(h)
      /\ UNCHANGED <<pos_to_schedule, n_enqueued, q_handlers, q_buf_ready, within, size, hot,
                     bytes_read_, failed, wpc, op, file_size, stopped, io_>>
  BY DEF ReadDirect, MayCall, halfVars, workerVars, givenVars
<1>2. h # None /\ ~Scheduling /\ Scheduling' /\ mpc # "taken" /\ Ready = 0 /\ Ready' = 0
  <2>1. calls + 1 \in Nat
    BY ChunkedReaderAssumption DEF TypeOK
  <2>2. h # None
    BY <2>1, ChunkedReaderAssumption
  <2> QED
    BY <1>1, <2>2 DEF Scheduling, Ready
<1> DEFINE c == Counted(a, s, h)
<1>3. /\ NumberInv(s + 1, f, r, c, Append(qn, s), on, bn)'
      /\ KindInv(s + 1, c)'
      /\ ScheduleInv(s + 1, f)'
      /\ DueInv(s + 1, f, c, Append(qn, s), on)'
      /\ MadeInv(f, r, c, on, bn)'
      /\ StoppedInv(s + 1, f, c, on, bn)'
      /\ WindowInv(f, r)'
  BY <1>1, <1>2, ScheduleFlows
<1> USE DEF Flowing
<1>4. s \in Nat /\ r \in 0..s /\ a \in [Nat -> Nat] /\ r \in Nat
  <2>1. s \in Nat /\ r \in Nat /\ f \in Nat /\ r <= f /\ f <= s /\ a \in [Nat -> Nat]
    BY DEF NumberInv
  <2> QED
    BY <2>1
<1>5. c \in [Nat -> Nat] /\ (\A k \in 0..s : c[k] = a[k]) /\ c[s + 1] = a[s] /\ s \in 0..s
  BY <1>2, <1>4, CountedMore
<1> HIDE DEF c
<1>6. a[s] <= a[r] + n_enqueued /\ a[s] \in Nat /\ a[r] \in Nat /\ n_enqueued \in Nat
      /\ EnqueuedInv(s, r, a) /\ Len(q_handlers) \in Nat
  <2>1. a[s] \in Nat /\ a[r] \in Nat
    BY <1>4
  <2>2. n_enqueued \in Nat /\ Len(q_handlers) \in Nat
    BY DEF TypeOK
  <2> QED
    BY <1>1, <1>2, <2>1, <2>2 DEF EnqueuedInv
<1>7. EnqueuedInv(s + 1, r, c)'
  <2>1. c[s + 1] = a[s] /\ c[r] = a[r]
    BY <1>4, <1>5
  <2>2. a[s] + Ready + (IF within = "prefetch" THEN 1 ELSE 0) <= a[r] + n_enqueued
    BY <1>1, <1>6 DEF EnqueuedInv
  <2> QED
    BY <1>1, <1>2, <1>6, <2>1, <2>2 DEF EnqueuedInv
<1>8. DirectInv(s + 1, r, c)'
  <2>1. ASSUME NEW k \in r..((s + 1) - 1), c[k + 1] = c[k]
        PROVE  c[k] <= c[r] + Len(q_handlers)
    <3>1. CASE k = s
      BY <1>1, <1>4, <1>5, <1>6, <3>1, SMTT(20)
    <3>2. CASE k # s
      <4>1. k \in r..(s - 1) /\ k \in 0..s /\ k + 1 \in 0..s
        BY <1>4, <3>2
      <4>2. a[k + 1] = a[k] /\ c[k] = a[k] /\ c[r] = a[r]
        BY <1>4, <1>5, <2>1, <4>1
      <4> QED
        BY <4>1, <4>2 DEF DirectInv
    <3> QED
      BY <3>1, <3>2
  <2>2. \A k \in r..((s + 1) - 1) : c[k + 1] = c[k] => c[k] <= c[r] + Len(q_handlers')
    BY <1>1, <2>1
  <2> QED
    BY <2>2 DEF DirectInv
<1>9. ReadyInv(s + 1, r, c)'
  BY <1>1, <1>2 DEF ReadyInv
<1>10. Flowing(s + 1, f, r, c, Append(qn, s), on, bn)'
  BY <1>1, <1>3, <1>7, <1>8, <1>9
<1>11. c = Counted(a, s, calls + 1)
  BY DEF c
<1> QED
  BY <1>10, <1>11

\* A prefetch follows.
LEMMA PrefetchFlows ==
  ASSUME NEW s, NEW f, NEW r, NEW a, NEW qn, NEW on, NEW bn,
         TypeOK, Flowing(s, f, r, a, qn, on, bn), Prefetch, MayPrefetch
  PROVE  Flowing(s + 1, f, r, Counted(a, s, None), Append(qn, s), on, bn)'
<1>1. /\ mpc = "prefetch" /\ mpc' = "prefetched"
      /\ n_enqueued < 2 /\ pos_to_schedule < file_size /\ Schedule(None)
      /\ UNCHANGED <<pos_to_schedule, n_enqueued, q_handlers, q_buf_ready, within, size, hot,
                     bytes_read_, failed, wpc, op, file_size, stopped, io_>>
  BY DEF Prefetch, MayPrefetch, halfVars, workerVars, givenVars
<1>2. ~Scheduling /\ Scheduling' /\ mpc # "taken" /\ ~stopped /\ Ready' = Ready
  BY <1>1 DEF Scheduling, Ready, Flowing, StoppedInv
<1> DEFINE c == Counted(a, s, None)
<1>3. /\ NumberInv(s + 1, f, r, c, Append(qn, s), on, bn)'
      /\ KindInv(s + 1, c)'
      /\ ScheduleInv(s + 1, f)'
      /\ DueInv(s + 1, f, c, Append(qn, s), on)'
      /\ MadeInv(f, r, c, on, bn)'
      /\ StoppedInv(s + 1, f, c, on, bn)'
      /\ WindowInv(f, r)'
  BY <1>1, <1>2, ScheduleFlows
<1> USE DEF Flowing
<1>4. s \in Nat /\ r \in 0..s /\ a \in [Nat -> Nat] /\ r \in Nat
  <2>1. s \in Nat /\ r \in Nat /\ f \in Nat /\ r <= f /\ f <= s /\ a \in [Nat -> Nat]
    BY DEF NumberInv
  <2> QED
    BY <2>1
<1>5. c \in [Nat -> Nat] /\ (\A k \in 0..s : c[k] = a[k]) /\ c[s + 1] = a[s] + 1 /\ s \in 0..s
  BY <1>4, CountedMore
<1> HIDE DEF c
<1>6. EnqueuedInv(s + 1, r, c)'
  <2>1. /\ a[s] \in Nat /\ a[r] \in Nat /\ n_enqueued \in Nat /\ Ready \in Nat
        /\ c[r] = a[r]
    <3>1. a[s] \in Nat /\ a[r] \in Nat /\ c[r] = a[r]
      BY <1>4, <1>5
    <3>2. n_enqueued \in Nat /\ Ready \in Nat
      BY DEF TypeOK, Ready
    <3> QED
      BY <3>1, <3>2
  <2>2. a[s] + Ready + (IF within = "prefetch" THEN 1 ELSE 0) <= a[r] + n_enqueued
    BY <1>1, <2>1 DEF EnqueuedInv
  <2>3. c[s + 1] + Ready + (IF within = "prefetch" THEN 1 ELSE 0) <= c[r] + n_enqueued + 1
    BY <1>5, <2>1, <2>2
  <2> QED
    BY <1>1, <1>2, <2>3 DEF EnqueuedInv
<1>7. \A k \in r..((s + 1) - 1) : k = s \/ (k \in r..(s - 1) /\ k \in 0..s /\ k + 1 \in 0..s)
  BY <1>4
<1>8. a[s] \in Nat
  BY <1>4
<1>9. DirectInv(s + 1, r, c)'
  <2>1. ASSUME NEW k \in r..((s + 1) - 1), c[k + 1] = c[k]
        PROVE  c[k] <= c[r] + Len(q_handlers)
    <3>1. k # s
      BY <1>5, <1>8, <2>1
    <3>2. a[k + 1] = a[k] /\ c[k] = a[k] /\ c[r] = a[r] /\ k \in r..(s - 1)
      BY <1>4, <1>5, <1>7, <2>1, <3>1
    <3> QED
      BY <3>2 DEF DirectInv
  <2> QED
    BY <1>1, <2>1 DEF DirectInv
<1>10. ReadyInv(s + 1, r, c)'
  <2>1. Ready > 0 => \A k \in r..((s + 1) - 1) : c[k + 1] = c[k] + 1
    BY <1>5, <1>7 DEF ReadyInv
  <2> QED
    BY <1>1, <1>2, <2>1 DEF ReadyInv
<1> QED
  BY <1>1, <1>3, <1>6, <1>9, <1>10 DEF c

\* The other steps of a call leave the reads alone.
LEMMA CalmFlows ==
  ASSUME NEW s, NEW f, NEW r, NEW a, NEW qn, NEW on, NEW bn,
         TypeOK, Flowing(s, f, r, a, qn, on, bn),
         \/ AdvanceDirect
         \/ AdvancePrefetch
         \/ CallbackReturns
         \/ Prefetch /\ ~MayPrefetch
  PROVE  Flowing(s, f, r, a, qn, on, bn)'
<1> USE DEF Flowing
<1>1. /\ UNCHANGED <<swapped, q_handlers, q_buf_ready, size, hot, bytes_read_, failed, wpc, op,
                     file_size, stopped, q_as_read_data, io_, next>>
      /\ mpc \notin {"taken", "aborted"} /\ mpc' \in {"idle", "callback", "prefetch"}
      /\ ~Scheduling'
      /\ stopped => mpc' \in {"idle", "callback"}
  <2>1. stopped => mpc \in {"idle", "callback"}
    BY DEF StoppedInv
  <2>2. CASE AdvanceDirect
    BY <2>1, <2>2 DEF AdvanceDirect, Scheduling, halfVars, workerVars, givenVars
  <2>3. CASE AdvancePrefetch
    BY <2>1, <2>3 DEF AdvancePrefetch, Scheduling, halfVars, workerVars, givenVars
  <2>4. CASE CallbackReturns
    BY <2>1, <2>4 DEF CallbackReturns, Scheduling, halfVars, workerVars, givenVars
  <2>5. CASE Prefetch /\ ~MayPrefetch
    BY <2>1, <2>5 DEF Prefetch, Scheduling, halfVars, workerVars, givenVars
  <2> QED
    BY <2>2, <2>3, <2>4, <2>5
<1>2. Front' = Front
  <2>1. CASE AdvanceDirect
    BY <1>1, <2>1 DEF AdvanceDirect, Front, Scheduling
  <2>2. CASE AdvancePrefetch
    BY <1>1, <2>2 DEF AdvancePrefetch, Front, Scheduling
  <2>3. CASE CallbackReturns
    BY <1>1, <2>3 DEF CallbackReturns, Front, Scheduling
  <2>4. CASE Prefetch /\ ~MayPrefetch
    BY <1>1, <2>4 DEF Prefetch, Front, Scheduling
  <2> QED
    BY <2>1, <2>2, <2>3, <2>4
<1>3. NumberInv(s, f, r, a, qn, on, bn)' /\ DirectInv(s, r, a)'
  BY <1>1 DEF NumberInv, DirectInv, Ready
<1>4. ReadyInv(s, r, a)' /\ WindowInv(f, r)'
  BY <1>1 DEF ReadyInv, WindowInv, Ready
<1>5. ScheduleInv(s, f)'
  BY <1>1, <1>2 DEF ScheduleInv
<1>6. DueInv(s, f, a, qn, on)' /\ MadeInv(f, r, a, on, bn)'
  BY <1>1 DEF DueInv, MadeInv, Awaits, Made, Waits
<1>7. StoppedInv(s, f, a, on, bn)'
  BY <1>1 DEF StoppedInv, Made
<1>8. EnqueuedInv(s, r, a)'
  <2>1. /\ a[s] \in Nat /\ a[r] \in Nat /\ Ready \in Nat /\ n_enqueued \in Nat /\ Ready' = Ready
    <3>1. a \in [Nat -> Nat] /\ s \in Nat /\ r \in Nat
      BY DEF NumberInv
    <3>2. a[s] \in Nat /\ a[r] \in Nat
      BY <3>1
    <3>3. Ready \in Nat /\ n_enqueued \in Nat /\ Ready' = Ready
      BY <1>1 DEF TypeOK, Ready
    <3> QED
      BY <3>2, <3>3
  <2>2. CASE AdvanceDirect
    BY <1>1, <2>1, <2>2 DEF AdvanceDirect, EnqueuedInv
  <2>3. CASE AdvancePrefetch
    <3>1. /\ n_enqueued' = n_enqueued + 1 /\ within' = within
          /\ mpc = "prefetched" /\ mpc' # "prefetched"
      BY <1>1, <2>3 DEF AdvancePrefetch
    <3> QED
      BY <2>1, <3>1 DEF EnqueuedInv
  <2>4. CASE CallbackReturns
    <3>1. /\ n_enqueued' = IF within = "prefetch" THEN n_enqueued - 1 ELSE n_enqueued
          /\ within' = "none" /\ mpc # "prefetched" /\ mpc' # "prefetched"
      BY <1>1, <2>4 DEF CallbackReturns
    <3> QED
      BY <2>1, <3>1 DEF EnqueuedInv
  <2>5. CASE Prefetch /\ ~MayPrefetch
    BY <1>1, <2>1, <2>5 DEF Prefetch, EnqueuedInv
  <2> QED
    BY <2>2, <2>3, <2>4, <2>5
<1> QED
  BY <1>1, <1>3, <1>4, <1>5, <1>6, <1>7, <1>8

-----------------------------------------------------------------------------
(* The handlers run.                                                       *)

\* When the first handler runs, the others move up.
LEMMA TailNumbers ==
  ASSUME NEW s, NEW f, NEW r, NEW a, NEW qn, NEW on, NEW bn,
         TypeOK, NumberInv(s, f, r, a, qn, on, bn), io_ # <<>>, io_' = Tail(io_)
  PROVE  /\ Tail(bn) \in Seq(Nat) /\ Len(Tail(bn)) = Len(io_')
         /\ Head(io_) = io_[1] /\ 1 \in 1..Len(bn) /\ Len(bn) \in Nat /\ bn[1] \in Nat
         /\ \A i \in 1..Len(Tail(bn)) : /\ i + 1 \in 1..Len(bn) /\ Tail(bn)[i] = bn[i + 1]
                                        /\ io_'[i] = io_[i + 1] /\ 1 < i + 1
         /\ \A i, j \in 1..Len(Tail(bn)) : i < j => i + 1 < j + 1
         /\ \A i \in 1..Len(bn) : i = 1 \/ (i - 1 \in 1..Len(Tail(bn)) /\ (i - 1) + 1 = i)
<1>1. io_ \in Seq(Reads \cup Bound) /\ bn \in Seq(Nat) /\ Len(bn) = Len(io_)
  BY DEF TypeOK, NumberInv, Bound
<1>2. bn # <<>>
  BY <1>1
<1>3. /\ Len(bn) \in Nat /\ Len(Tail(bn)) = Len(bn) - 1 /\ 1 \in 1..Len(bn) /\ bn[1] \in Nat
      /\ \A i \in 1..Len(Tail(bn)) : i + 1 \in 1..Len(bn) /\ Tail(bn)[i] = bn[i + 1]
  BY <1>1, <1>2, TailIndices
<1>4. /\ Len(io_') = Len(io_) - 1 /\ Head(io_) = io_[1]
      /\ \A i \in 1..Len(io_') : i + 1 \in 1..Len(io_) /\ io_'[i] = io_[i + 1]
  BY <1>1, TailIndices
<1>5. Tail(bn) \in Seq(Nat)
  BY <1>1, <1>2
<1>6. \A i \in 1..Len(bn) : i = 1 \/ (i - 1 \in 1..Len(Tail(bn)) /\ (i - 1) + 1 = i)
  BY <1>3
<1>7. Len(Tail(bn)) = Len(io_')
  BY <1>1, <1>3, <1>4
<1>8. \A i, j \in 1..Len(Tail(bn)) : i < j => i + 1 < j + 1
  <2>1. \A i \in 1..Len(Tail(bn)) : i \in Int
    BY <1>3
  <2> QED
    BY <2>1
<1>9. \A i \in 1..Len(Tail(bn)) : 1 < i + 1
  BY <1>3
<1> QED
  BY <1>3, <1>4, <1>5, <1>6, <1>7, <1>8, <1>9

\* The reads found stopped that are left.
LEMMA TailStopped ==
  ASSUME NEW s, NEW f, NEW r, NEW a, NEW qn, NEW on, NEW bn,
         TypeOK, Flowing(s, f, r, a, qn, on, bn), io_ # <<>>, io_' = Tail(io_),
         stopped => mpc' \in {"idle", "callback"}, UNCHANGED <<wpc, op, stopped>>
  PROVE  StoppedInv(s, f, a, on, Tail(bn))'
<1>1. NumberInv(s, f, r, a, qn, on, bn) /\ StoppedInv(s, f, a, on, bn)
  BY DEF Flowing
<1> DEFINE d == Tail(bn)
<1>2. /\ Len(bn) \in Nat
      /\ \A i \in 1..Len(d) : /\ i + 1 \in 1..Len(bn) /\ d[i] = bn[i + 1]
                              /\ io_'[i] = io_[i + 1] /\ 1 < i + 1
      /\ \A i, j \in 1..Len(d) : i < j => i + 1 < j + 1
  BY <1>1, TailNumbers
<1> HIDE DEF d
<1>3. ASSUME NEW i \in 1..Len(d), IsRead(io_'[i]) /\ ~HasData(io_'[i])
      PROVE  /\ stopped /\ wpc # "read" /\ ~Made
             /\ d[i] \in f..(s - 1) /\ Numbered(io_'[i], d[i], a)
             /\ \A j \in 1..Len(d) : i < j /\ IsRead(io_'[j]) => ~HasData(io_'[j])
  <2>1. i + 1 \in 1..Len(bn) /\ IsRead(io_[i + 1]) /\ ~HasData(io_[i + 1])
    BY <1>2, <1>3
  <2>2. /\ stopped /\ wpc # "read" /\ ~Made
        /\ d[i] \in f..(s - 1) /\ Numbered(io_'[i], d[i], a)
        /\ \A j \in 1..Len(bn) : i + 1 < j /\ IsRead(io_[j]) => ~HasData(io_[j])
    BY <1>1, <1>2, <2>1 DEF StoppedInv
  <2>3. ASSUME NEW j \in 1..Len(d), i < j, IsRead(io_'[j])  PROVE ~HasData(io_'[j])
    <3>1. j + 1 \in 1..Len(bn) /\ i + 1 < j + 1 /\ io_'[j] = io_[j + 1]
      BY <1>2, <2>3
    <3> QED
      BY <2>2, <2>3, <3>1
  <2> QED
    BY <2>2, <2>3
<1>4. Made' <=> Made
  BY DEF Made
<1>5. wpc = "post" /\ ~HasData(op) => stopped /\ on \in f..(s - 1) /\ Numbered(op, on, a)
  BY <1>1 DEF StoppedInv
<1>6. StoppedInv(s, f, a, on, d)'
  BY <1>3, <1>4, <1>5 DEF StoppedInv, IsRead, HasData, Numbered
<1> QED
  BY <1>6 DEF d

\* A handler that was posted with its answer runs.
LEMMA RunBoundFlows ==
  ASSUME NEW s, NEW f, NEW r, NEW a, NEW qn, NEW on, NEW bn,
         TypeOK, Flowing(s, f, r, a, qn, on, bn), RunBound
  PROVE  Flowing(s, f, r, a, qn, on, Tail(bn))'
<1>1. /\ mpc = "idle" /\ mpc' = "callback" /\ within' = "bound" /\ io_ # <<>> /\ io_' = Tail(io_)
      /\ ~IsRead(Head(io_))
      /\ UNCHANGED <<pos_to_schedule, n_enqueued, swapped, q_handlers, q_buf_ready, next, size,
                     hot, bytes_read_, failed, wpc, op, file_size, stopped, q_as_read_data>>
  BY DEF RunBound, Running, Enter, IsRead, mainVars, halfVars, workerVars, givenVars
<1>2. StoppedInv(s, f, a, on, Tail(bn))'
  BY <1>1, TailStopped
<1> USE DEF Flowing
<1> DEFINE d == Tail(bn)
<1>3. /\ d \in Seq(Nat) /\ Len(d) = Len(io_')
      /\ Head(io_) = io_[1] /\ 1 \in 1..Len(bn) /\ Len(bn) \in Nat
      /\ \A i \in 1..Len(d) : /\ i + 1 \in 1..Len(bn) /\ d[i] = bn[i + 1]
                              /\ io_'[i] = io_[i + 1] /\ 1 < i + 1
      /\ \A i, j \in 1..Len(d) : i < j => i + 1 < j + 1
      /\ \A i \in 1..Len(bn) : i = 1 \/ (i - 1 \in 1..Len(d) /\ (i - 1) + 1 = i)
  BY <1>1, TailNumbers
<1> HIDE DEF d
<1>4. NumberInv(s, f, r, a, qn, on, d)'
  BY <1>1, <1>3 DEF NumberInv, Ready
<1>5. DirectInv(s, r, a)' /\ ReadyInv(s, r, a)' /\ ScheduleInv(s, f)' /\ WindowInv(f, r)'
  BY <1>1 DEF DirectInv, ReadyInv, ScheduleInv, WindowInv, Ready, Front, Scheduling
<1>6. EnqueuedInv(s, r, a)'
  <2>1. a \in [Nat -> Nat] /\ s \in Nat /\ r \in Nat
    BY DEF NumberInv
  <2>2. Ready \in Nat /\ n_enqueued \in Nat /\ Ready' = Ready
    BY <1>1, SMTT(20) DEF Ready, TypeOK
  <2>3. a[s] \in Nat /\ a[r] \in Nat
    BY <2>1
  <2>4. a[s] + Ready <= a[r] + n_enqueued
    BY <1>1, <2>2, <2>3 DEF EnqueuedInv
  <2> QED
    BY <1>1, <2>2, <2>3, <2>4 DEF EnqueuedInv
<1>7. DueInv(s, f, a, qn, on)'
  BY <1>1 DEF DueInv, Awaits, Waits
<1>8. MadeInv(f, r, a, on, d)'
  <2>1. /\ Made => r < f /\ on = f - 1 /\ Numbered(op, on, a)
        /\ \A i \in 1..Len(bn) : IsRead(io_[i]) /\ HasData(io_[i]) =>
             /\ bn[i] \in r..(f - 1) /\ Numbered(io_[i], bn[i], a)
             /\ Made => bn[i] # on
        /\ \A i, j \in 1..Len(bn) :
             IsRead(io_[i]) /\ HasData(io_[i]) /\ IsRead(io_[j]) /\ HasData(io_[j]) /\ i < j
               => bn[i] < bn[j]
        /\ \A k \in r..(f - 1) :
             \/ \E i \in 1..Len(bn) : IsRead(io_[i]) /\ HasData(io_[i]) /\ bn[i] = k
             \/ Made /\ on = k
    BY DEF MadeInv
  <2>2. ASSUME NEW i \in 1..Len(d), IsRead(io_'[i]) /\ HasData(io_'[i])
        PROVE  /\ d[i] \in r..(f - 1) /\ Numbered(io_'[i], d[i], a)
               /\ Made => d[i] # on
    BY <1>3, <2>1, <2>2
  <2>3. ASSUME NEW i \in 1..Len(d), NEW j \in 1..Len(d), i < j,
               IsRead(io_'[i]) /\ HasData(io_'[i]) /\ IsRead(io_'[j]) /\ HasData(io_'[j])
        PROVE  d[i] < d[j]
    <3>1. i + 1 \in 1..Len(bn) /\ j + 1 \in 1..Len(bn) /\ i + 1 < j + 1
      BY <1>3, <2>3
    <3> QED
      BY <1>3, <2>1, <2>3, <3>1
  <2>4. ASSUME NEW k \in r..(f - 1)
        PROVE  \/ \E i \in 1..Len(d) : IsRead(io_'[i]) /\ HasData(io_'[i]) /\ d[i] = k
               \/ Made /\ on = k
    <3>1. CASE Made /\ on = k
      BY <3>1
    <3>2. CASE \E i \in 1..Len(bn) : IsRead(io_[i]) /\ HasData(io_[i]) /\ bn[i] = k
      <4>1. PICK i \in 1..Len(bn) : IsRead(io_[i]) /\ HasData(io_[i]) /\ bn[i] = k
        BY <3>2
      <4>2. i # 1
        BY <1>1, <1>3, <4>1
      <4>3. i - 1 \in 1..Len(d) /\ (i - 1) + 1 = i
        BY <1>3, <4>2
      <4>4. io_'[i - 1] = io_[i] /\ d[i - 1] = bn[i]
        BY <1>3, <4>3
      <4> QED
        BY <4>1, <4>3, <4>4
    <3> QED
      BY <2>1, <3>1, <3>2
  <2>5. Made' <=> Made
    BY <1>1 DEF Made
  <2> QED
    BY <1>1, <2>1, <2>2, <2>3, <2>4, <2>5 DEF MadeInv, IsRead, HasData, Numbered
<1> QED
  BY <1>1, <1>2, <1>4, <1>5, <1>6, <1>7, <1>8 DEF d

\* The handler of a read with data runs: it is the next to be handed on, and its half is hot.
LEMMA MadeRun ==
  ASSUME NEW s, NEW f, NEW r, NEW a, NEW qn, NEW on, NEW bn,
         TypeOK, Flowing(s, f, r, a, qn, on, bn), mpc = "idle", io_ # <<>>, io_' = Tail(io_),
         IsRead(Head(io_)), HasData(Head(io_)),
         UNCHANGED <<wpc, op, stopped>>
  PROVE  /\ r \in Nat /\ f \in Nat /\ s \in Nat /\ a \in [Nat -> Nat] /\ r < f /\ f <= s
         /\ (wpc = "finish" => r < f - 1)
         /\ Numbered(Head(io_), r, a) /\ hot[HalfOf(r)]
         /\ MadeInv(f, r + 1, a, on, Tail(bn))'
<1> USE DEF Flowing
<1> DEFINE d == Tail(bn)
<1>1. /\ Head(io_) = io_[1] /\ 1 \in 1..Len(bn) /\ Len(bn) \in Nat
      /\ \A i \in 1..Len(d) : /\ i + 1 \in 1..Len(bn) /\ d[i] = bn[i + 1]
                              /\ io_'[i] = io_[i + 1] /\ 1 < i + 1
      /\ \A i, j \in 1..Len(d) : i < j => i + 1 < j + 1
      /\ \A i \in 1..Len(bn) : i = 1 \/ (i - 1 \in 1..Len(d) /\ (i - 1) + 1 = i)
  BY TailNumbers
<1> HIDE DEF d
<1>2. /\ r \in Nat /\ f \in Nat /\ s \in Nat /\ a \in [Nat -> Nat] /\ r <= f /\ f <= s
      /\ bn \in Seq(Nat)
  BY DEF NumberInv
<1>3. /\ Made => r < f /\ on = f - 1 /\ Numbered(op, on, a)
      /\ \A i \in 1..Len(bn) : IsRead(io_[i]) /\ HasData(io_[i]) =>
           /\ bn[i] \in r..(f - 1) /\ Numbered(io_[i], bn[i], a)
           /\ Made => bn[i] # on
      /\ \A i, j \in 1..Len(bn) :
           IsRead(io_[i]) /\ HasData(io_[i]) /\ IsRead(io_[j]) /\ HasData(io_[j]) /\ i < j
             => bn[i] < bn[j]
      /\ \A k \in r..(f - 1) :
           \/ \E i \in 1..Len(bn) : IsRead(io_[i]) /\ HasData(io_[i]) /\ bn[i] = k
           \/ Made /\ on = k
  BY DEF MadeInv
<1>4. bn[1] \in r..(f - 1) /\ Numbered(io_[1], bn[1], a) /\ (Made => bn[1] # f - 1)
  BY <1>1, <1>3
<1> PICK l : l = bn[1]
  OBVIOUS
<1>5. r < f /\ r \in r..(f - 1) /\ l \in r..(f - 1) /\ (Made => l # f - 1)
      /\ ~(l < r) /\ (r = f - 1 => l = f - 1)
  <2>1. l \in r..(f - 1) /\ (Made => l # f - 1) /\ r \in Nat /\ f \in Nat
    BY <1>2, <1>4
  <2> QED
    BY <2>1
<1>6. bn[1] = r
  <2>1. CASE Made /\ on = r
    <3>1. r = f - 1 /\ l # f - 1
      BY <1>3, <1>5, <2>1
    <3>2. FALSE
      BY <1>5, <3>1
    <3> QED
      BY <3>2
  <2>2. CASE \E i \in 1..Len(bn) : IsRead(io_[i]) /\ HasData(io_[i]) /\ bn[i] = r
    <3>1. PICK i \in 1..Len(bn) : IsRead(io_[i]) /\ HasData(io_[i]) /\ bn[i] = r
      BY <2>2
    <3>2. i = 1 \/ 1 < i
      BY <1>1
    <3>3. 1 < i => l < r
      BY <1>1, <1>3, <3>1
    <3>4. i = 1 => l = r
      BY <3>1
    <3>5. ~(l < r)
      BY <1>5
    <3> QED
      BY <3>2, <3>3, <3>4, <3>5
  <2> QED
    BY <1>3, <1>5, <2>1, <2>2
<1>7. wpc = "finish" => r < f - 1
  BY <1>2, <1>5, <1>6 DEF Made
<1>8. hot[HalfOf(r)]
  <2>1. Ready \in Nat /\ Ready <= r
    BY DEF NumberInv, Ready
  <2>2. r \in (r - Ready)..(f - 1)
    BY <1>2, <1>5, <2>1
  <2> QED
    BY <1>2, <1>7, <2>2 DEF WindowInv
<1>9. MadeInv(f, r + 1, a, on, d)'
  <2>1. Made => r + 1 < f /\ on = f - 1 /\ Numbered(op, on, a)
    <3>1. Made => r # f - 1
      BY <1>5, <1>6
    <3>2. Made => r + 1 < f
      BY <1>2, <1>5, <3>1
    <3> QED
      BY <1>3, <3>2
  <2>2. ASSUME NEW i \in 1..Len(d), IsRead(io_'[i]) /\ HasData(io_'[i])
        PROVE  /\ d[i] \in (r + 1)..(f - 1) /\ Numbered(io_'[i], d[i], a)
               /\ Made => d[i] # on
    <3>1. i + 1 \in 1..Len(bn) /\ 1 < i + 1 /\ io_'[i] = io_[i + 1] /\ d[i] = bn[i + 1]
      BY <1>1
    <3>2. bn[1] < bn[i + 1]
      BY <1>1, <1>3, <2>2, <3>1
    <3>3. /\ d[i] \in r..(f - 1) /\ Numbered(io_'[i], d[i], a)
          /\ Made => d[i] # on
      BY <1>3, <2>2, <3>1
    <3>4. d[i] \in (r + 1)..(f - 1)
      <4>1. PICK k : k = d[i]
        OBVIOUS
      <4>2. k \in r..(f - 1) /\ r < k
        BY <1>6, <3>1, <3>2, <3>3, <4>1
      <4>3. k \in (r + 1)..(f - 1)
        BY <1>2, <4>2
      <4> QED
        BY <4>1, <4>3
    <3> QED
      BY <3>3, <3>4
  <2>3. ASSUME NEW i \in 1..Len(d), NEW j \in 1..Len(d), i < j,
               IsRead(io_'[i]) /\ HasData(io_'[i]) /\ IsRead(io_'[j]) /\ HasData(io_'[j])
        PROVE  d[i] < d[j]
    <3>1. i + 1 \in 1..Len(bn) /\ j + 1 \in 1..Len(bn) /\ i + 1 < j + 1
      BY <1>1, <2>3
    <3> QED
      BY <1>1, <1>3, <2>3, <3>1
  <2>4. ASSUME NEW k \in (r + 1)..(f - 1)
        PROVE  \/ \E i \in 1..Len(d) : IsRead(io_'[i]) /\ HasData(io_'[i]) /\ d[i] = k
               \/ Made /\ on = k
    <3>0. k \in r..(f - 1) /\ k # r
      BY <1>2
    <3>1. CASE Made /\ on = k
      BY <3>1
    <3>2. CASE \E i \in 1..Len(bn) : IsRead(io_[i]) /\ HasData(io_[i]) /\ bn[i] = k
      <4>1. PICK i \in 1..Len(bn) : IsRead(io_[i]) /\ HasData(io_[i]) /\ bn[i] = k
        BY <3>2
      <4>2. i # 1
        BY <1>6, <3>0, <4>1
      <4>3. i - 1 \in 1..Len(d) /\ (i - 1) + 1 = i
        BY <1>1, <4>2
      <4>4. io_'[i - 1] = io_[i] /\ d[i - 1] = bn[i]
        BY <1>1, <4>3
      <4> QED
        BY <4>1, <4>3, <4>4
    <3> QED
      BY <1>3, <3>0, <3>1, <3>2
  <2>5. Made' <=> Made
    BY DEF Made
  <2> QED
    BY <2>1, <2>2, <2>3, <2>4, <2>5 DEF MadeInv, IsRead, HasData, Numbered
<1> QED
  BY <1>1, <1>2, <1>4, <1>5, <1>6, <1>7, <1>8, <1>9 DEF d

\* The half of the read that is handed on is released; none is ready.
LEMMA HandedWindow ==
  ASSUME NEW f, NEW r, TypeOK, WindowInv(f, r), r \in Nat, f \in Nat, r < f,
         Ready = 0, Ready' = 0, mpc # "taken", mpc' # "taken",
         hot' = [hot EXCEPT ![HalfOf(r)] = FALSE], UNCHANGED wpc
  PROVE  WindowInv(f, r + 1)'
<1>1. f <= r + 2 /\ r + 1 \in Nat /\ f <= (r + 1) + IF wpc = "read" THEN 1 ELSE 2
  BY DEF WindowInv
<1>2. r - Ready = r /\ (r + 1) - Ready' = r + 1
  OBVIOUS
<1>3. HalfOf(r) \in Buffers /\ HalfOf(r + 1) \in Buffers /\ HalfOf(r + 1) # HalfOf(r)
  BY Halves
<1>4. ~hot'[HalfOf(r)] /\ \A b \in Buffers : b # HalfOf(r) => hot'[b] = hot[b]
  BY <1>3 DEF TypeOK
<1>5. \A k \in (r + 1)..(f - 1) : k = r + 1 /\ k \in r..(f - 1)
  BY <1>1
<1>6. \A k \in (r + 1)..(f - 1) : hot'[HalfOf(k)] \/ (wpc = "finish" /\ k = f - 1)
  <2>1. \A k \in r..(f - 1) : hot[HalfOf(k)] \/ (wpc = "finish" /\ k = f - 1)
    BY <1>2 DEF WindowInv
  <2> QED
    BY <1>3, <1>4, <1>5, <2>1
<1>7. ASSUME NEW b \in Buffers, hot'[b]
      PROVE  \E k \in (r + 1)..(f - 1) : HalfOf(k) = b
  <2>1. b # HalfOf(r) /\ hot[b]
    BY <1>4, <1>7
  <2>2. PICK k \in r..(f - 1) : HalfOf(k) = b
    BY <1>2, <2>1 DEF WindowInv
  <2>3. k \in (r + 1)..(f - 1)
    BY <2>1, <2>2
  <2> QED
    BY <2>2, <2>3
<1>8. wpc = "finish" => ~hot'[HalfOf(f - 1)]
  <2>1. wpc = "finish" => ~hot[HalfOf(f - 1)]
    BY DEF WindowInv
  <2>2. f - 1 \in Nat /\ HalfOf(f - 1) \in Buffers
    BY Halves
  <2> QED
    BY <1>4, <2>1, <2>2
<1>9. f + Ready' <= (r + 1) + IF wpc' = "read" THEN 1 ELSE 2
  BY <1>1
<1> QED
  BY <1>2, <1>6, <1>7, <1>8, <1>9 DEF WindowInv

\* The handler of a direct read that brings data runs.
LEMMA RunDirectFlows ==
  ASSUME NEW s, NEW f, NEW r, NEW a, NEW qn, NEW on, NEW bn,
         TypeOK, Flowing(s, f, r, a, qn, on, bn), RunDirect, HasData(Head(io_))
  PROVE  Flowing(s, f, r + 1, a, qn, on, Tail(bn))'
<1>1. /\ mpc = "idle" /\ io_ # <<>> /\ io_' = Tail(io_) /\ IsRead(Head(io_))
      /\ Head(io_).call # None
      /\ UNCHANGED <<pos_to_schedule, n_enqueued, swapped, q_handlers, q_buf_ready, next, size,
                     bytes_read_, failed, wpc, op, file_size, stopped, q_as_read_data>>
  BY DEF RunDirect, Running, IsRead, mainVars, workerVars, givenVars
<1>2. /\ r \in Nat /\ f \in Nat /\ s \in Nat /\ a \in [Nat -> Nat] /\ r < f /\ f <= s
      /\ Numbered(Head(io_), r, a) /\ hot[HalfOf(r)]
      /\ MadeInv(f, r + 1, a, on, Tail(bn))'
  BY <1>1, MadeRun
<1>3. Head(io_).buf = HalfOf(r) /\ a[r + 1] = a[r]
  BY <1>1, <1>2 DEF Numbered
<1>4. hot' = [hot EXCEPT ![HalfOf(r)] = FALSE] /\ mpc' = "callback" /\ within' = "direct"
  BY <1>2, <1>3 DEF RunDirect, HandOver, Enter
<1>5. StoppedInv(s, f, a, on, Tail(bn))'
  BY <1>1, <1>4, TailStopped
<1>6. Tail(bn) \in Seq(Nat) /\ Len(Tail(bn)) = Len(io_')
  BY <1>1, TailNumbers DEF Flowing
<1> USE DEF Flowing
<1>7. r \in Nat /\ s \in Nat /\ f \in Nat /\ r < s /\ r + 1 <= f /\ r + 1 \in Nat
  BY <1>2
<1>8. a[r] \in Nat /\ a[s] \in Nat /\ n_enqueued \in Nat /\ Ready \in Nat
  <2>1. a[r] \in Nat /\ a[s] \in Nat
    BY <1>2
  <2> QED
    BY <2>1, SMTT(20) DEF TypeOK, Ready
<1>9. Ready = 0 /\ Ready' = 0
  <2>1. r \in r..(s - 1)
    BY <1>7
  <2>2. ~(Ready > 0)
    BY <1>3, <1>8, <2>1 DEF ReadyInv
  <2> QED
    BY <1>1, <1>8, <2>2 DEF Ready
<1>10. NumberInv(s, f, r + 1, a, qn, on, Tail(bn))'
  <2>1. Ready' <= r + 1
    BY <1>7, <1>9
  <2> QED
    BY <1>1, <1>6, <1>7, <2>1 DEF NumberInv
<1>11. EnqueuedInv(s, r + 1, a)'
  <2>1. a[s] <= a[r + 1] + n_enqueued
    BY <1>1, <1>3, <1>8, <1>9 DEF EnqueuedInv
  <2> QED
    BY <1>1, <1>3, <1>4, <1>8, <1>9, <2>1 DEF EnqueuedInv
<1>12. \A k \in (r + 1)..(s - 1) : k \in r..(s - 1)
  BY <1>7
<1>13. DirectInv(s, r + 1, a)'
  BY <1>1, <1>3, <1>12 DEF DirectInv
<1>14. ReadyInv(s, r + 1, a)'
  BY <1>4, <1>9 DEF ReadyInv
<1>15. ScheduleInv(s, f)' /\ DueInv(s, f, a, qn, on)'
  BY <1>1, <1>4 DEF ScheduleInv, Front, Scheduling, DueInv, Awaits, Waits
<1>16. WindowInv(f, r + 1)'
  BY <1>1, <1>2, <1>4, <1>9, HandedWindow
<1> QED
  BY <1>1, <1>2, <1>4, <1>5, <1>10, <1>11, <1>13, <1>14, <1>15, <1>16

\* The handler of a prefetch that brings data runs, for the first call that waits.
LEMMA RunPrefetchFlows ==
  ASSUME NEW s, NEW f, NEW r, NEW a, NEW qn, NEW on, NEW bn,
         TypeOK, Flowing(s, f, r, a, qn, on, bn), RunPrefetch, HasData(Head(io_))
  PROVE  Flowing(s, f, r + 1, a, qn, on, Tail(bn))'
<1>1. /\ mpc = "idle" /\ io_ # <<>> /\ io_' = Tail(io_) /\ IsRead(Head(io_))
      /\ Head(io_).call = None /\ q_handlers # <<>> /\ q_handlers' = Tail(q_handlers)
      /\ UNCHANGED <<pos_to_schedule, n_enqueued, swapped, q_buf_ready, next, size,
                     bytes_read_, failed, wpc, op, file_size, stopped, q_as_read_data>>
  BY DEF RunPrefetch, Running, IsRead, workerVars, givenVars
<1>2. /\ r \in Nat /\ f \in Nat /\ s \in Nat /\ a \in [Nat -> Nat] /\ r < f /\ f <= s
      /\ Numbered(Head(io_), r, a) /\ hot[HalfOf(r)]
      /\ MadeInv(f, r + 1, a, on, Tail(bn))'
  BY <1>1, MadeRun
<1>3. Head(io_).buf = HalfOf(r) /\ a[r + 1] = a[r] + 1
  BY <1>1, <1>2 DEF Numbered
<1>4. hot' = [hot EXCEPT ![HalfOf(r)] = FALSE] /\ mpc' = "callback" /\ within' = "prefetch"
  BY <1>2, <1>3 DEF RunPrefetch, HandOver, Enter
<1>5. StoppedInv(s, f, a, on, Tail(bn))'
  BY <1>1, <1>4, TailStopped
<1>6. Tail(bn) \in Seq(Nat) /\ Len(Tail(bn)) = Len(io_')
  BY <1>1, TailNumbers DEF Flowing
<1> USE DEF Flowing
<1>7. r \in Nat /\ s \in Nat /\ f \in Nat /\ r < s /\ r + 1 <= f /\ r + 1 \in Nat
  BY <1>2
<1>8. a[r] \in Nat /\ a[s] \in Nat /\ n_enqueued \in Nat /\ Ready \in Nat
  <2>1. a[r] \in Nat /\ a[s] \in Nat
    BY <1>2
  <2> QED
    BY <2>1, SMTT(20) DEF TypeOK, Ready
<1>9. Ready = 0 /\ Ready' = 0
  <2>1. ~(Ready > 0)
    BY <1>1 DEF ReadyInv
  <2> QED
    BY <1>1, <1>8, <2>1 DEF Ready
<1>10. NumberInv(s, f, r + 1, a, qn, on, Tail(bn))'
  <2>1. Ready' <= r + 1
    BY <1>7, <1>9
  <2> QED
    BY <1>1, <1>6, <1>7, <2>1 DEF NumberInv
<1>11. EnqueuedInv(s, r + 1, a)'
  <2>1. a[s] + 1 <= a[r + 1] + n_enqueued
    <3>1. a[s] <= a[r] + n_enqueued
      BY <1>1, <1>8, <1>9 DEF EnqueuedInv
    <3> QED
      BY <1>3, <1>8, <3>1
  <2> QED
    BY <1>1, <1>3, <1>4, <1>8, <1>9, <2>1 DEF EnqueuedInv
<1>12. \A k \in (r + 1)..(s - 1) : k \in r..(s - 1) /\ a[k] \in Nat
  BY <1>2, <1>7
<1>13. Len(q_handlers) \in Nat /\ Len(q_handlers') = Len(q_handlers) - 1
  BY <1>1, TailIndices DEF TypeOK
<1>14. DirectInv(s, r + 1, a)'
  <2>1. ASSUME NEW k \in (r + 1)..(s - 1), a[k + 1] = a[k]
        PROVE  a[k] <= a[r + 1] + Len(q_handlers')
    <3>1. a[k] <= a[r] + Len(q_handlers)
      BY <1>12, <2>1 DEF DirectInv
    <3> QED
      BY <1>3, <1>8, <1>12, <1>13, <3>1
  <2> QED
    BY <2>1 DEF DirectInv
<1>15. ReadyInv(s, r + 1, a)'
  BY <1>4, <1>9 DEF ReadyInv
<1>16. ScheduleInv(s, f)' /\ DueInv(s, f, a, qn, on)'
  BY <1>1, <1>4 DEF ScheduleInv, Front, Scheduling, DueInv, Awaits, Waits
<1>17. WindowInv(f, r + 1)'
  BY <1>1, <1>2, <1>4, <1>9, HandedWindow
<1> QED
  BY <1>1, <1>2, <1>4, <1>5, <1>10, <1>11, <1>14, <1>15, <1>16, <1>17

\* The handler of a prefetch that brings data runs, and nobody waits: the half is ready.
LEMMA RunAheadFlows ==
  ASSUME NEW s, NEW f, NEW r, NEW a, NEW qn, NEW on, NEW bn,
         TypeOK, Flowing(s, f, r, a, qn, on, bn), RunPrefetchAhead, HasData(Head(io_))
  PROVE  Flowing(s, f, r + 1, a, qn, on, Tail(bn))'
<1>1. /\ mpc = "idle" /\ io_ # <<>> /\ io_' = Tail(io_) /\ IsRead(Head(io_))
      /\ Head(io_).call = None /\ q_handlers = <<>>
      /\ q_buf_ready' = Append(q_buf_ready, Head(io_).buf)
      /\ UNCHANGED <<pos_to_schedule, n_enqueued, swapped, q_handlers, next, size, hot, mpc,
                     within, bytes_read_, failed, wpc, op, file_size, stopped, q_as_read_data>>
  BY DEF RunPrefetchAhead, Running, IsRead, workerVars, givenVars, halfVars
<1>2. /\ r \in Nat /\ f \in Nat /\ s \in Nat /\ a \in [Nat -> Nat] /\ r < f /\ f <= s
      /\ Numbered(Head(io_), r, a)
      /\ MadeInv(f, r + 1, a, on, Tail(bn))'
  BY <1>1, MadeRun
<1>3. Head(io_).buf = HalfOf(r) /\ a[r + 1] = a[r] + 1
  BY <1>1, <1>2 DEF Numbered
<1>4. StoppedInv(s, f, a, on, Tail(bn))'
  BY <1>1, TailStopped
<1>5. Tail(bn) \in Seq(Nat) /\ Len(Tail(bn)) = Len(io_')
  BY <1>1, TailNumbers DEF Flowing
<1> USE DEF Flowing
<1>6. r \in Nat /\ s \in Nat /\ f \in Nat /\ r < s /\ r + 1 <= f /\ r + 1 \in Nat /\ r + 1 \in 0..s
  BY <1>2
<1>7. /\ Ready \in Nat /\ Ready' = Ready + 1
      /\ (\A i \in 1..Ready : q_buf_ready'[i] = q_buf_ready[i])
      /\ q_buf_ready'[Ready + 1] = HalfOf(r)
  <2>1. q_buf_ready \in Seq(Buffers)
    BY DEF TypeOK
  <2> QED
    BY <1>1, <1>3, <2>1, AppendIndices DEF Ready
<1>8. a[r] \in Nat /\ a[s] \in Nat /\ n_enqueued \in Nat /\ Ready <= r
  <2>1. a[r] \in Nat /\ a[s] \in Nat
    BY <1>2
  <2>2. Ready <= r
    BY DEF NumberInv
  <2> QED
    BY <2>1, <2>2, SMTT(20) DEF TypeOK
<1>9. (r + 1) - Ready' = r - Ready /\ Ready' <= r + 1
  BY <1>6, <1>7, <1>8
<1>10. NumberInv(s, f, r + 1, a, qn, on, Tail(bn))'
  BY <1>1, <1>5, <1>6, <1>9 DEF NumberInv
<1>11. EnqueuedInv(s, r + 1, a)'
  <2>1. a[s] + Ready + (IF within = "prefetch" THEN 1 ELSE 0) <= a[r] + n_enqueued
    BY <1>1, <1>7, <1>8 DEF EnqueuedInv
  <2>2. a[s] + Ready' + (IF within = "prefetch" THEN 1 ELSE 0) <= a[r + 1] + n_enqueued
    BY <1>3, <1>7, <1>8, <2>1
  <2>3. a[s] + Ready' + (IF within' = "prefetch" THEN 1 ELSE 0)
          <= a[r + 1] + n_enqueued' + (IF mpc' = "prefetched" THEN 1 ELSE 0)
    <3>1. a[r + 1] + n_enqueued + 0 = a[r + 1] + n_enqueued
      BY <1>3, <1>8
    <3> QED
      BY <1>1, <2>2, <3>1
  <2> QED
    BY <1>1, <2>3 DEF EnqueuedInv
<1>12. ASSUME NEW k \in (r + 1)..(s - 1)  PROVE a[k + 1] = a[k] + 1
  <2>1. k \in r..(s - 1) /\ k \in 0..(s - 1) /\ k \in 0..s /\ r + 1 <= k /\ k \in Nat
    BY <1>6
  <2>2. a[k + 1] \in {a[k], a[k] + 1} /\ a[r + 1] <= a[k] /\ a[k] \in Nat
    BY <1>2, <1>6, <2>1 DEF KindInv
  <2>3. a[k + 1] = a[k] => a[k] <= a[r]
    <3>1. a[k + 1] = a[k] => a[k] <= a[r] + Len(q_handlers)
      BY <2>1 DEF DirectInv
    <3>2. Len(q_handlers) = 0
      BY <1>1
    <3> QED
      BY <1>8, <3>1, <3>2
  <2> QED
    BY <1>3, <1>8, <2>2, <2>3
<1>13. DirectInv(s, r + 1, a)'
  <2>1. \A k \in (r + 1)..(s - 1) : a[k + 1] # a[k]
    <3>1. \A k \in (r + 1)..(s - 1) : a[k] \in Nat
      BY <1>2, <1>6
    <3> QED
      BY <1>12, <3>1
  <2> QED
    BY <2>1 DEF DirectInv
<1>14. ReadyInv(s, r + 1, a)'
  <2>1. ASSUME NEW i \in 1..Ready'  PROVE q_buf_ready'[i] = HalfOf((r + 1) - Ready' + i - 1)
    <3>1. CASE i \in 1..Ready
      <4>1. q_buf_ready'[i] = HalfOf(r - Ready + i - 1)
        BY <1>7, <3>1 DEF ReadyInv
      <4> QED
        BY <1>9, <4>1
    <3>2. CASE i = Ready + 1
      <4>1. (r + 1) - Ready' + i - 1 = r
        BY <1>6, <1>7, <1>8, <3>2
      <4> QED
        BY <1>7, <3>2, <4>1
    <3> QED
      BY <1>7, <3>1, <3>2
  <2> QED
    BY <1>1, <1>12, <2>1 DEF ReadyInv
<1>15. ScheduleInv(s, f)' /\ DueInv(s, f, a, qn, on)'
  BY <1>1 DEF ScheduleInv, Front, Scheduling, DueInv, Awaits, Waits
<1>16. WindowInv(f, r + 1)'
  <2>1. f + Ready' <= (r + 1) + IF wpc = "read" THEN 1 ELSE 2
    BY <1>6, <1>7, <1>8 DEF WindowInv
  <2>2. mpc # "taken"
    BY <1>1
  <2>3. /\ \A k \in (r - Ready)..(f - 1) : hot[HalfOf(k)] \/ (wpc = "finish" /\ k = f - 1)
        /\ \A b \in Buffers : hot[b] => \E k \in (r - Ready)..(f - 1) : HalfOf(k) = b
        /\ wpc = "finish" => ~hot[HalfOf(f - 1)]
    BY <2>2 DEF WindowInv
  <2> QED
    BY <1>1, <1>9, <2>1, <2>2, <2>3 DEF WindowInv
<1> QED
  BY <1>1, <1>2, <1>4, <1>10, <1>11, <1>13, <1>14, <1>15, <1>16

-----------------------------------------------------------------------------
(* Once the stream is broken or drained.                                   *)

\* The handler of a read found stopped runs: from then on nothing is handed on.
LEMMA StoppedRuns ==
  ASSUME NEW s, NEW f, NEW r, NEW a, NEW qn, NEW on, NEW bn,
         TypeOK, Flowing(s, f, r, a, qn, on, bn),
         RunDirect \/ RunPrefetch \/ RunPrefetchAhead, ~HasData(Head(io_))
  PROVE  Drained'
<1>1. /\ mpc = "idle" /\ io_ # <<>> /\ io_' = Tail(io_) /\ IsRead(Head(io_))
      /\ UNCHANGED <<wpc, op, stopped, q_as_read_data>>
      /\ mpc' \in {"idle", "callback", "aborted"}
  BY DEF RunDirect, RunPrefetch, RunPrefetchAhead, Running, IsRead, HandOver, Enter, workerVars
<1>2. \A b \in Buffers : hot'[b] => hot[b]
  <2>1. hot' = hot \/ \E c : hot' = [hot EXCEPT ![c] = FALSE]
    BY DEF RunDirect, RunPrefetch, RunPrefetchAhead, HandOver, halfVars
  <2> QED
    BY <2>1 DEF TypeOK
<1> USE DEF Flowing
<1> DEFINE d == Tail(bn)
<1>3. /\ Len(d) = Len(io_') /\ Head(io_) = io_[1] /\ 1 \in 1..Len(bn)
      /\ \A i \in 1..Len(d) : /\ i + 1 \in 1..Len(bn) /\ d[i] = bn[i + 1]
                              /\ io_'[i] = io_[i + 1] /\ 1 < i + 1
  BY <1>1, TailNumbers
<1> HIDE DEF d
<1>4. /\ stopped /\ wpc # "read" /\ ~Made /\ bn[1] \in f..(s - 1) /\ Numbered(io_[1], bn[1], a)
      /\ \A j \in 1..Len(bn) : 1 < j /\ IsRead(io_[j]) => ~HasData(io_[j])
  BY <1>1, <1>3 DEF StoppedInv
<1>5. \A i \in 1..Len(io_') : IsRead(io_'[i]) => ~HasData(io_'[i])
  BY <1>3, <1>4
<1>6. wpc # "finish" /\ ~Made' /\ (wpc = "post" => ~HasData(op))
  BY <1>1, <1>4 DEF Made
<1>7. s \in Nat /\ f \in Nat /\ r \in Nat /\ r <= f /\ f <= s /\ a \in [Nat -> Nat]
  BY DEF NumberInv
<1>71. s \in Nat /\ f \in Nat /\ r \in Nat /\ r <= f
  BY <1>7
<1>8. \A k \in f..(s - 1) : k \in Nat /\ k \in r..(s - 1)
  BY <1>71
<1>81. Ready \in Nat
  BY DEF Ready, TypeOK
<1>9. CASE Ready = 0
  <2>1. ASSUME r < f  PROVE FALSE
    <3>1. r \in r..(f - 1)
      BY <1>7, <2>1
    <3>2. PICK i \in 1..Len(bn) : IsRead(io_[i]) /\ HasData(io_[i])
      BY <1>4, <3>1 DEF MadeInv
    <3>3. i = 1 \/ 1 < i
      OBVIOUS
    <3> QED
      BY <1>1, <1>3, <1>4, <3>2, <3>3
  <2>2. r = f
    BY <1>7, <2>1
  <2>3. \A b \in Buffers : ~hot[b]
    <3>1. (r - Ready)..(f - 1) = {}
      BY <1>7, <1>9, <2>2
    <3> QED
      BY <3>1 DEF WindowInv
  <2>4. \A b \in Buffers : ~hot'[b]
    BY <1>2, <2>3
  <2> QED
    BY <1>1, <1>4, <1>5, <1>6, <2>4 DEF Drained, IsRead, HasData
<1>10. CASE Ready > 0
  <2>1. q_handlers = <<>> /\ \A k \in r..(s - 1) : a[k + 1] = a[k] + 1
    BY <1>10 DEF ReadyInv
  <2>2. \A x, k : k \in f..(s - 1) /\ Numbered(x, k, a) => x.call = None
    <3>0. \A k \in f..(s - 1) : a[k + 1] = a[k] + 1
      BY <1>8, <2>1
    <3>1. \A k \in f..(s - 1) : a[k] \in Nat /\ a[k + 1] = a[k] + 1
      BY <1>7, <1>8, <3>0
    <3>2. \A k \in f..(s - 1) : a[k + 1] # a[k]
      BY <3>1
    <3> QED
      BY <3>2 DEF Numbered
  <2>3. Head(io_).call = None
    BY <1>3, <1>4, <2>2
  <2>4. q_handlers' = <<>>
    <3>1. RunPrefetchAhead
      BY <2>1, <2>3 DEF RunDirect, RunPrefetch, Running
    <3> QED
      BY <2>1, <3>1 DEF RunPrefetchAhead
  <2>5. \A i \in 1..Len(bn) : IsRead(io_[i]) /\ ~HasData(io_[i]) => io_[i].call = None
    <3>1. StoppedInv(s, f, a, on, bn)
      OBVIOUS
    <3>2. \A i \in 1..Len(bn) : IsRead(io_[i]) /\ ~HasData(io_[i]) =>
            bn[i] \in f..(s - 1) /\ Numbered(io_[i], bn[i], a)
      BY <3>1, Zenon DEF StoppedInv
    <3> QED
      BY <2>2, <3>2, Zenon
  <2>6. \A i \in 1..Len(io_') : IsRead(io_'[i]) => io_'[i].call = None
    BY <1>3, <1>4, <2>5
  <2>7. \A i \in 1..Len(q_as_read_data) : q_as_read_data[i].call = None
    <3>1. Len(qn) = Len(q_as_read_data)
      BY DEF NumberInv
    <3>2. \A i \in 1..Len(qn) : Awaits(q_as_read_data[i], qn[i], s, f, a)
      BY DEF DueInv
    <3> QED
      BY <2>2, <3>1, <3>2 DEF Awaits
  <2>8. wpc \in {"examine", "post"} => op.call = None
    <3>1. wpc = "examine" => op.call = None
      BY <2>2 DEF DueInv, Awaits, Waits
    <3>2. wpc = "post" => op.call = None
      BY <1>6, <2>2 DEF StoppedInv
    <3> QED
      BY <3>1, <3>2
  <2> QED
    BY <1>1, <1>4, <1>5, <1>6, <2>4, <2>6, <2>7, <2>8 DEF Drained, IsRead, HasData
<1> QED
  BY <1>81, <1>9, <1>10

\* Nothing more is handed on once that has begun.
LEMMA DrainedStep ==
  ASSUME TypeOK, StageTypes, Drained, [Next]_vars
  PROVE  Drained'
<1> USE DEF Drained
<1>0. /\ io_ \in Seq(Reads \cup Bound) /\ q_as_read_data \in Seq(Reads)
  BY DEF TypeOK, Bound
<1>1. CASE UNCHANGED vars
  BY <1>1 DEF vars, mainVars, halfVars, workerVars, Made
<1>2. CASE Stop
  BY <1>2 DEF Stop
<1>3. ASSUME NEW n \in Resizes, Resize(n)  PROVE Drained'
  BY <1>3 DEF Resize, mainVars, halfVars, workerVars, Made
<1>4. CASE Call
  BY <1>4 DEF Call, TakeReady, QueueHandler, EndOfFile, ReadDirect, MayCall
<1>5. CASE PostReady \/ AdvanceDirect \/ Prefetch \/ AdvancePrefetch
  BY <1>5 DEF PostReady, AdvanceDirect, Prefetch, AdvancePrefetch
<1>6. CASE CallbackReturns
  BY <1>6 DEF CallbackReturns, halfVars, workerVars, Made
<1>7. CASE RunBound \/ RunDirect \/ RunPrefetch \/ RunPrefetchAhead
  <2>1. /\ mpc = "idle" /\ io_ # <<>> /\ io_' = Tail(io_)
        /\ UNCHANGED <<wpc, op, stopped, q_as_read_data>>
        /\ mpc' \in {"idle", "callback", "aborted"}
    BY <1>7 DEF RunBound, RunDirect, RunPrefetch, RunPrefetchAhead, Running, HandOver, Enter,
                workerVars
  <2>2. /\ Head(io_) = io_[1] /\ 1 \in 1..Len(io_)
        /\ \A i \in 1..Len(io_') : i + 1 \in 1..Len(io_) /\ io_'[i] = io_[i + 1]
    BY <1>0, <2>1, TailIndices
  <2>3. \A i \in 1..Len(io_') : IsRead(io_'[i]) => ~HasData(io_'[i])
    BY <2>2
  <2>4. ~Made' /\ stopped' /\ wpc' \notin {"read", "finish"}
    BY <2>1 DEF Made
  <2>5. \A b \in Buffers : hot'[b] => hot[b]
    <3>1. hot' = hot \/ \E c : hot' = [hot EXCEPT ![c] = FALSE]
      BY <1>7 DEF RunBound, RunDirect, RunPrefetch, RunPrefetchAhead, HandOver, halfVars
    <3> QED
      BY <3>1 DEF TypeOK
  <2>6. CASE \A b \in Buffers : ~hot[b]
    <3>1. \A b \in Buffers : ~hot'[b]
      BY <2>5, <2>6
    <3> QED
      BY <2>1, <2>3, <2>4, <3>1 DEF IsRead, HasData
  <2>7. CASE /\ q_handlers = <<>>
             /\ \A i \in 1..Len(io_) : IsRead(io_[i]) => io_[i].call = None
             /\ \A i \in 1..Len(q_as_read_data) : q_as_read_data[i].call = None
             /\ wpc \in {"examine", "post"} => op.call = None
    <3>1. ~RunPrefetch
      BY <2>7 DEF RunPrefetch
    <3>2. ~RunDirect
      BY <2>2, <2>7 DEF RunDirect, Running, IsRead
    <3>3. q_handlers' = q_handlers
      BY <1>7, <3>1, <3>2 DEF RunBound, RunPrefetchAhead, mainVars
    <3>4. \A i \in 1..Len(io_') : IsRead(io_'[i]) => io_'[i].call = None
      BY <2>2, <2>7
    <3> QED
      BY <2>1, <2>3, <2>4, <2>7, <3>3, <3>4 DEF IsRead, HasData
  <2> QED
    BY <2>1, <2>6, <2>7
<1>8. CASE WorkerPop
  <2>1. /\ wpc' = "examine" /\ op' = q_as_read_data[1]
        /\ 1 \in 1..Len(q_as_read_data)
        /\ \A i \in 1..Len(q_as_read_data') : /\ i + 1 \in 1..Len(q_as_read_data)
                                              /\ q_as_read_data'[i] = q_as_read_data[i + 1]
    BY <1>0, <1>8, TailIndices DEF WorkerPop
  <2>2. UNCHANGED <<mpc, stopped, io_, hot, q_handlers>>
    BY <1>8 DEF WorkerPop, mainVars, halfVars
  <2> QED
    BY <2>1, <2>2 DEF Made
<1>9. CASE WorkerStopped
  <2>1. op \in Reads /\ op' = [op EXCEPT !.ec = "stopped"] /\ wpc = "examine" /\ wpc' = "post"
    BY <1>9 DEF WorkerStopped, StageTypes, Holding
  <2>2. op'.call = op.call /\ op'.ec = "stopped"
    BY <2>1 DEF Reads
  <2>3. UNCHANGED <<mpc, stopped, io_, hot, q_handlers, q_as_read_data>>
    BY <1>9 DEF WorkerStopped, mainVars, halfVars
  <2> QED
    BY <2>1, <2>2, <2>3 DEF Made, HasData
<1>10. CASE WorkerRequeue \/ WorkerProceed \/ WorkerRead \/ WorkerFinish
  BY <1>10 DEF WorkerRequeue, WorkerProceed, WorkerRead, WorkerFinish
<1>11. CASE WorkerPost
  <2>1. /\ wpc = "post" /\ wpc' = "pop" /\ ~HasData(op)
        /\ UNCHANGED <<mpc, stopped, hot, q_handlers, q_as_read_data>>
    BY <1>11 DEF WorkerPost, mainVars, halfVars, Made
  <2>2. io_' = Append(io_, op)
    BY <1>11 DEF WorkerPost
  <2>3. /\ Len(io_) \in Nat /\ Len(io_') = Len(io_) + 1
        /\ \A i \in 1..Len(io_) : io_'[i] = io_[i]
        /\ io_'[Len(io_) + 1] = op
    BY <1>0, <2>2, AppendIndices
  <2>4. \A i \in 1..Len(io_') : i \in 1..Len(io_) \/ io_'[i] = op
    <3>1. \A i \in 1..Len(io_') : i \in 1..Len(io_) \/ i = Len(io_) + 1
      BY <2>3
    <3> QED
      BY <2>3, <3>1
  <2>5. \A i \in 1..Len(io_') : IsRead(io_'[i]) => ~HasData(io_'[i])
    BY <2>1, <2>3, <2>4
  <2>6. CASE mpc = "aborted" \/ \A b \in Buffers : ~hot[b]
    BY <2>1, <2>5, <2>6 DEF Made, IsRead, HasData
  <2>7. CASE /\ q_handlers = <<>>
             /\ \A i \in 1..Len(io_) : IsRead(io_[i]) => io_[i].call = None
             /\ \A i \in 1..Len(q_as_read_data) : q_as_read_data[i].call = None
             /\ wpc \in {"examine", "post"} => op.call = None
    <3>1. \A i \in 1..Len(io_') : IsRead(io_'[i]) => io_'[i].call = None
      BY <2>1, <2>3, <2>4, <2>7
    <3> QED
      BY <2>1, <2>5, <2>7, <3>1 DEF Made, IsRead, HasData
  <2> QED
    BY <2>6, <2>7
<1> QED
  BY <1>1, <1>2, <1>3, <1>4, <1>5, <1>6, <1>7, <1>8, <1>9, <1>10, <1>11 DEF Next, Main, Worker

\* Nothing more is read once a read has failed.
LEMMA BrokenStep ==
  ASSUME TypeOK, StageTypes, Broken, [Next]_vars
  PROVE  Broken'
<1>0. /\ q_as_read_data \in Seq(Reads) /\ resized /\ size \in [Buffers -> 0..ChunkSize]
      /\ ChunkSize \in Nat /\ swapped \in Buffers /\ bytes_read_ \in Nat /\ pos_to_schedule \in Nat
  BY ChunkedReaderAssumption DEF TypeOK, Broken
<1>1. resized'
  <2>1. \A n \in Resizes : Resize(n) => resized'
    BY DEF Resize
  <2>2. CASE UNCHANGED resized
    BY <1>0, <2>2
  <2>3. ~(\E n \in Resizes : Resize(n)) => UNCHANGED resized
    BY DEF Next, Call, Main, Worker, vars, givenVars, Stop,
           TakeReady, QueueHandler, EndOfFile, ReadDirect, PostReady, AdvanceDirect, Prefetch,
           AdvancePrefetch, CallbackReturns, RunBound, RunDirect, RunPrefetch, RunPrefetchAhead,
           WorkerPop, WorkerStopped, WorkerRequeue, WorkerProceed, WorkerRead, WorkerFinish,
           WorkerPost
  <2> QED
    BY <2>1, <2>2, <2>3
<1>2. CASE wpc = "aborted"
  <2>1. ~Worker
    BY <1>2 DEF Worker, WorkerPop, WorkerStopped, WorkerRequeue, WorkerProceed, WorkerRead,
                WorkerFinish, WorkerPost
  <2>2. UNCHANGED wpc
    BY <2>1 DEF Next, Call, Main, vars, workerVars, Stop, Resize,
           TakeReady, QueueHandler, EndOfFile, ReadDirect, PostReady, AdvanceDirect, Prefetch,
           AdvancePrefetch, CallbackReturns, RunBound, RunDirect, RunPrefetch, RunPrefetchAhead
  <2> QED
    BY <1>1, <1>2, <2>2 DEF Broken
<1>3. CASE wpc # "aborted"
  <2> DEFINE B == /\ failed /\ wpc \notin {"read", "finish"}
                  /\ \A i \in 1..Len(q_as_read_data) : bytes_read_ < q_as_read_data[i].pos
                  /\ wpc = "examine" => bytes_read_ < op.pos
                  /\ bytes_read_ < Front
  <2>0. B
    BY <1>3 DEF Broken
  <2>1. SUFFICES B' \/ wpc' = "aborted"
    BY <1>1 DEF Broken
  <2>2. CASE UNCHANGED <<workerVars, q_as_read_data, Front>>
    BY <2>0, <2>2 DEF workerVars
  <2>3. CASE UNCHANGED vars \/ Stop \/ \E n \in Resizes : Resize(n)
    <3>1. UNCHANGED <<workerVars, q_as_read_data, Front>>
      BY <2>3 DEF vars, Stop, Resize, Front, Scheduling, mainVars, halfVars
    <3> QED
      BY <2>2, <3>1
  <2>4. CASE TakeReady \/ QueueHandler \/ EndOfFile \/ PostReady \/ CallbackReturns
    <3>1. UNCHANGED <<workerVars, q_as_read_data, pos_to_schedule>> /\ ~Scheduling /\ ~Scheduling'
      BY <2>4 DEF TakeReady, QueueHandler, EndOfFile, PostReady, CallbackReturns, MayCall,
                  Scheduling
    <3>2. UNCHANGED Front
      BY <3>1 DEF Front
    <3> QED
      BY <2>2, <3>1, <3>2
  <2>5. CASE RunBound \/ RunDirect \/ RunPrefetch \/ RunPrefetchAhead
    <3>1. UNCHANGED <<workerVars, q_as_read_data, pos_to_schedule>> /\ ~Scheduling /\ ~Scheduling'
      BY <2>5 DEF RunBound, RunDirect, RunPrefetch, RunPrefetchAhead, Running, HandOver, Enter,
                  Scheduling, mainVars
    <3>2. UNCHANGED Front
      BY <3>1 DEF Front
    <3> QED
      BY <2>2, <3>1, <3>2
  <2>6. CASE AdvanceDirect
    <3>1. UNCHANGED <<workerVars, q_as_read_data>> /\ Front' = Front
      BY <1>0, <2>6 DEF AdvanceDirect, Front, Scheduling, halfVars, TypeOK
    <3> QED
      BY <2>2, <3>1
  <2>7. CASE AdvancePrefetch
    <3>1. UNCHANGED <<workerVars, q_as_read_data>> /\ Front' = Front
      BY <1>0, <2>7 DEF AdvancePrefetch, Front, Scheduling, halfVars, TypeOK
    <3> QED
      BY <2>2, <3>1
  <2>8. CASE Prefetch /\ ~MayPrefetch
    <3>1. UNCHANGED <<workerVars, q_as_read_data, pos_to_schedule>> /\ ~Scheduling /\ ~Scheduling'
      BY <2>8 DEF Prefetch, Scheduling
    <3>2. UNCHANGED Front
      BY <3>1 DEF Front
    <3> QED
      BY <2>2, <3>1, <3>2
  <2>9. CASE ReadDirect \/ (Prefetch /\ MayPrefetch)
    <3>1. /\ UNCHANGED <<bytes_read_, failed, wpc, op, pos_to_schedule, size>>
          /\ ~Scheduling /\ Scheduling' /\ \E h : Schedule(h)
      BY <2>9 DEF ReadDirect, Prefetch, MayCall, Scheduling, workerVars, halfVars
    <3>2. PICK h : Schedule(h)
      BY <3>1
    <3> DEFINE x == [call |-> h, buf |-> swapped, pos |-> pos_to_schedule, ec |-> None]
    <3>3. q_as_read_data' = Append(q_as_read_data, x) /\ next' = swapped /\ x.pos = pos_to_schedule
      BY <3>2 DEF Schedule
    <3> HIDE DEF x
    <3>4. /\ Len(q_as_read_data) \in Nat /\ Len(q_as_read_data') = Len(q_as_read_data) + 1
          /\ \A i \in 1..Len(q_as_read_data) : q_as_read_data'[i] = q_as_read_data[i]
          /\ q_as_read_data'[Len(q_as_read_data) + 1] = x
      BY <1>0, <3>3, AppendIndices
    <3>5. bytes_read_ < pos_to_schedule
      BY <1>0, <2>0, <3>1 DEF Front
    <3>6. bytes_read_' < Front'
      <4>1. Front' = pos_to_schedule + size[swapped] /\ size[swapped] \in Nat
        BY <1>0, <3>1, <3>3 DEF Front
      <4> QED
        BY <1>0, <3>1, <3>5, <4>1
    <3>7. \A i \in 1..Len(q_as_read_data') : bytes_read_ < q_as_read_data'[i].pos
      <4>1. \A i \in 1..Len(q_as_read_data') :
              i \in 1..Len(q_as_read_data) \/ i = Len(q_as_read_data) + 1
        BY <3>4
      <4> QED
        BY <2>0, <3>3, <3>4, <3>5, <4>1
    <3> QED
      BY <2>0, <3>1, <3>6, <3>7
  <2>10. CASE Worker
    <3>1. UNCHANGED <<pos_to_schedule, mpc, next>>
      BY <2>10 DEF Worker, WorkerPop, WorkerStopped, WorkerRequeue, WorkerProceed, WorkerRead,
                WorkerFinish, WorkerPost, mainVars
    <3>2. ~WorkerRead
      BY <2>0 DEF WorkerRead
    <3>3. ~WorkerProceed
      <4>1. bytes_read_ \in Nat
        BY <1>0
      <4>2. wpc = "examine" => bytes_read_ < op.pos
        BY <2>0
      <4>3. ~(wpc = "examine" /\ bytes_read_ = op.pos)
        BY <4>1, <4>2
      <4> QED
        BY <4>3 DEF WorkerProceed, MayProceed
    <3>4. UNCHANGED <<bytes_read_, failed, size, Front>>
      BY <2>10, <3>1, <3>2, <3>3 DEF Worker, WorkerPop, WorkerStopped, WorkerRequeue,
                WorkerFinish, WorkerPost, halfVars, Front, Scheduling
    <3>5. CASE WorkerPop
      <4>1. /\ wpc' = "examine" /\ op' = q_as_read_data[1]
            /\ 1 \in 1..Len(q_as_read_data)
            /\ \A i \in 1..Len(q_as_read_data') : /\ i + 1 \in 1..Len(q_as_read_data)
                                                  /\ q_as_read_data'[i] = q_as_read_data[i + 1]
        BY <1>0, <3>5, TailIndices DEF WorkerPop
      <4> QED
        BY <2>0, <3>4, <4>1
    <3>6. CASE WorkerStopped
      BY <2>0, <3>4, <3>6 DEF WorkerStopped
    <3>7. CASE WorkerRequeue
      <4>1. /\ wpc = "examine" /\ wpc' = "pop" /\ q_as_read_data' = Append(q_as_read_data, op)
        BY <3>7 DEF WorkerRequeue
      <4>2. /\ Len(q_as_read_data) \in Nat /\ Len(q_as_read_data') = Len(q_as_read_data) + 1
            /\ \A i \in 1..Len(q_as_read_data) : q_as_read_data'[i] = q_as_read_data[i]
            /\ q_as_read_data'[Len(q_as_read_data) + 1] = op
        BY <1>0, <4>1, AppendIndices
      <4>3. \A i \in 1..Len(q_as_read_data') :
              i \in 1..Len(q_as_read_data) \/ i = Len(q_as_read_data) + 1
        BY <4>2
      <4>4. \A i \in 1..Len(q_as_read_data') : bytes_read_ < q_as_read_data'[i].pos
        BY <2>0, <4>1, <4>2, <4>3
      <4> QED
        BY <2>0, <3>4, <4>1, <4>4
    <3>8. CASE WorkerFinish
      BY <2>0, <3>4, <3>8 DEF WorkerFinish
    <3>9. CASE WorkerPost
      BY <2>0, <3>4, <3>9 DEF WorkerPost
    <3> QED
      BY <2>10, <3>2, <3>3, <3>5, <3>6, <3>7, <3>8, <3>9 DEF Worker
  <2> HIDE DEF B
  <2> QED
    BY <2>3, <2>4, <2>5, <2>6, <2>7, <2>8, <2>9, <2>10 DEF Next, Call, Main
<1> QED
  BY <1>2, <1>3

-----------------------------------------------------------------------------
(* The reads in their order, in every state.                               *)

\* While the file keeps its size the worker reads it to its end and no further.
LEMMA EndStep ==
  ASSUME TypeOK, StageTypes, ReadInv, EndInv, [Next]_vars
  PROVE  EndInv'
<1>1. CASE \E n \in Resizes : Resize(n)
  BY <1>1 DEF Resize, EndInv
<1>2. CASE WorkerRead /\ ~failed
  <2>1. /\ op \in Reads /\ bytes_read_ = op.pos /\ UNCHANGED <<actual, file_size, resized>>
    BY <1>2 DEF WorkerRead, StageTypes, Holding, ReadInv, givenVars
  <2>2. op.buf \in Buffers
    BY <2>1, ReadTypes
  <2>3. PICK k : k = size[op.buf]
    OBVIOUS
  <2>4. k \in Nat
    BY <2>2, <2>3, ChunkedReaderAssumption DEF TypeOK
  <2>5. PICK n : n = Stream!Least(k, IF actual < op.pos THEN 0 ELSE actual - op.pos)
    OBVIOUS
  <2>6. bytes_read_' = bytes_read_ + n /\ failed' = (n < k)
    BY <1>2, <2>3, <2>5 DEF WorkerRead
  <2>7. actual \in Nat /\ bytes_read_ \in Nat /\ file_size \in Nat
    BY DEF TypeOK
  <2>8. ASSUME ~resized  PROVE actual = file_size /\ bytes_read_ <= file_size
    BY <2>8 DEF EndInv
  <2>9. ASSUME ~resized
        PROVE  bytes_read_' <= file_size /\ (failed' => bytes_read_' = file_size)
    <3>1. n = IF k < actual - bytes_read_ THEN k ELSE actual - bytes_read_
      BY <2>1, <2>5, <2>7, <2>8, <2>9 DEF Stream!Least
    <3>2. n = IF k < file_size - bytes_read_ THEN k ELSE file_size - bytes_read_
      BY <2>8, <2>9, <3>1
    <3>3. bytes_read_ <= file_size
      BY <2>8, <2>9
    <3>4. bytes_read_ + n <= file_size /\ (n < k => bytes_read_ + n = file_size)
      BY <2>4, <2>7, <3>2, <3>3
    <3> QED
      BY <2>6, <3>4
  <2> QED
    BY <2>1, <2>8, <2>9 DEF EndInv
<1>3. CASE UNCHANGED <<actual, file_size, resized, bytes_read_, failed>>
  BY <1>3 DEF EndInv
<1>4. CASE Call \/ Main \/ Stop \/ UNCHANGED vars
  <2>1. UNCHANGED <<actual, file_size, resized, bytes_read_, failed>>
    BY <1>4 DEF Call, Main, vars, givenVars, workerVars, Stop,
           TakeReady, QueueHandler, EndOfFile, ReadDirect, PostReady, AdvanceDirect, Prefetch,
           AdvancePrefetch, CallbackReturns, RunBound, RunDirect, RunPrefetch, RunPrefetchAhead
  <2> QED
    BY <1>3, <2>1
<1>5. CASE Worker /\ ~(WorkerRead /\ ~failed)
  <2>1. UNCHANGED <<actual, file_size, resized, bytes_read_, failed>>
    BY <1>5 DEF Worker, givenVars, WorkerPop, WorkerStopped, WorkerRequeue, WorkerProceed,
           WorkerRead, WorkerFinish, WorkerPost
  <2> QED
    BY <1>3, <2>1
<1> QED
  BY <1>1, <1>2, <1>4, <1>5 DEF Next

\* The numbers of a flow have their types.
LEMMA Flows ==
  ASSUME NEW s, NEW f, NEW r, NEW a, NEW qn, NEW on, NEW bn,
         Flowing(s, f, r, a, qn, on, bn)'
  PROVE  FlowInv'
<1>1. /\ s \in Nat /\ f \in Nat /\ r \in Nat /\ a \in [Nat -> Nat]
      /\ qn \in Seq(Nat) /\ on \in Nat /\ bn \in Seq(Nat)
  BY DEF Flowing, NumberInv
<1> QED
  BY <1>1 DEF FlowInv

\* Every step keeps the reads in their order, breaks the stream, or drains it.
LEMMA FlowStep ==
  ASSUME TypeOK, StageTypes, ReadInv, EndInv, FlowInv, [Next]_vars
  PROVE  FlowInv'
<1>1. CASE Broken
  BY <1>1, BrokenStep DEF FlowInv
<1>2. CASE Drained
  BY <1>2, DrainedStep DEF FlowInv
<1>3. CASE \E s, f, r, on \in Nat, a \in [Nat -> Nat], qn, bn \in Seq(Nat) :
             Flowing(s, f, r, a, qn, on, bn)
  <2>1. PICK s, f, r, on \in Nat, a \in [Nat -> Nat], qn, bn \in Seq(Nat) :
               Flowing(s, f, r, a, qn, on, bn)
    BY <1>3
  <2>2. CASE QueueHandler
    <3>1. Flowing(s, f, r, a, qn, on, bn)'
      BY <2>1, <2>2, QueueHandlerFlows
    <3> QED
      BY <3>1, Flows
  <2>3. CASE TakeReady
    <3>1. Flowing(s, f, r, a, qn, on, bn)'
      BY <2>1, <2>3, TakeReadyFlows
    <3> QED
      BY <3>1, Flows
  <2>4. CASE EndOfFile
    <3>1. Flowing(s, f, r, a, qn, on, Append(bn, 0))'
      BY <2>1, <2>4, EndOfFileFlows
    <3> QED
      BY <3>1, Flows
  <2>5. CASE PostReady
    <3>1. Flowing(s, f, r, a, qn, on, Append(bn, 0))'
      BY <2>1, <2>5, PostReadyFlows
    <3> QED
      BY <3>1, Flows
  <2>6. CASE Prefetch /\ MayPrefetch
    <3>1. Flowing(s + 1, f, r, Counted(a, s, None), Append(qn, s), on, bn)'
      BY <2>1, <2>6, PrefetchFlows
    <3> QED
      BY <3>1, Flows
  <2>7. CASE RunBound
    <3>1. Flowing(s, f, r, a, qn, on, Tail(bn))'
      BY <2>1, <2>7, RunBoundFlows
    <3> QED
      BY <3>1, Flows
  <2>8. CASE RunDirect /\ HasData(Head(io_))
    <3>1. Flowing(s, f, r + 1, a, qn, on, Tail(bn))'
      BY <2>1, <2>8, RunDirectFlows
    <3> QED
      BY <3>1, Flows
  <2>9. CASE RunPrefetch /\ HasData(Head(io_))
    <3>1. Flowing(s, f, r + 1, a, qn, on, Tail(bn))'
      BY <2>1, <2>9, RunPrefetchFlows
    <3> QED
      BY <3>1, Flows
  <2>10. CASE RunPrefetchAhead /\ HasData(Head(io_))
    <3>1. Flowing(s, f, r + 1, a, qn, on, Tail(bn))'
      BY <2>1, <2>10, RunAheadFlows
    <3> QED
      BY <3>1, Flows
  <2>11. CASE WorkerPop
    <3>1. Flowing(s, f, r, a, Tail(qn), Head(qn), bn)'
      BY <2>1, <2>11, PopFlows
    <3> QED
      BY <3>1, Flows
  <2>12. CASE WorkerStopped
    <3>1. Flowing(s, f, r, a, qn, on, bn)'
      BY <2>1, <2>12, WorkerStoppedFlows
    <3> QED
      BY <3>1, Flows
  <2>13. CASE WorkerRequeue
    <3>1. Flowing(s, f, r, a, Append(qn, on), on, bn)'
      BY <2>1, <2>13, RequeueFlows
    <3> QED
      BY <3>1, Flows
  <2>14. CASE WorkerProceed
    <3>1. Flowing(s, f, r, a, qn, on, bn)'
      BY <2>1, <2>14, ProceedFlows
    <3> QED
      BY <3>1, Flows
  <2>15. CASE WorkerRead /\ ~failed
    <3>1. Flowing(s, f + 1, r, a, qn, on, bn)'
      BY <2>1, <2>15, ReadFlows
    <3> QED
      BY <3>1, Flows
  <2>16. CASE WorkerPost
    <3>1. Flowing(s, f, r, a, qn, on, Append(bn, on))'
      BY <2>1, <2>16, PostFlows
    <3> QED
      BY <3>1, Flows
  <2>17. CASE Stop
    <3>1. Flowing(s, f, r, a, qn, on, bn)'
      BY <2>1, <2>17, StopFlows
    <3> QED
      BY <3>1, Flows
  <2>18. CASE ReadDirect
    <3>1. PICK c : Flowing(s + 1, f, r, c, Append(qn, s), on, bn)'
      BY <2>1, <2>18, ReadDirectFlows
    <3> QED
      BY <3>1, Flows
  <2>19. CASE \/ AdvanceDirect
              \/ AdvancePrefetch
              \/ CallbackReturns
              \/ Prefetch /\ ~MayPrefetch
    <3>1. Flowing(s, f, r, a, qn, on, bn)'
      BY <2>1, <2>19, CalmFlows
    <3> QED
      BY <3>1, Flows
  <2>20. CASE /\ RunDirect \/ RunPrefetch \/ RunPrefetchAhead
              /\ ~HasData(Head(io_))
    <3>1. Drained'
      BY <2>1, <2>20, StoppedRuns
    <3> QED
      BY <3>1 DEF FlowInv
  <2>21. CASE WorkerRead /\ failed
    <3>1. Broken'
      BY <2>1, <2>21, ReadBreaks
    <3> QED
      BY <3>1 DEF FlowInv
  <2>22. CASE WorkerFinish
    <3>1. CASE Broken'
      BY <3>1 DEF FlowInv
    <3>2. CASE Flowing(s, f, r, a, qn, on, bn)'
      BY <3>2, Flows
    <3> QED
      BY <2>1, <2>22, <3>1, <3>2, FinishFlows
  <2>23. CASE UNCHANGED vars \/ \E n \in Resizes : Resize(n)
    <3>1. UNCHANGED <<mpc, within, pos_to_schedule, n_enqueued, swapped, q_handlers, q_buf_ready,
                      next, size, hot, bytes_read_, failed, wpc, op, file_size, stopped,
                      q_as_read_data, io_>>
      BY <2>23 DEF vars, Resize, mainVars, halfVars, workerVars, givenVars
    <3>2. Flowing(s, f, r, a, qn, on, bn)'
      BY <2>1, <3>1, SameFlows
    <3> QED
      BY <3>2, Flows
  <2>24. CASE Call
    BY <2>2, <2>3, <2>4, <2>18, <2>24, Zenon DEF Call
  <2>25. CASE RunDirect \/ RunPrefetch \/ RunPrefetchAhead
    BY <2>8, <2>9, <2>10, <2>20, <2>25, Zenon
  <2>26. CASE Main
    <3>1. CASE Prefetch
      BY <2>6, <2>19, <3>1
    <3>2. CASE AdvanceDirect \/ AdvancePrefetch \/ CallbackReturns
      BY <2>19, <3>2
    <3> QED
      BY <2>5, <2>7, <2>25, <2>26, <3>1, <3>2 DEF Main
  <2>27. CASE Worker
    BY <2>11, <2>12, <2>13, <2>14, <2>15, <2>16, <2>21, <2>22, <2>27, Zenon DEF Worker
  <2> QED
    BY <2>17, <2>23, <2>24, <2>26, <2>27, Zenon DEF Next
<1> QED
  BY <1>1, <1>2, <1>3 DEF FlowInv

\* Nothing was scheduled at the beginning.
LEMMA InitFlowing ==
  ASSUME Init
  PROVE  \E a \in [Nat -> Nat], e \in Seq(Nat) : Flowing(0, 0, 0, a, e, 0, e)
<1> DEFINE a == [k \in Nat |-> 0]
           e == <<>>
<1>1. a \in [Nat -> Nat] /\ e \in Seq(Nat) /\ Len(e) = 0 /\ \A k \in Nat : a[k] = 0
  OBVIOUS
<1>2. Ready = 0 /\ Len(io_) = 0 /\ Len(q_as_read_data) = 0 /\ Len(q_handlers) = 0
  BY DEF Init, Ready
<1>3. ~Made /\ ~Waits /\ ~Scheduling /\ wpc = "pop" /\ mpc = "idle" /\ HalfOf(0) = 0
  BY DEF Init, Made, Waits, Scheduling, HalfOf
<1>4. 0..(0 - 1) = {} /\ 1..0 = {} /\ (0 - 0)..(0 - 1) = {}
  OBVIOUS
<1> HIDE DEF a, e
<1>5. NumberInv(0, 0, 0, a, e, 0, e)
  BY <1>1, <1>2 DEF NumberInv
<1>6. KindInv(0, a)
  <2>1. \A k \in 0..0 : a[k] = 0
    BY <1>1
  <2> QED
    BY <1>4, <2>1 DEF KindInv
<1>7. EnqueuedInv(0, 0, a)
  BY <1>1, <1>2, <1>3 DEF Init, EnqueuedInv
<1>8. DirectInv(0, 0, a) /\ ReadyInv(0, 0, a)
  BY <1>2, <1>3, <1>4 DEF DirectInv, ReadyInv
<1>9. ScheduleInv(0, 0)
  <2>1. Front = 0
    BY <1>3 DEF Front, Init
  <2> QED
    BY <1>3, <2>1, Begins DEF Init, ScheduleInv
<1>10. DueInv(0, 0, a, e, 0) /\ MadeInv(0, 0, a, 0, e) /\ StoppedInv(0, 0, a, 0, e)
  BY <1>1, <1>2, <1>3, <1>4 DEF Init, DueInv, MadeInv, StoppedInv
<1>11. WindowInv(0, 0)
  <2>1. \A b \in Buffers : ~hot[b]
    BY DEF Init
  <2> QED
    BY <1>2, <1>3, <1>4, <2>1 DEF WindowInv
<1>12. Flowing(0, 0, 0, a, e, 0, e)
  BY <1>3, <1>5, <1>6, <1>7, <1>8, <1>9, <1>10, <1>11 DEF Flowing
<1> QED
  BY <1>1, <1>12

\* The reads are in their order, and the file has its size, at the beginning.
LEMMA InitFlow == Init => EndInv /\ FlowInv
<1> SUFFICES ASSUME Init PROVE EndInv /\ FlowInv
  OBVIOUS
<1>1. EndInv
  <2>1. file_size \in Nat
    BY ChunkedReaderAssumption DEF Init
  <2> QED
    BY <2>1 DEF Init, EndInv
<1>2. PICK a \in [Nat -> Nat], e \in Seq(Nat) : Flowing(0, 0, 0, a, e, 0, e)
  BY InitFlowing
<1>3. 0 \in Nat
  OBVIOUS
<1>4. \E s, f, r, on \in Nat, c \in [Nat -> Nat], qn, bn \in Seq(Nat) :
        Flowing(s, f, r, c, qn, on, bn)
  BY <1>2, <1>3, Zenon
<1> QED
  BY <1>1, <1>4 DEF FlowInv

\* A half being filled is not one whose data is on its way.
LEMMA FlowingApart ==
  ASSUME NEW s, NEW f, NEW r, NEW a, NEW qn, NEW on, NEW bn,
         TypeOK, Flowing(s, f, r, a, qn, on, bn)
  PROVE  HalfNotOverwritten
<1> USE DEF Flowing
<1>1. SUFFICES ASSUME wpc \in {"read", "finish"}
               PROVE  /\ \A i \in 1..Len(io_) : "buf" \in DOMAIN io_[i] => io_[i].buf # op.buf
                      /\ \A i \in 1..Len(q_buf_ready) : q_buf_ready[i] # op.buf
  BY DEF HalfNotOverwritten
<1>2. /\ f \in Nat /\ r \in Nat /\ r <= f /\ Ready <= r /\ Len(bn) = Len(io_)
      /\ \A i \in 1..Len(bn) : bn[i] \in Nat
  <2>1. f \in Nat /\ r \in Nat /\ r <= f /\ Ready <= r /\ Len(bn) = Len(io_) /\ bn \in Seq(Nat)
    BY DEF NumberInv
  <2> QED
    BY <2>1
<1>3. Ready \in Nat
  BY DEF TypeOK, Ready
\* The read the worker performs is the first that is not made, or the last that is.
<1>4. PICK k \in Nat : /\ op.buf = HalfOf(k) /\ (k = f \/ k = f - 1) /\ r <= k /\ k + Ready <= r + 1
                       /\ \A i \in 1..Len(bn) : IsRead(io_[i]) /\ HasData(io_[i]) =>
                            bn[i] \in r..(f - 1) /\ bn[i] # k
  <2>1. CASE wpc = "read"
    <3>1. f + Ready <= r + 1
      BY <2>1 DEF WindowInv
    <3>2. on = f /\ Numbered(op, on, a)
      BY <2>1 DEF DueInv, Waits, Awaits
    <3>3. op.buf = HalfOf(f)
      BY <3>2 DEF Numbered
    <3>4. \A i \in 1..Len(bn) : IsRead(io_[i]) /\ HasData(io_[i]) => bn[i] \in r..(f - 1)
      BY DEF MadeInv
    <3>5. \A n \in r..(f - 1) : n # f
      BY <1>2
    <3> QED
      BY <1>2, <3>1, <3>3, <3>4, <3>5
  <2>2. CASE wpc = "finish"
    <3>1. f + Ready <= r + 2
      BY <2>2 DEF WindowInv
    <3>2. Made
      BY <2>2 DEF Made
    <3>3. r < f /\ on = f - 1 /\ Numbered(op, on, a)
      BY <3>2 DEF MadeInv
    <3>4. op.buf = HalfOf(f - 1)
      BY <3>3 DEF Numbered
    <3>5. \A i \in 1..Len(bn) : IsRead(io_[i]) /\ HasData(io_[i]) =>
            bn[i] \in r..(f - 1) /\ bn[i] # f - 1
      BY <3>2, <3>3 DEF MadeInv
    <3>6. f - 1 \in Nat /\ r <= f - 1 /\ (f - 1) + Ready <= r + 1
      <4>1. r < f
        BY <3>3
      <4> QED
        BY <1>2, <1>3, <3>1, <4>1
    <3> QED
      BY <3>4, <3>5, <3>6
  <2> QED
    BY <1>1, <2>1, <2>2
<1>5. \A i \in 1..Len(io_) : IsRead(io_[i]) => HasData(io_[i])
  BY <1>1, <1>2 DEF StoppedInv, Made
<1>6. \A n \in Nat : r <= n /\ n <= f - 1 /\ n # k => HalfOf(n) # HalfOf(k)
  <2>1. \A n \in Nat : r <= n /\ n <= f - 1 /\ n # k => n = k - 1 \/ n = k + 1
    BY <1>2, <1>3, <1>4
  <2>2. \A n \in Nat : n = k + 1 => HalfOf(n) # HalfOf(k)
    BY Halves
  <2>3. \A n \in Nat : n = k - 1 => HalfOf(n) # HalfOf(k)
    <3>1. \A n \in Nat : n = k - 1 => k = n + 1
      BY <1>4
    <3> QED
      BY <3>1, Halves
  <2> QED
    BY <2>1, <2>2, <2>3
<1>7. ASSUME NEW i \in 1..Len(io_), "buf" \in DOMAIN io_[i]
      PROVE  io_[i].buf # op.buf
  <2>1. IsRead(io_[i])
    <3>1. io_[i] \in Reads \cup Bound
      BY SMTT(20) DEF TypeOK, Bound
    <3>2. \A x \in Bound : "buf" \notin DOMAIN x
      BY DEF Bound
    <3> QED
      BY <1>7, <3>1, <3>2, HandlerKinds DEF IsRead
  <2>2. HasData(io_[i]) /\ i \in 1..Len(bn)
    BY <1>2, <1>5, <2>1
  <2>3. bn[i] \in r..(f - 1) /\ bn[i] # k /\ bn[i] \in Nat
    BY <1>2, <1>4, <2>1, <2>2
  <2>4. Numbered(io_[i], bn[i], a)
    BY <2>1, <2>2 DEF MadeInv
  <2>5. io_[i].buf = HalfOf(bn[i])
    BY <2>4 DEF Numbered
  <2>6. PICK n : n = bn[i]
    OBVIOUS
  <2>7. n \in Nat /\ r <= n /\ n <= f - 1 /\ n # k
    BY <1>2, <2>3, <2>6
  <2> QED
    BY <1>4, <1>6, <2>5, <2>6, <2>7
<1>8. ASSUME NEW i \in 1..Len(q_buf_ready)
      PROVE  q_buf_ready[i] # op.buf
  <2>1. i \in 1..Ready /\ i \in Nat
    BY DEF Ready
  <2>2. q_buf_ready[i] = HalfOf(r - Ready + i - 1)
    BY <2>1 DEF ReadyInv
  <2>3. r - Ready + i - 1 \in Nat /\ r - Ready + i - 1 = k - 1
    BY <1>2, <1>3, <1>4, <2>1
  <2>4. \A n \in Nat : n = k - 1 => HalfOf(n) # HalfOf(k)
    <3>1. \A n \in Nat : n = k - 1 => k = n + 1
      BY <1>4
    <3> QED
      BY <3>1, Halves
  <2> QED
    BY <1>4, <2>2, <2>3, <2>4
<1> QED
  BY <1>7, <1>8

\* A half being filled is never one that is ready or whose read has been made.
LEMMA FlowApart == TypeOK /\ FlowInv => HalfNotOverwritten
<1>1. ASSUME TypeOK, Broken \/ Drained PROVE HalfNotOverwritten
  BY <1>1 DEF Broken, Drained, HalfNotOverwritten
<1> QED
  BY <1>1, FlowingApart DEF FlowInv

\* While nothing disturbs the reader the reads flow.
LEMMA FlowAsserts == TypeOK /\ FlowInv => AssertionsHoldUndisturbed
<1>1. ASSUME Broken \/ Drained PROVE ~Undisturbed
  BY <1>1 DEF Broken, Drained, Undisturbed
<1>2. ASSUME NEW s, NEW f, NEW r, NEW a, NEW qn, NEW on, NEW bn,
             Flowing(s, f, r, a, qn, on, bn)
      PROVE  AssertionsHold
  BY <1>2 DEF Flowing, AssertionsHold
<1> QED
  BY <1>1, <1>2 DEF FlowInv, AssertionsHoldUndisturbed

-----------------------------------------------------------------------------
(* What was read.                                                          *)

\* What is in io_ after a step was there, or was posted by that step.
LEMMA PostedBy ==
  ASSUME TypeOK, [Next]_vars
  PROVE  \A i \in 1..Len(io_') :
           \/ \E j \in 1..Len(io_) : io_'[i] = io_[j]
           \/ WorkerPost /\ io_'[i] = op
           \/ EndOfFile /\ io_'[i] = [call |-> calls + 1,
                                      answer |-> Answer(0, 0, "end_of_file")]
           \/ PostReady /\ io_'[i] = [call |-> calls, answer |-> [copy EXCEPT !.ec = bec[next]]]
<1>0. io_ \in Seq(Reads \cup Bound)
  BY DEF TypeOK, Bound
<1>1. ASSUME NEW x, io_' = Append(io_, x)
      PROVE  \A i \in 1..Len(io_') : io_'[i] = x \/ \E j \in 1..Len(io_) : io_'[i] = io_[j]
  <2>1. /\ Len(io_) \in Nat /\ Len(io_') = Len(io_) + 1
        /\ \A i \in 1..Len(io_) : io_'[i] = io_[i]
        /\ io_'[Len(io_) + 1] = x
    BY <1>0, <1>1, AppendIndices
  <2>2. \A i \in 1..Len(io_') : i \in 1..Len(io_) \/ i = Len(io_) + 1
    BY <2>1
  <2> QED
    BY <2>1, <2>2
<1>2. CASE io_ # <<>> /\ io_' = Tail(io_)
  BY <1>0, <1>2, TailIndices
<1>3. CASE UNCHANGED io_
  BY <1>3
<1>4. CASE WorkerPost
  BY <1>1, <1>4 DEF WorkerPost
<1>5. CASE EndOfFile
  BY <1>1, <1>5 DEF EndOfFile
<1>6. CASE PostReady
  BY <1>1, <1>6 DEF PostReady
<1>7. CASE RunBound \/ RunDirect \/ RunPrefetch \/ RunPrefetchAhead
  <2>1. io_ # <<>> /\ io_' = Tail(io_)
    BY <1>7 DEF RunBound, RunDirect, RunPrefetch, RunPrefetchAhead, Running
  <2> QED
    BY <1>2, <2>1
<1>8. CASE \/ TakeReady \/ QueueHandler \/ ReadDirect \/ AdvanceDirect \/ Prefetch
           \/ AdvancePrefetch \/ CallbackReturns
  <2>1. UNCHANGED io_
    BY <1>8 DEF TakeReady, QueueHandler, ReadDirect, AdvanceDirect, Prefetch, AdvancePrefetch,
                CallbackReturns
  <2> QED
    BY <1>3, <2>1
<1>9. CASE \/ WorkerPop \/ WorkerStopped \/ WorkerRequeue \/ WorkerProceed \/ WorkerRead
           \/ WorkerFinish \/ UNCHANGED vars \/ Stop \/ \E n \in Resizes : Resize(n)
  <2>1. UNCHANGED io_
    BY <1>9 DEF WorkerPop, WorkerStopped, WorkerRequeue, WorkerProceed, WorkerRead, WorkerFinish,
                vars, Stop, Resize
  <2> QED
    BY <1>3, <2>1
<1> QED
  BY <1>4, <1>5, <1>6, <1>7, <1>8, <1>9 DEF Next, Call, Main, Worker

\* The handler of a read that was not made finds no half hot, but for the one that keeps the
\* half for the next call.
LEMMA DeadFindsReleased ==
  ASSUME TypeOK, FlowInv, ~resized, RunDirect \/ RunPrefetch, ~HasData(Head(io_))
  PROVE  \A b \in Buffers : ~hot[b]
<1>1. /\ mpc = "idle" /\ io_ # <<>> /\ IsRead(Head(io_)) /\ io_ \in Seq(Reads \cup Bound)
      /\ q_handlers # <<>> \/ Head(io_).call # None
  BY DEF RunDirect, RunPrefetch, Running, IsRead, TypeOK, Bound
<1>2. Head(io_) = io_[1] /\ 1 \in 1..Len(io_)
  BY <1>1, TailIndices
<1>3. CASE Drained
  BY <1>1, <1>2, <1>3 DEF Drained
<1>4. ASSUME NEW s, NEW f, NEW r, NEW a, NEW qn, NEW on, NEW bn,
             Flowing(s, f, r, a, qn, on, bn)
      PROVE  \A b \in Buffers : ~hot[b]
  <2> USE <1>4 DEF Flowing
  <2>1. s \in Nat /\ f \in Nat /\ r \in Nat /\ r <= f /\ f <= s /\ Len(bn) = Len(io_)
    BY DEF NumberInv
  <2>2. a \in [Nat -> Nat]
    BY DEF NumberInv
  <2>3. /\ ~Made /\ bn[1] \in f..(s - 1) /\ Numbered(io_[1], bn[1], a)
        /\ \A j \in 1..Len(bn) : 1 < j /\ IsRead(io_[j]) => ~HasData(io_[j])
    BY <1>1, <1>2, <2>1 DEF StoppedInv
  <2>4. \A i \in 1..Len(bn) : IsRead(io_[i]) => ~HasData(io_[i])
    <3>1. \A i \in 1..Len(bn) : i = 1 \/ 1 < i
      OBVIOUS
    <3> QED
      BY <1>2, <2>3, <3>1
  <2>5. ~(r < f)
    <3>1. ASSUME r < f PROVE r \in r..(f - 1)
      BY <2>1, <3>1
    <3> QED
      BY <2>3, <2>4, <3>1 DEF MadeInv
  <2>6. Ready \in Nat
    BY DEF Ready, TypeOK
  <2>7. ~(Ready > 0)
    <3> SUFFICES ASSUME Ready > 0 PROVE FALSE
      OBVIOUS
    <3>1. q_handlers = <<>> /\ \A k \in r..(s - 1) : a[k + 1] = a[k] + 1
      BY DEF ReadyInv
    <3>2. PICK n : n = bn[1]
      OBVIOUS
    <3>3. n \in f..(s - 1)
      BY <2>3, <3>2
    <3>4. n \in Nat /\ n \in r..(s - 1)
      BY <2>1, <3>3
    <3>5. a[n] \in Nat /\ a[n + 1] = a[n] + 1
      BY <2>2, <3>1, <3>4
    <3>6. a[n + 1] # a[n]
      BY <3>5
    <3>7. io_[1].call = None
      BY <2>3, <3>2, <3>6 DEF Numbered
    <3> QED
      BY <1>1, <1>2, <3>1, <3>7
  <2>8. (r - Ready)..(f - 1) = {}
    BY <2>1, <2>5, <2>6, <2>7
  <2> QED
    BY <2>8 DEF WindowInv
<1> QED
  BY <1>3, <1>4 DEF FlowInv, Broken

\* No step changes the size the reader found.
LEMMA SizeFound ==
  ASSUME [Next]_vars
  PROVE  file_size' = file_size /\ (~resized' => ~resized)
<1>1. CASE Call \/ Main
  BY <1>1 DEF Call, Main, givenVars,
         TakeReady, QueueHandler, EndOfFile, ReadDirect, PostReady, AdvanceDirect, Prefetch,
         AdvancePrefetch, CallbackReturns, RunBound, RunDirect, RunPrefetch, RunPrefetchAhead
<1>2. CASE Worker
  BY <1>2 DEF Worker, givenVars, WorkerPop, WorkerStopped, WorkerRequeue, WorkerProceed,
         WorkerRead, WorkerFinish, WorkerPost
<1>3. CASE Stop \/ UNCHANGED vars \/ \E n \in Resizes : Resize(n)
  BY <1>3 DEF Stop, vars, givenVars, Resize
<1> QED
  BY <1>1, <1>2, <1>3 DEF Next

\* What a read leaves in its half, as long as the file keeps its size.
LEMMA ReadExact ==
  ASSUME TypeOK, StageTypes, ReadInv, EndInv, FlowInv, ~resized, WorkerRead, ~failed
  PROVE  /\ op.buf \in Buffers /\ op.pos \in Nat /\ ~hot[op.buf]
         /\ \E n \in Nat : /\ size' = [size EXCEPT ![op.buf] = n]
                           /\ start' = [start EXCEPT ![op.buf] = op.pos]
                           /\ bytes_read_' = op.pos + n
                           /\ Exact(op.pos, n)
<1>1. /\ wpc = "read" /\ op \in Reads /\ bytes_read_ = op.pos /\ ~hot[op.buf]
  BY DEF WorkerRead, StageTypes, Holding, ReadInv
<1>2. op.buf \in Buffers /\ op.pos \in Nat
  BY <1>1, ReadTypes
<1>3. ChunkSize \in Nat /\ file_size \in Nat /\ actual = file_size
  BY ChunkedReaderAssumption DEF TypeOK, EndInv
<1>4. /\ \E k \in Nat : op.pos = Begin(k)
      /\ op.pos < file_size /\ size[op.buf] = ChunkSize
  <2>1. ~Broken /\ ~Drained
    BY <1>1 DEF Broken, Drained
  <2>2. PICK s, f, r, on \in Nat, a \in [Nat -> Nat], qn, bn \in Seq(Nat) :
               Flowing(s, f, r, a, qn, on, bn)
    BY <2>1 DEF FlowInv
  <2>3. Awaits(op, on, s, f, a) /\ on = f
    BY <1>1, <2>2 DEF Flowing, DueInv, Waits
  <2>4. op.pos = Begin(on) /\ op.pos < file_size
    BY <2>3 DEF Awaits
  <2>5. size[op.buf] = ChunkSize
    BY <1>2, <2>2 DEF Flowing, ScheduleInv
  <2> QED
    BY <2>2, <2>4, <2>5
<1>5. PICK p : p = op.pos
  OBVIOUS
<1>6. PICK n : n = Stream!Least(ChunkSize, IF file_size < p THEN 0 ELSE file_size - p)
  OBVIOUS
<1>7. p \in Nat /\ p < file_size /\ bytes_read_ = p
  BY <1>1, <1>2, <1>4, <1>5
<1>8. n \in Nat /\ p + n <= file_size /\ (n = ChunkSize \/ (n < ChunkSize /\ p + n = file_size))
  <2>1. n = IF ChunkSize < file_size - p THEN ChunkSize ELSE file_size - p
    BY <1>3, <1>6, <1>7 DEF Stream!Least
  <2> QED
    BY <1>3, <1>7, <2>1
<1>9. Exact(p, n)
  BY <1>4, <1>5, <1>8 DEF Exact
<1>10. /\ size' = [size EXCEPT ![op.buf] = n]
       /\ start' = [start EXCEPT ![op.buf] = op.pos]
       /\ bytes_read_' = bytes_read_ + n
  BY <1>3, <1>4, <1>5, <1>6 DEF WorkerRead
<1> QED
  BY <1>1, <1>2, <1>5, <1>7, <1>8, <1>9, <1>10

\* The code of a chunk says whether it is the last of the file.
LEMMA CodeExact ==
  ASSUME EndInv, ~resized
  PROVE  CodeRead = CodeAt(bytes_read_)
BY DEF EndInv, CodeRead, CodeAt

\* The halves keep holding chunks.
LEMMA HalvesStep ==
  ASSUME TypeOK, StageTypes, ReadInv, EndInv, FlowInv, HalvesExact, ~resized, [Next]_vars
  PROVE  HalvesExact'
<1>0. file_size' = file_size /\ \A p, n : Exact(p, n)' = Exact(p, n) /\ CodeAt(p)' = CodeAt(p)
  BY SizeFound DEF Exact, CodeAt
<1>1. CASE /\ UNCHANGED <<size, start, bec, bytes_read_, op>>
           /\ \A b \in Buffers : hot'[b] => hot[b]
           /\ wpc' = "finish" => wpc = "finish"
  BY <1>0, <1>1 DEF HalvesExact
<1>2. CASE Call \/ Main
  <2>1. UNCHANGED <<size, start, bec, bytes_read_, op, wpc>>
    BY <1>2 DEF Call, Main, halfVars, workerVars,
         TakeReady, QueueHandler, EndOfFile, ReadDirect, PostReady, AdvanceDirect, Prefetch,
         AdvancePrefetch, CallbackReturns, RunBound, RunDirect, RunPrefetch, RunPrefetchAhead
  <2>2. hot' = hot \/ \E c : hot' = [hot EXCEPT ![c] = FALSE]
    BY <1>2 DEF Call, Main, halfVars, HandOver,
         TakeReady, QueueHandler, EndOfFile, ReadDirect, PostReady, AdvanceDirect, Prefetch,
         AdvancePrefetch, CallbackReturns, RunBound, RunDirect, RunPrefetch, RunPrefetchAhead
  <2>3. \A b \in Buffers : hot'[b] => hot[b]
    BY <2>2 DEF TypeOK
  <2> QED
    BY <1>1, <2>1, <2>3
<1>3. CASE Stop \/ UNCHANGED vars \/ \E n \in Resizes : Resize(n)
  <2>1. UNCHANGED <<size, start, bec, bytes_read_, op, wpc, hot>>
    BY <1>3 DEF Stop, vars, Resize, halfVars, workerVars
  <2> QED
    BY <1>1, <2>1
<1>4. CASE \/ WorkerPop \/ WorkerStopped \/ WorkerRequeue \/ WorkerProceed \/ WorkerPost
           \/ WorkerRead /\ failed
  <2>1. UNCHANGED <<size, start, bec, bytes_read_, hot>> /\ wpc' # "finish"
    BY <1>4 DEF WorkerPop, WorkerStopped, WorkerRequeue, WorkerProceed, WorkerPost, WorkerRead,
         halfVars
  <2> QED
    BY <1>0, <2>1 DEF HalvesExact
<1>5. CASE WorkerRead /\ ~failed
  <2>1. PICK n \in Nat : /\ size' = [size EXCEPT ![op.buf] = n]
                         /\ start' = [start EXCEPT ![op.buf] = op.pos]
                         /\ bytes_read_' = op.pos + n
                         /\ Exact(op.pos, n)
    BY <1>5, ReadExact
  <2>2. op.buf \in Buffers /\ ~hot[op.buf]
    BY <1>5, ReadExact
  <2>3. op' = op /\ hot' = hot /\ bec' = bec
    BY <1>5 DEF WorkerRead
  <2>4. /\ size'[op.buf] = n /\ start'[op.buf] = op.pos
        /\ \A b \in Buffers : b # op.buf => size'[b] = size[b] /\ start'[b] = start[b]
    BY <2>1, <2>2 DEF TypeOK
  <2>5. \A b \in Buffers : hot'[b] =>
          Exact(start'[b], size'[b]) /\ bec'[b] = CodeAt(start'[b] + size'[b])
    <3>1. \A b \in Buffers : hot'[b] =>
            hot[b] /\ size'[b] = size[b] /\ start'[b] = start[b] /\ bec'[b] = bec[b]
      BY <2>2, <2>3, <2>4
    <3> QED
      BY <3>1 DEF HalvesExact
  <2>6. Exact(start'[op'.buf], size'[op'.buf]) /\ bytes_read_' = start'[op'.buf] + size'[op'.buf]
    BY <2>1, <2>3, <2>4
  <2> QED
    BY <1>0, <2>5, <2>6 DEF HalvesExact
<1>6. CASE WorkerFinish
  <2>1. /\ wpc = "finish" /\ op \in Reads /\ hot' = [hot EXCEPT ![op.buf] = TRUE]
        /\ UNCHANGED <<size, start, bytes_read_>>
    BY <1>6 DEF WorkerFinish, StageTypes, Holding
  <2>2. op.buf \in Buffers
    BY <2>1, ReadTypes
  <2>3. ~(bytes_read_ > file_size)
    BY DEF EndInv, TypeOK
  <2>4. bec' = [bec EXCEPT ![op.buf] = CodeRead] /\ wpc' = "post"
    BY <1>6, <2>3 DEF WorkerFinish
  <2>5. /\ Exact(start[op.buf], size[op.buf])
        /\ CodeRead = CodeAt(start[op.buf] + size[op.buf])
    BY <2>1, CodeExact DEF HalvesExact
  <2>6. \A b \in Buffers : hot'[b] =>
          Exact(start[b], size[b]) /\ bec'[b] = CodeAt(start[b] + size[b])
    <3>1. ASSUME NEW b \in Buffers, b # op.buf
          PROVE  hot'[b] = hot[b] /\ bec'[b] = bec[b]
      BY <2>1, <2>4, <3>1 DEF TypeOK
    <3>2. bec'[op.buf] = CodeRead
      BY <2>2, <2>4 DEF TypeOK
    <3> QED
      BY <2>5, <3>1, <3>2 DEF HalvesExact
  <2> QED
    BY <1>0, <2>1, <2>4, <2>6 DEF HalvesExact
<1> QED
  BY <1>2, <1>3, <1>4, <1>5, <1>6 DEF Next, Worker

\* The handlers of the reads keep the code of their halves: a half that gets another has none.
LEMMA CodesStep ==
  ASSUME TypeOK, StageTypes, EndInv, HalfNotOverwritten, CodesExact, ~resized, [Next]_vars
  PROVE  CodesExact'
<1>0. io_ \in Seq(Reads \cup Bound) /\ \A i \in 1..Len(io_) : io_[i] \in Reads \cup Bound
  BY DEF TypeOK, Bound
<1>1. \A i \in 1..Len(io_) : IsRead(io_[i]) /\ HasData(io_[i]) => io_[i].ec = bec[io_[i].buf]
  BY DEF CodesExact
<1>2. CASE WorkerPost
  <2>1. wpc = "post" /\ wpc' = "pop" /\ bec' = bec
    BY <1>2 DEF WorkerPost, halfVars
  <2>2. \A i \in 1..Len(io_') : io_'[i] = op \/ \E j \in 1..Len(io_) : io_'[i] = io_[j]
    BY <1>2, PostedBy DEF WorkerPost, EndOfFile, PostReady, workerVars
  <2>3. \A i \in 1..Len(io_') : IsRead(io_'[i]) /\ HasData(io_'[i]) => io_'[i].ec = bec[io_'[i].buf]
    BY <1>1, <2>1, <2>2 DEF CodesExact
  <2> QED
    BY <2>1, <2>3 DEF CodesExact, IsRead, HasData
<1>3. CASE WorkerFinish
  <2>1. /\ wpc = "finish" /\ op \in Reads /\ io_' = io_
    BY <1>3 DEF WorkerFinish, StageTypes, Holding
  <2>2. op.buf \in Buffers
    BY <2>1, ReadTypes
  <2>3. ~(bytes_read_ > file_size)
    BY DEF EndInv, TypeOK
  <2>4. /\ bec' = [bec EXCEPT ![op.buf] = CodeRead] /\ wpc' = "post"
        /\ op' = [op EXCEPT !.ec = CodeRead]
    BY <1>3, <2>3 DEF WorkerFinish
  <2>5. op'.ec = bec'[op'.buf]
    BY <2>1, <2>2, <2>4 DEF TypeOK, Reads
  <2>6. ASSUME NEW i \in 1..Len(io_), IsRead(io_[i]), HasData(io_[i])
        PROVE  io_[i].ec = bec'[io_[i].buf]
    <3>1. io_[i] \in Reads
      BY <1>0, <2>6, HandlerKinds DEF IsRead
    <3>2. "buf" \in DOMAIN io_[i] /\ io_[i].buf \in Buffers
      BY <3>1 DEF Reads
    <3>3. io_[i].buf # op.buf
      BY <2>1, <2>6, <3>2 DEF HalfNotOverwritten
    <3>4. bec'[io_[i].buf] = bec[io_[i].buf]
      BY <2>4, <3>2, <3>3 DEF TypeOK
    <3> QED
      BY <1>1, <2>6, <3>4
  <2> QED
    BY <2>1, <2>5, <2>6 DEF CodesExact, IsRead, HasData
<1>4. CASE ~WorkerPost /\ ~WorkerFinish
  <2>1. bec' = bec /\ (wpc' = "post" => \/ wpc = "post" /\ op' = op
                                        \/ ~HasData(op)')
    <3>1. CASE Call \/ Main
      BY <3>1 DEF Call, Main, halfVars, workerVars,
         TakeReady, QueueHandler, EndOfFile, ReadDirect, PostReady, AdvanceDirect, Prefetch,
         AdvancePrefetch, CallbackReturns, RunBound, RunDirect, RunPrefetch, RunPrefetchAhead
    <3>2. CASE Stop \/ UNCHANGED vars \/ \E n \in Resizes : Resize(n)
      BY <3>2 DEF Stop, vars, Resize, halfVars, workerVars
    <3>3. CASE WorkerPop \/ WorkerRequeue \/ WorkerProceed
      BY <3>3 DEF WorkerPop, WorkerRequeue, WorkerProceed, halfVars
    <3>4. CASE WorkerStopped \/ WorkerRead
      <4>1. op \in Reads
        BY <3>4 DEF WorkerStopped, WorkerRead, StageTypes, Holding
      <4>2. bec' = bec
        BY <3>4 DEF WorkerStopped, WorkerRead, halfVars
      <4>3. wpc' = "post" => \/ op' = [op EXCEPT !.ec = "stopped"]
                             \/ op' = [op EXCEPT !.ec = "read_failure"]
        BY <3>4 DEF WorkerStopped, WorkerRead
      <4>4. wpc' = "post" => op'.ec \in {"stopped", "read_failure"}
        BY <4>1, <4>3 DEF Reads
      <4> QED
        BY <4>2, <4>4 DEF HasData
    <3> QED
      BY <1>4, <3>1, <3>2, <3>3, <3>4 DEF Next, Worker
  <2>2. \A i \in 1..Len(io_') : IsRead(io_'[i]) => \E j \in 1..Len(io_) : io_'[i] = io_[j]
    BY <1>4, PostedBy DEF IsRead
  <2>3. \A i \in 1..Len(io_') : IsRead(io_'[i]) /\ HasData(io_'[i]) => io_'[i].ec = bec[io_'[i].buf]
    BY <1>1, <2>2
  <2> QED
    BY <2>1, <2>3 DEF CodesExact, IsRead, HasData
<1> QED
  BY <1>2, <1>3, <1>4

\* The half whose copy is about to be posted is not the one being filled.
LEMMA TakenStep ==
  ASSUME TypeOK, StageTypes, FlowInv, HalfNotOverwritten, HalvesExact, TakenExact, ~resized,
         [Next]_vars
  PROVE  TakenExact'
<1>0. file_size' = file_size /\ \A p, n : Exact(p, n)' = Exact(p, n) /\ CodeAt(p)' = CodeAt(p)
  BY SizeFound DEF Exact, CodeAt
<1>1. CASE UNCHANGED <<mpc, copy, next, bec>> \/ mpc' # "taken"
  BY <1>0, <1>1 DEF TakenExact
<1>2. CASE TakeReady
  <2>1. mpc' = "taken" =>
          \E b \in Buffers : /\ hot[b] /\ next' = b /\ copy' = Answer(start[b], size[b], None)
    BY <1>2, SMTT(20) DEF TakeReady, TypeOK
  <2>2. bec' = bec
    BY <1>2 DEF TakeReady
  <2> QED
    BY <1>0, <2>1, <2>2 DEF TakenExact, HalvesExact, Answer
<1>3. CASE Stop \/ UNCHANGED vars \/ \E n \in Resizes : Resize(n)
  BY <1>1, <1>3 DEF Stop, vars, Resize, mainVars, halfVars
<1>4. CASE (Call /\ ~TakeReady) \/ Main
  <2>1. mpc' # "taken"
    <3>1. CASE QueueHandler \/ EndOfFile \/ ReadDirect
      BY <3>1 DEF QueueHandler, EndOfFile, ReadDirect, MayCall
    <3>2. CASE PostReady \/ AdvanceDirect \/ Prefetch \/ AdvancePrefetch \/ CallbackReturns
      BY <3>2 DEF PostReady, AdvanceDirect, Prefetch, AdvancePrefetch, CallbackReturns
    <3>3. CASE RunBound \/ RunDirect \/ RunPrefetch \/ RunPrefetchAhead
      BY <3>3 DEF RunBound, RunDirect, RunPrefetch, RunPrefetchAhead, Running, HandOver, Enter
    <3> QED
      BY <1>4, <3>1, <3>2, <3>3 DEF Call, Main
  <2> QED
    BY <1>1, <2>1
<1>5. CASE Worker /\ ~WorkerFinish
  <2>1. UNCHANGED <<mpc, copy, next, bec>>
    BY <1>5 DEF Worker, WorkerPop, WorkerStopped, WorkerRequeue, WorkerProceed, WorkerRead,
         WorkerPost, mainVars, halfVars
  <2> QED
    BY <1>1, <2>1
<1>6. CASE WorkerFinish /\ mpc = "taken"
  <2>1. /\ wpc = "finish" /\ UNCHANGED <<mpc, copy, next>>
        /\ bec' = bec \/ bec' = [bec EXCEPT ![op.buf] = CodeRead]
    BY <1>6 DEF WorkerFinish, mainVars
  <2>2. ~Broken /\ ~Drained
    BY <2>1 DEF Broken, Drained
  <2>3. Ready > 0 /\ next = q_buf_ready[1]
    <3>1. PICK s, f, r, on \in Nat, a \in [Nat -> Nat], qn, bn \in Seq(Nat) :
                 Flowing(s, f, r, a, qn, on, bn)
      BY <2>2 DEF FlowInv
    <3>2. ReadyInv(s, r, a)
      BY <3>1 DEF Flowing
    <3> QED
      BY <1>6, <3>2 DEF ReadyInv
  <2>4. 1 \in 1..Len(q_buf_ready)
    BY <2>3 DEF Ready, TypeOK
  <2>5. next # op.buf
    BY <2>1, <2>3, <2>4 DEF HalfNotOverwritten
  <2>6. bec'[next] = bec[next]
    BY <2>1, <2>5 DEF TypeOK
  <2> QED
    BY <1>0, <1>6, <2>1, <2>6 DEF TakenExact
<1>7. CASE WorkerFinish /\ mpc # "taken"
  BY <1>1, <1>7 DEF WorkerFinish
<1> QED
  BY <1>2, <1>3, <1>4, <1>5, <1>6, <1>7 DEF Next

\* The answer a handler gives with a half it finds hot is a chunk.
LEMMA HandedExact ==
  ASSUME TypeOK, StageTypes, FlowInv, HalvesExact, CodesExact, AnswersExact, ~resized,
         NEW kind, NEW h \in Calls, Running(kind), kind # "bound", RunDirect \/ RunPrefetch,
         HandOver(kind, h, Head(io_).buf, Head(io_).ec)
  PROVE  \A i \in Calls : got'[i] # None => IsChunk(got'[i])
<1> DEFINE x == Head(io_)
<1>1. x \in Reads /\ IsRead(x) /\ io_ # <<>>
  BY RunningType DEF IsRead
<1>2. x = io_[1] /\ 1 \in 1..Len(io_) /\ x.buf \in Buffers
  BY <1>1, TailIndices, ReadTypes DEF TypeOK, Bound
<1> HIDE DEF x
<1>3. CASE ~hot[x.buf]
  BY <1>3 DEF HandOver, AnswersExact, x
<1>4. CASE hot[x.buf]
  <2>1. HasData(x)
    BY <1>2, <1>4, DeadFindsReleased DEF x
  <2>2. x.ec = bec[x.buf]
    BY <1>1, <1>2, <2>1 DEF CodesExact
  <2>3. Exact(start[x.buf], size[x.buf]) /\ x.ec = CodeAt(start[x.buf] + size[x.buf])
    BY <1>2, <1>4, <2>2 DEF HalvesExact
  <2>4. IsChunk(Answer(start[x.buf], size[x.buf], x.ec))
    BY <2>3 DEF IsChunk, Answer
  <2>5. got' = [got EXCEPT ![h] = Answer(start[x.buf], size[x.buf], x.ec)]
    BY <1>4 DEF HandOver, Enter, x
  <2>6. \A i \in Calls : got'[i] = got[i] \/ got'[i] = Answer(start[x.buf], size[x.buf], x.ec)
    BY <2>5 DEF TypeOK
  <2> QED
    BY <2>4, <2>6 DEF AnswersExact
<1> QED
  BY <1>3, <1>4

\* What is posted with its answer, or answered, is a chunk.
LEMMA AnswersStep ==
  ASSUME TypeOK, StageTypes, FlowInv, HalvesExact, CodesExact, TakenExact, AnswersExact,
         ~resized, [Next]_vars
  PROVE  AnswersExact'
<1>0. file_size' = file_size
  BY SizeFound
<1>1. \A i \in 1..Len(io_') : ~IsRead(io_'[i]) => IsChunk(io_'[i].answer)
  <2>1. ASSUME EndOfFile, NEW x, x = [call |-> calls + 1, answer |-> Answer(0, 0, "end_of_file")]
        PROVE  IsChunk(x.answer)
    BY <2>1 DEF IsChunk, Answer
  <2>2. ASSUME PostReady, NEW x, x = [call |-> calls, answer |-> [copy EXCEPT !.ec = bec[next]]]
        PROVE  IsChunk(x.answer)
    <3>1. mpc = "taken" /\ copy \in [pos : Nat, size : 0..ChunkSize, ec : {None}]
      BY <2>2 DEF PostReady, StageTypes
    <3>2. Exact(copy.pos, copy.size) /\ bec[next] = CodeAt(copy.pos + copy.size)
      BY <3>1 DEF TakenExact
    <3>3. x.answer.pos = copy.pos /\ x.answer.size = copy.size /\ x.answer.ec = bec[next]
      BY <2>2, <3>1
    <3> QED
      BY <3>2, <3>3 DEF IsChunk
  <2>3. WorkerPost => IsRead(op)
    BY ReadTypes, HandlerKinds DEF WorkerPost, StageTypes, Holding, IsRead
  <2>4. \A i \in 1..Len(io_) : ~IsRead(io_[i]) => IsChunk(io_[i].answer)
    BY DEF AnswersExact
  <2> QED
    BY <2>1, <2>2, <2>3, <2>4, PostedBy
<1>2. \A h \in Calls : got'[h] # None => IsChunk(got'[h])
  <2>1. CASE UNCHANGED got
    BY <2>1 DEF AnswersExact
  <2>2. CASE RunBound
    <3>1. /\ io_ # <<>> /\ ~IsRead(Head(io_))
          /\ got' = [got EXCEPT ![Head(io_).call] = Head(io_).answer]
      BY <2>2 DEF RunBound, Running, Enter, IsRead
    <3>2. Head(io_) = io_[1] /\ 1 \in 1..Len(io_)
      BY <3>1, TailIndices DEF TypeOK
    <3>3. IsChunk(Head(io_).answer)
      BY <3>1, <3>2 DEF AnswersExact
    <3>4. \A h \in Calls : got'[h] = got[h] \/ got'[h] = Head(io_).answer
      BY <3>1 DEF TypeOK
    <3> QED
      BY <3>3, <3>4 DEF AnswersExact
  <2>3. CASE RunDirect
    <3>1. Running("direct")
      BY <2>3 DEF RunDirect
    <3>2. Head(io_).call \in Calls
      BY <3>1, RunningType
    <3>3. HandOver("direct", Head(io_).call, Head(io_).buf, Head(io_).ec)
      BY <2>3 DEF RunDirect
    <3> QED
      BY <2>3, <3>1, <3>2, <3>3, HandedExact
  <2>4. CASE RunPrefetch
    <3>1. Running("prefetch") /\ q_handlers # <<>>
      BY <2>4 DEF RunPrefetch
    <3>2. Head(q_handlers) \in Calls
      BY <3>1, TailIndices DEF TypeOK
    <3>3. HandOver("prefetch", Head(q_handlers), Head(io_).buf, Head(io_).ec)
      BY <2>4 DEF RunPrefetch
    <3> QED
      BY <2>4, <3>1, <3>2, <3>3, HandedExact
  <2>5. CASE Stop \/ UNCHANGED vars \/ \E n \in Resizes : Resize(n)
    BY <2>1, <2>5 DEF Stop, vars, Resize
  <2>6. CASE Worker
    BY <2>1, <2>6 DEF Worker, WorkerPop, WorkerStopped, WorkerRequeue, WorkerProceed, WorkerRead,
         WorkerFinish, WorkerPost
  <2>7. CASE \/ Call \/ PostReady \/ AdvanceDirect \/ Prefetch \/ AdvancePrefetch
             \/ CallbackReturns \/ RunPrefetchAhead
    BY <2>1, <2>7 DEF Call, TakeReady, QueueHandler, EndOfFile, ReadDirect, PostReady,
         AdvanceDirect, Prefetch, AdvancePrefetch, CallbackReturns, RunPrefetchAhead
  <2> QED
    BY <2>2, <2>3, <2>4, <2>5, <2>6, <2>7 DEF Next, Main
<1> QED
  BY <1>0, <1>1, <1>2 DEF AnswersExact, IsRead, IsChunk, Exact, CodeAt

\* Every step keeps what was read as it is in the file.
LEMMA ContentStep ==
  ASSUME TypeOK, StageTypes, ReadInv, EndInv, FlowInv, HalfNotOverwritten, ContentInv,
         [Next]_vars
  PROVE  ContentInv'
<1> SUFFICES ASSUME ~resized'
             PROVE  (HalvesExact /\ CodesExact /\ TakenExact /\ AnswersExact)'
  BY DEF ContentInv
<1>1. ~resized
  BY SizeFound
<1>2. HalvesExact /\ CodesExact /\ TakenExact /\ AnswersExact
  BY <1>1 DEF ContentInv
<1> QED
  BY <1>1, <1>2, HalvesStep, CodesStep, TakenStep, AnswersStep

\* Nothing was read at the beginning.
LEMMA InitContent == Init => ContentInv
BY DEF Init, ContentInv, HalvesExact, CodesExact, TakenExact, AnswersExact

\* The chunks that begin before the end of the file are those of ChunkStream.
LEMMA ChunkAt ==
  ASSUME TypeOK, NEW x \in Answers, x.size > 0, IsChunk(x)
  PROVE  x = Stream!Chunk(1 + x.pos \div ChunkSize)
<1>1. PICK p, n, c : p = x.pos /\ n = x.size /\ c = x.ec
  OBVIOUS
<1>2. ChunkSize \in Nat \ {0} /\ file_size \in Nat
  BY ChunkedReaderAssumption DEF TypeOK
<1>3. p \in Nat /\ n \in 0..ChunkSize /\ n > 0 /\ x = [pos |-> p, size |-> n, ec |-> c]
  BY <1>1 DEF Answers
<1>4. Exact(p, n) /\ c = CodeAt(p + n)
  BY <1>1 DEF IsChunk
<1>5. PICK k \in Nat : p = k * ChunkSize
  BY <1>4 DEF Exact, Begin
<1>6. p \div ChunkSize = k
  BY <1>2, <1>5, SMT
<1>7. ((1 + k) - 1) * ChunkSize = p
  <2>1. (1 + k) - 1 = k
    OBVIOUS
  <2> QED
    BY <1>5, <2>1
<1>8. p < file_size /\ n = Stream!Least(ChunkSize, file_size - p)
  BY <1>2, <1>3, <1>4 DEF Exact, Stream!Least
<1>9. Stream!Chunk(1 + k) = [pos |-> p, size |-> n, ec |-> c]
  BY <1>2, <1>3, <1>4, <1>7, <1>8 DEF Stream!Chunk, CodeAt
<1> QED
  BY <1>1, <1>3, <1>6, <1>9

\* What the calls are given, while the file keeps its size, are chunks of it.
LEMMA ContentExact == TypeOK /\ ContentInv => ChunksExact
<1> SUFFICES ASSUME TypeOK, ContentInv, ~resized, NEW h \in Delivered
             PROVE  got[h] = Stream!Chunk(1 + got[h].pos \div ChunkSize)
  BY DEF ChunksExact
<1>1. h \in Calls /\ got[h] # None /\ got[h].size > 0
  BY DEF Delivered
<1>2. got[h] \in Answers
  BY <1>1 DEF TypeOK
<1>3. IsChunk(got[h])
  BY <1>1 DEF ContentInv, AnswersExact
<1>4. PICK x : x = got[h]
  OBVIOUS
<1> QED
  BY <1>1, <1>2, <1>3, <1>4, ChunkAt

-----------------------------------------------------------------------------
(* An application that awaits each answer.                                 *)

\* Every read has a number, and is one of those not handed on.
LEMMA ReadNumbers ==
  ASSUME NEW s, NEW f, NEW r, NEW a, NEW qn, NEW on, NEW bn,
         Flowing(s, f, r, a, qn, on, bn), ~stopped
  PROVE  /\ \A i \in 1..Len(q_as_read_data) :
              \E k \in r..(s - 1) : Numbered(q_as_read_data[i], k, a)
         /\ wpc \in Holding => \E k \in r..(s - 1) : Numbered(op, k, a)
         /\ \A i \in 1..Len(io_) : IsRead(io_[i]) => \E k \in r..(f - 1) : Numbered(io_[i], k, a)
         /\ \A i \in 1..Len(io_) : IsRead(io_[i]) => HasData(io_[i])
<1> USE DEF Flowing
<1>1. /\ s \in Nat /\ f \in Nat /\ r \in Nat /\ r <= f /\ f <= s
      /\ Len(qn) = Len(q_as_read_data) /\ Len(bn) = Len(io_)
  BY DEF NumberInv
<1>2. \A k \in f..(s - 1) : k \in r..(s - 1)
  BY <1>1
<1>3. \A k \in r..(f - 1) : k \in r..(s - 1)
  BY <1>1
<1>4. \A i \in 1..Len(qn) : Awaits(q_as_read_data[i], qn[i], s, f, a)
  BY DEF DueInv
<1>5. \A i \in 1..Len(qn) : qn[i] \in f..(s - 1) /\ Numbered(q_as_read_data[i], qn[i], a)
  BY <1>4 DEF Awaits
<1>6. wpc \in Holding => Waits \/ Made
  <2>1. wpc = "post" => HasData(op)
    BY DEF StoppedInv
  <2> QED
    BY <2>1 DEF Holding, Waits, Made
<1>7. \A i \in 1..Len(bn) : IsRead(io_[i]) => HasData(io_[i])
  BY DEF StoppedInv
<1>8. \A i \in 1..Len(bn) : IsRead(io_[i]) => bn[i] \in r..(f - 1) /\ Numbered(io_[i], bn[i], a)
  BY <1>7 DEF MadeInv
<1>9. wpc \in Holding => \E k \in r..(s - 1) : Numbered(op, k, a)
  <2>1. Waits => \E k \in r..(s - 1) : Numbered(op, k, a)
    <3>1. Waits => Awaits(op, on, s, f, a)
      BY DEF DueInv
    <3> QED
      BY <1>2, <3>1 DEF Awaits
  <2>2. Made => \E k \in r..(s - 1) : Numbered(op, k, a)
    <3>1. Made => r < f /\ on = f - 1 /\ Numbered(op, on, a)
      BY DEF MadeInv
    <3>2. r < f /\ on = f - 1 => on \in r..(s - 1)
      BY <1>1
    <3> QED
      BY <3>1, <3>2
  <2> QED
    BY <1>6, <2>1, <2>2
<1> QED
  BY <1>1, <1>2, <1>5, <1>7, <1>8, <1>9

\* Between two calls nothing waits.
LEMMA QuietBetween ==
  ASSUME NEW s, NEW f, NEW r, NEW a, NEW qn, NEW on, NEW bn,
         TypeOK, Flowing(s, f, r, a, qn, on, bn), SerialInv(s, f, r, a),
         consumer # "pipelined", MayCall
  PROVE  /\ Answered /\ Continues /\ q_handlers = <<>> /\ mpc # "taken"
         /\ \A k \in r..(s - 1) : ~Direct(k, a)
         /\ \A i \in 1..Len(io_) : IsRead(io_[i]) /\ io_[i].call = None
         /\ \A i \in 1..Len(q_as_read_data) : q_as_read_data[i].call = None
         /\ wpc \in Holding => op.call = None
         /\ calls \in Nat /\ calls + 1 \in Calls /\ got[calls + 1] = None
         /\ \A h \in Calls : h < calls + 1 => got[h] # None
<1>1. Continues /\ Answered /\ ~stopped /\ mpc \in {"idle", "callback"} /\ calls < MaxCalls
  BY DEF MayCall, Continues, Answered
<1>2. /\ q_handlers = <<>> /\ \A k \in r..(s - 1) : ~Direct(k, a)
      /\ \A i \in 1..Len(io_) : IsRead(io_[i])
  BY <1>1 DEF SerialInv, AwaitInv
<1>3. \A x, k : k \in r..(s - 1) /\ Numbered(x, k, a) => x.call = None
  BY <1>2 DEF Numbered, Direct
<1>4. \A k \in r..(f - 1) : k \in r..(s - 1)
  <2>1. s \in Nat /\ f \in Nat /\ r \in Nat /\ f <= s
    BY DEF Flowing, NumberInv
  <2> QED
    BY <2>1
<1>5. /\ \A i \in 1..Len(io_) : io_[i].call = None
      /\ \A i \in 1..Len(q_as_read_data) : q_as_read_data[i].call = None
      /\ wpc \in Holding => op.call = None
  BY <1>1, <1>2, <1>3, <1>4, ReadNumbers
<1>6. calls \in Nat /\ calls + 1 \in Calls /\ MaxCalls \in Nat
  BY <1>1, ChunkedReaderAssumption DEF TypeOK, Calls
<1>7. got[calls + 1] = None
  <2>1. calls + 1 > calls
    BY <1>6
  <2> QED
    BY <1>6, <2>1 DEF SerialInv, AwaitInv
<1>8. \A h \in Calls : h < calls + 1 => got[h] # None
  <2>1. \A h \in Calls : h < calls + 1 => h < calls \/ (h = calls /\ calls > 0)
    BY <1>6 DEF Calls
  <2> QED
    BY <1>1, <2>1 DEF SerialInv, AwaitInv, Answered
<1> QED
  BY <1>1, <1>2, <1>5, <1>6, <1>7, <1>8

\* The calls wait as before when what is handed on moves by d in io_ and no read is for a call
\* that was not.
LEMMA AwaitKept ==
  ASSUME NEW s, NEW r, NEW a, NEW t, NEW q, NEW b, NEW d \in Nat,
         AwaitInv(s, r, a), UNCHANGED <<calls, got, q_handlers>>,
         mpc' = "taken" => mpc = "taken",
         \A k \in q..(t - 1) : Direct(k, b) => k \in r..(s - 1) /\ Direct(k, a),
         \A i \in 1..Len(io_') : ~IsRead(io_'[i]) => i + d \in 1..Len(io_) /\ io_'[i] = io_[i + d]
  PROVE  AwaitInv(t, q, b)'
<1>1. Answered' = Answered
  BY DEF Answered
<1>2. \A k \in q..(t - 1) : Direct(k, b) =>
        /\ ~Answered /\ q_handlers = <<>>
        /\ \A l \in q..(t - 1) : Direct(l, b) => l = k
  BY DEF AwaitInv
<1>3. ASSUME NEW i \in 1..Len(io_'), ~IsRead(io_'[i])
      PROVE  /\ ~Answered /\ io_'[i].call = calls /\ q_handlers = <<>> /\ mpc' # "taken"
             /\ \A k \in q..(t - 1) : ~Direct(k, b)
             /\ \A j \in 1..Len(io_') : ~IsRead(io_'[j]) => j = i
  <2>1. i + d \in 1..Len(io_) /\ io_'[i] = io_[i + d]
    BY <1>3
  <2>2. /\ ~Answered /\ io_[i + d].call = calls /\ q_handlers = <<>> /\ mpc # "taken"
        /\ \A k \in r..(s - 1) : ~Direct(k, a)
        /\ \A j \in 1..Len(io_) : ~IsRead(io_[j]) => j = i + d
    BY <1>3, <2>1 DEF AwaitInv
  <2>3. \A j \in 1..Len(io_') : ~IsRead(io_'[j]) => j + d = i + d
    BY <2>2
  <2>4. \A j \in 1..Len(io_') : j + d = i + d => j = i
    OBVIOUS
  <2> QED
    BY <2>1, <2>2, <2>3, <2>4
<1> QED
  BY <1>1, <1>2, <1>3 DEF AwaitInv, IsRead, Direct

\* Their turn is kept in the same way.
LEMMA TurnKept ==
  ASSUME NEW s, NEW r, NEW a, NEW t, NEW q, NEW b, NEW d \in Nat,
         TurnInv(s, r, a), UNCHANGED <<calls, got, q_handlers, file_size>>,
         mpc' = "taken" => mpc = "taken", q - Ready' = r - Ready,
         \A k \in q..(t - 1) : Direct(k, b) => k \in r..(s - 1) /\ Direct(k, a),
         \A i \in 1..Len(io_') : ~IsRead(io_'[i]) => i + d \in 1..Len(io_) /\ io_'[i] = io_[i + d]
  PROVE  TurnInv(t, q, b)'
<1>1. Continues' = Continues /\ Stream!Chunk(calls)' = Stream!Chunk(calls)
  BY DEF Continues, Stream!Chunk, Stream!Least
<1>2. \A i \in 1..Len(io_') : ~IsRead(io_'[i]) =>
        /\ io_'[i].answer = Stream!Chunk(calls)
        /\ io_'[i].answer.ec = "success" => calls = q - Ready'
  BY DEF TurnInv
<1>3. \A k \in q..(t - 1) : Direct(k, b) => calls = q - Ready' + 1
  BY DEF TurnInv
<1>4. /\ Continues => calls = q - Ready'
      /\ q_handlers # <<>> => calls = q - Ready' + 1
      /\ mpc' = "taken" => calls = q - Ready' + 1
  BY DEF TurnInv
<1> QED
  BY <1>1, <1>2, <1>3, <1>4 DEF TurnInv, IsRead, Direct

\* The halves keep what they hold.
LEMMA FromKept ==
  ASSUME NEW f, NEW r, NEW q, FromInv(f, r), UNCHANGED <<start, file_size, copy, failed>>,
         mpc' = "taken" => mpc = "taken", q - Ready' = r - Ready
  PROVE  FromInv(f, q)'
BY DEF FromInv

\* A step of the worker makes no read for another call.
LEMMA ForWorker ==
  ASSUME TypeOK, StageTypes, ForInv, Worker
  PROVE  ForInv'
<1> USE DEF ForInv
<1>1. calls' = calls
  BY DEF Worker, WorkerPop, WorkerStopped, WorkerRequeue, WorkerProceed, WorkerRead,
         WorkerFinish, WorkerPost, mainVars
<1>2. /\ q_as_read_data \in Seq(Reads) /\ io_ \in Seq(Reads \cup Bound)
      /\ wpc \in Holding => op \in Reads
  BY DEF TypeOK, StageTypes, Bound
<1>3. CASE WorkerPop
  <2>1. /\ Head(q_as_read_data) = q_as_read_data[1] /\ 1 \in 1..Len(q_as_read_data)
        /\ \A i \in 1..Len(Tail(q_as_read_data)) :
             i + 1 \in 1..Len(q_as_read_data) /\ Tail(q_as_read_data)[i] = q_as_read_data[i + 1]
    BY <1>2, <1>3, TailIndices DEF WorkerPop
  <2> QED
    BY <1>1, <1>3, <2>1 DEF WorkerPop
<1>4. CASE WorkerRequeue
  <2>1. wpc = "examine" /\ op \in Reads /\ q_as_read_data' = Append(q_as_read_data, op)
    BY <1>2, <1>4 DEF WorkerRequeue, Holding
  <2>2. \A i \in 1..Len(q_as_read_data') : \/ q_as_read_data'[i] = op
                                           \/ /\ i \in 1..Len(q_as_read_data)
                                              /\ q_as_read_data'[i] = q_as_read_data[i]
    BY <1>2, <2>1, AppendIndices
  <2> QED
    BY <1>1, <1>4, <2>1, <2>2 DEF WorkerRequeue
<1>5. CASE WorkerPost
  <2>1. wpc = "post" /\ op \in Reads /\ io_' = Append(io_, op)
    BY <1>2, <1>5 DEF WorkerPost, Holding
  <2>2. \A i \in 1..Len(io_') : \/ io_'[i] = op
                                \/ i \in 1..Len(io_) /\ io_'[i] = io_[i]
    BY <1>2, <2>1, AppendIndices
  <2> QED
    BY <1>1, <1>5, <2>1, <2>2 DEF WorkerPost
<1>6. CASE WorkerStopped \/ WorkerProceed \/ WorkerRead \/ WorkerFinish
  <2>1. /\ wpc \in Holding /\ UNCHANGED <<q_as_read_data, io_>>
        /\ op' = op \/ \E c : op' = [op EXCEPT !.ec = c]
    BY <1>6 DEF WorkerStopped, WorkerProceed, WorkerRead, WorkerFinish, Holding
  <2>2. op'.call = op.call
    BY <1>2, <2>1 DEF Reads
  <2> QED
    BY <1>1, <2>1, <2>2 DEF Holding
<1> QED
  BY <1>3, <1>4, <1>5, <1>6 DEF Worker

\* The steps that neither ask nor answer, and leave the handlers and the halves as they are.
LEMMA SerialKept ==
  ASSUME NEW s, NEW f, NEW r, NEW a, SerialInv(s, f, r, a), ForInv',
         UNCHANGED <<calls, got, q_handlers, q_buf_ready, file_size, start, copy, failed, io_>>,
         mpc' = "taken" => mpc = "taken"
  PROVE  SerialInv(s, f, r, a)'
<1>1. Ready' = Ready /\ r - Ready' = r - Ready /\ 0 \in Nat
  BY DEF Ready
<1>2. \A i \in 1..Len(io_') : ~IsRead(io_'[i]) => i + 0 \in 1..Len(io_) /\ io_'[i] = io_[i + 0]
  OBVIOUS
<1>3. AwaitInv(s, r, a)'
  BY <1>1, <1>2, AwaitKept DEF SerialInv
<1>4. TurnInv(s, r, a)'
  BY <1>1, <1>2, TurnKept DEF SerialInv
<1>5. FromInv(f, r)'
  BY <1>1, FromKept DEF SerialInv
<1> QED
  BY <1>3, <1>4, <1>5 DEF SerialInv

\* The worker moves reads about.
LEMMA MovesSerial ==
  ASSUME NEW s, NEW f, NEW r, NEW a, TypeOK, StageTypes, SerialInv(s, f, r, a),
         WorkerPop \/ WorkerRequeue \/ WorkerProceed \/ WorkerFinish
  PROVE  SerialInv(s, f, r, a)'
<1>1. /\ UNCHANGED <<calls, got, q_handlers, q_buf_ready, file_size, start, copy, failed, io_>>
      /\ mpc' = mpc
  BY DEF WorkerPop, WorkerRequeue, WorkerProceed, WorkerFinish, mainVars, halfVars, givenVars
<1>2. ForInv'
  BY ForWorker DEF SerialInv, Worker
<1> QED
  BY <1>1, <1>2, SerialKept

\* The worker posts the handler of a read.
LEMMA PostSerial ==
  ASSUME NEW s, NEW f, NEW r, NEW a, TypeOK, StageTypes, SerialInv(s, f, r, a), WorkerPost
  PROVE  SerialInv(s, f, r, a)'
<1>1. /\ UNCHANGED <<calls, got, q_handlers, q_buf_ready, file_size, start, copy, failed, mpc>>
      /\ io_' = Append(io_, op) /\ wpc = "post"
  BY DEF WorkerPost, mainVars, halfVars, givenVars
<1>2. Ready' = Ready /\ r - Ready' = r - Ready /\ 0 \in Nat
  BY <1>1 DEF Ready
<1>3. op \in Reads /\ IsRead(op) /\ io_ \in Seq(Reads \cup Bound)
  BY <1>1, HandlerKinds DEF TypeOK, StageTypes, Holding, Bound, IsRead
<1>4. \A i \in 1..Len(io_') : io_'[i] = op \/ (i \in 1..Len(io_) /\ io_'[i] = io_[i])
  BY <1>1, <1>3, AppendIndices
<1>5. \A i \in 1..Len(io_') : ~IsRead(io_'[i]) => i + 0 \in 1..Len(io_) /\ io_'[i] = io_[i + 0]
  BY <1>3, <1>4
<1>6. AwaitInv(s, r, a)'
  BY <1>1, <1>2, <1>5, AwaitKept DEF SerialInv
<1>7. TurnInv(s, r, a)'
  BY <1>1, <1>2, <1>5, TurnKept DEF SerialInv
<1>8. FromInv(f, r)'
  BY <1>1, <1>2, FromKept DEF SerialInv
<1>9. ForInv'
  BY ForWorker DEF SerialInv, Worker
<1> QED
  BY <1>6, <1>7, <1>8, <1>9 DEF SerialInv

\* The worker reads the next chunk into a half that was consumed.
LEMMA ReadSerial ==
  ASSUME NEW s, NEW f, NEW r, NEW a, NEW qn, NEW on, NEW bn,
         TypeOK, StageTypes, ReadInv, EndInv, EndInv', FlowInv, ~resized, ~resized',
         Flowing(s, f, r, a, qn, on, bn), SerialInv(s, f, r, a), WorkerRead, ~failed
  PROVE  SerialInv(s, f + 1, r, a)'
<1>1. /\ UNCHANGED <<calls, got, q_handlers, q_buf_ready, file_size, copy, io_, mpc>>
      /\ wpc = "read"
  BY DEF WorkerRead, mainVars, givenVars
<1>2. Ready' = Ready /\ r - Ready' = r - Ready /\ 0 \in Nat
  BY <1>1 DEF Ready
<1>3. \A i \in 1..Len(io_') : ~IsRead(io_'[i]) => i + 0 \in 1..Len(io_) /\ io_'[i] = io_[i + 0]
  BY <1>1
<1>4. AwaitInv(s, r, a)'
  BY <1>1, <1>2, <1>3, AwaitKept DEF SerialInv
<1>5. TurnInv(s, r, a)'
  BY <1>1, <1>2, <1>3, TurnKept DEF SerialInv
<1>6. ForInv'
  BY ForWorker DEF SerialInv, Worker
<1>7. PICK n \in Nat : /\ start' = [start EXCEPT ![op.buf] = op.pos]
                       /\ bytes_read_' = op.pos + n /\ Exact(op.pos, n)
                       /\ op.buf \in Buffers /\ op.pos \in Nat
  BY ReadExact
<1>8. /\ op.buf = HalfOf(f) /\ op.pos = Begin(f) /\ Begin(f) < file_size
      /\ f \in Nat /\ r \in Nat /\ Ready \in Nat /\ f + Ready <= r + 1 /\ Ready <= r
      /\ start \in [Buffers -> Nat] /\ file_size \in Nat /\ ChunkSize \in Nat
  <2>1. /\ Awaits(op, on, s, f, a) /\ on = f /\ f \in Nat /\ r \in Nat /\ f + Ready <= r + 1
        /\ Ready <= r
    BY <1>1 DEF Flowing, DueInv, Waits, NumberInv, WindowInv
  <2>2. start \in [Buffers -> Nat] /\ file_size \in Nat /\ Ready \in Nat /\ ChunkSize \in Nat
    BY ChunkedReaderAssumption DEF TypeOK, Ready
  <2> QED
    BY <2>1, <2>2 DEF Awaits, Numbered
<1>9. start' = [start EXCEPT ![HalfOf(f)] = Begin(f)] /\ HalfOf(f) \in Buffers
  BY <1>7, <1>8
<1>10. ASSUME NEW k \in (r - Ready)..((f + 1) - 1)
       PROVE  start'[HalfOf(k)] = Begin(k) /\ Begin(k) < file_size
  <2>1. k \in Nat /\ (k = f \/ (k \in (r - Ready)..(f - 1) /\ k = f - 1))
    <3>1. PICK e \in Nat : e = Ready
      BY <1>8
    <3>2. f \in Nat /\ r \in Nat /\ f + e <= r + 1 /\ e <= r /\ k \in (r - e)..((f + 1) - 1)
      BY <1>8, <3>1
    <3>3. k \in Nat /\ (k = f \/ (k \in (r - e)..(f - 1) /\ k = f - 1))
      BY <3>2
    <3> QED
      BY <3>1, <3>3
  <2>2. CASE k = f
    BY <1>8, <1>9, <2>2
  <2>3. CASE k # f
    <3>1. k \in (r - Ready)..(f - 1) /\ k + 1 = f
      BY <1>8, <2>1, <2>3
    <3>2. HalfOf(f) # HalfOf(k) /\ HalfOf(k) \in Buffers
      BY <2>1, <3>1, Halves
    <3>3. start[HalfOf(k)] = Begin(k) /\ Begin(k) < file_size
      BY <3>1 DEF SerialInv, FromInv
    <3> QED
      BY <1>8, <1>9, <3>2, <3>3
  <2> QED
    BY <2>2, <2>3
<1>11. failed' => file_size <= Begin(f + 1)
  <2>1. failed' => op.pos + n = file_size
    BY <1>1, <1>7 DEF EndInv
  <2>2. n <= ChunkSize
    BY <1>7, <1>8 DEF Exact
  <2>3. Begin(f + 1) = Begin(f) + ChunkSize /\ Begin(f) \in Nat
    BY <1>8, Begins
  <2> QED
    BY <1>8, <2>1, <2>2, <2>3
<1>12. FromInv(f + 1, r)'
  <2>1. \A k \in (r - Ready')..((f + 1) - 1) : start'[HalfOf(k)] = Begin(k) /\ Begin(k) < file_size'
    BY <1>1, <1>2, <1>10
  <2>2. mpc' = "taken" => copy'.pos = Begin(r - Ready')
    BY <1>1, <1>2 DEF SerialInv, FromInv
  <2> QED
    BY <1>1, <1>11, <2>1, <2>2 DEF FromInv
<1> QED
  BY <1>4, <1>5, <1>6, <1>12 DEF SerialInv

-----------------------------------------------------------------------------
(* Its calls, and the handlers that answer them.                           *)

\* The chunk that begins where the read k does.
LEMMA ChunkOf ==
  ASSUME TypeOK, NEW k \in Nat, NEW n \in 0..ChunkSize, Exact(Begin(k), n), Begin(k) < file_size
  PROVE  Answer(Begin(k), n, CodeAt(Begin(k) + n)) = Stream!Chunk(k + 1)
<1>1. ChunkSize \in Nat \ {0} /\ file_size \in Nat
  BY ChunkedReaderAssumption DEF TypeOK
<1>2. PICK p \in Nat : p = Begin(k)
  BY Begins
<1>3. n > 0 /\ p < file_size /\ n = Stream!Least(ChunkSize, file_size - p)
  BY <1>1, <1>2 DEF Exact, Stream!Least
<1>4. ((k + 1) - 1) * ChunkSize = p
  <2>1. (k + 1) - 1 = k
    OBVIOUS
  <2> QED
    BY <1>2, <2>1 DEF Begin
<1>5. /\ Stream!Chunk(k + 1) =
           [pos |-> p, size |-> n, ec |-> IF p + n = file_size THEN "end_of_file" ELSE "success"]
  BY <1>1, <1>3, <1>4 DEF Stream!Chunk
<1> QED
  BY <1>2, <1>5 DEF Answer, CodeAt

\* Past the end of the file there is no chunk.
LEMMA ChunkAfter ==
  ASSUME NEW k \in Nat, file_size <= Begin(k)
  PROVE  Answer(0, 0, "end_of_file") = Stream!Chunk(k + 1)
<1>1. (k + 1) - 1 = k
  OBVIOUS
<1> QED
  BY <1>1 DEF Stream!Chunk, Answer, Begin

\* The copy of a ready half is posted: it is the chunk its call is for.
LEMMA PostReadySerial ==
  ASSUME NEW s, NEW f, NEW r, NEW a, NEW qn, NEW on, NEW bn,
         TypeOK, StageTypes, TakenExact, Flowing(s, f, r, a, qn, on, bn), SerialInv(s, f, r, a),
         PostReady
  PROVE  SerialInv(s, f, r, a)'
<1> DEFINE x == [call |-> calls, answer |-> [copy EXCEPT !.ec = bec[next]]]
<1>1. /\ mpc = "taken" /\ mpc' = "prefetch" /\ io_' = Append(io_, x)
      /\ q_buf_ready' = Tail(q_buf_ready)
      /\ UNCHANGED <<calls, got, q_handlers, file_size, start, failed, q_as_read_data, wpc, op>>
  BY DEF PostReady, halfVars, workerVars, givenVars
<1>2. /\ q_buf_ready \in Seq(Buffers) /\ q_buf_ready # <<>> /\ Ready \in Nat /\ Ready > 0
      /\ Ready' = Ready - 1 /\ r \in Nat /\ f \in Nat /\ Ready <= r /\ r <= f
      /\ calls \in Calls /\ calls \in Nat /\ calls > 0
      /\ copy \in [pos : Nat, size : 0..ChunkSize, ec : {None}] /\ bec[next] \in ErrorCode
  <2>1. /\ q_buf_ready \in Seq(Buffers) /\ q_buf_ready # <<>> /\ calls \in Calls
        /\ copy \in [pos : Nat, size : 0..ChunkSize, ec : {None}] /\ bec[next] \in ErrorCode
    BY <1>1 DEF TypeOK, StageTypes
  <2>2. Ready \in Nat /\ Ready > 0 /\ Ready' = Ready - 1
    BY <1>1, <2>1, TailIndices DEF Ready
  <2>3. r \in Nat /\ f \in Nat /\ Ready <= r /\ r <= f
    BY DEF Flowing, NumberInv
  <2>4. calls \in Nat /\ calls > 0
    BY <2>1, ChunkedReaderAssumption DEF Calls
  <2> QED
    BY <2>1, <2>2, <2>3, <2>4
<1>3. PICK k \in Nat : k = r - Ready /\ r - Ready' = k + 1 /\ k \in (r - Ready)..(f - 1)
  <2>1. PICK e \in Nat : e = Ready
    BY <1>2
  <2>2. r \in Nat /\ f \in Nat /\ e <= r /\ r <= f /\ e > 0 /\ Ready' = e - 1
    BY <1>2, <2>1
  <2>3. r - e \in Nat /\ r - Ready' = (r - e) + 1 /\ r - e \in (r - e)..(f - 1)
    BY <2>2
  <2> QED
    BY <2>1, <2>3
<1>4. calls = k + 1 /\ copy.pos = Begin(k) /\ Begin(k) < file_size
  BY <1>1, <1>3 DEF SerialInv, TurnInv, FromInv
<1>5. x.answer = Stream!Chunk(calls) /\ x.call = calls /\ ~IsRead(x)
  <2>1. PICK n : n = copy.size
    OBVIOUS
  <2>2. n \in 0..ChunkSize /\ Exact(Begin(k), n) /\ bec[next] = CodeAt(Begin(k) + n)
    BY <1>1, <1>2, <1>4, <2>1 DEF TakenExact
  <2>3. [copy EXCEPT !.ec = bec[next]] = Answer(Begin(k), n, CodeAt(Begin(k) + n))
    BY <1>2, <1>4, <2>1, <2>2 DEF Answer
  <2>4. [copy EXCEPT !.ec = bec[next]] = Stream!Chunk(calls)
    BY <1>4, <2>2, <2>3, ChunkOf
  <2> QED
    BY <2>4 DEF IsRead
<1> HIDE DEF x
<1>6. \A i \in 1..Len(io_) : IsRead(io_[i])
  BY <1>1 DEF SerialInv, AwaitInv
<1>7. /\ Len(io_) \in Nat /\ Len(io_') = Len(io_) + 1
      /\ \A i \in 1..Len(io_) : io_'[i] = io_[i]
      /\ io_'[Len(io_) + 1] = x
  <2>1. io_ \in Seq(Reads \cup Bound)
    BY DEF TypeOK, Bound
  <2> QED
    BY <1>1, <2>1, AppendIndices
<1>8. \A i \in 1..Len(io_') : \/ i \in 1..Len(io_) /\ io_'[i] = io_[i] /\ IsRead(io_'[i])
                              \/ i = Len(io_) + 1 /\ io_'[i] = x /\ ~IsRead(io_'[i])
  BY <1>5, <1>6, <1>7
<1>9. /\ ~Answered /\ Answered' = Answered /\ ~Continues' /\ q_handlers = <<>>
      /\ \A l \in r..(s - 1) : ~Direct(l, a)
  <2>1. ~Answered /\ Answered' = Answered
    BY <1>1 DEF SerialInv, AwaitInv, Answered
  <2>2. q_handlers = <<>> /\ \A l \in r..(s - 1) : a[l + 1] = a[l] + 1
    BY <1>2 DEF Flowing, ReadyInv
  <2>3. ~Continues'
    BY <2>1 DEF Answered, Continues
  <2>4. \A l \in r..(s - 1) : ~Direct(l, a)
    <3>1. ASSUME NEW l \in r..(s - 1)  PROVE ~Direct(l, a)
      <4>1. l \in Nat /\ a \in [Nat -> Nat] /\ a[l + 1] = a[l] + 1
        <5>1. s \in Nat /\ r \in Nat
          BY DEF Flowing, NumberInv
        <5>2. l \in Nat
          BY <5>1
        <5>3. a \in [Nat -> Nat]
          BY DEF Flowing, NumberInv
        <5> QED
          BY <2>2, <5>2, <5>3
      <4>2. PICK m \in Nat : m = a[l]
        BY <4>1
      <4> QED
        BY <4>1, <4>2 DEF Direct
    <3> QED
      BY <3>1
  <2> QED
    BY <2>1, <2>2, <2>3, <2>4
<1>10. AwaitInv(s, r, a)'
  <2>1. ASSUME NEW i \in 1..Len(io_'), ~IsRead(io_'[i])
        PROVE  /\ io_'[i].call = calls
               /\ \A j \in 1..Len(io_') : ~IsRead(io_'[j]) => j = i
    BY <1>5, <1>8, <2>1
  <2>2. \A h \in Calls : (h < calls => got[h] # None) /\ (h > calls => got[h] = None)
    BY DEF SerialInv, AwaitInv
  <2> QED
    BY <1>1, <1>9, <2>1, <2>2 DEF AwaitInv, IsRead, Direct
<1>11. TurnInv(s, r, a)'
  <2>1. file_size' = file_size /\ Stream!Chunk(calls)' = Stream!Chunk(calls)
    BY <1>1 DEF Stream!Chunk, Stream!Least
  <2>2. \A i \in 1..Len(io_') : ~IsRead(io_'[i]) =>
          io_'[i].answer = Stream!Chunk(calls) /\ calls = r - Ready'
    BY <1>3, <1>4, <1>5, <1>8
  <2> QED
    BY <1>1, <1>9, <2>1, <2>2 DEF TurnInv, IsRead, Direct
<1>12. ForInv'
  BY <1>1, <1>8 DEF SerialInv, ForInv, IsRead
<1>13. FromInv(f, r)'
  <2>1. \A l \in (r - Ready')..(f - 1) : l \in (r - Ready)..(f - 1)
    <3>1. r - Ready \in Nat /\ r - Ready' = (r - Ready) + 1 /\ f \in Nat
      BY <1>2, <1>3
    <3> QED
      BY <3>1
  <2> QED
    BY <1>1, <2>1 DEF SerialInv, FromInv
<1> QED
  BY <1>10, <1>11, <1>12, <1>13 DEF SerialInv

\* The other steps of a call or a handler that leave the handlers as they are.
LEMMA CalmSerial ==
  ASSUME NEW s, NEW f, NEW r, NEW a, SerialInv(s, f, r, a),
         \/ AdvanceDirect
         \/ AdvancePrefetch
         \/ CallbackReturns
         \/ Prefetch /\ ~MayPrefetch
  PROVE  SerialInv(s, f, r, a)'
<1>1. /\ UNCHANGED <<calls, got, q_handlers, q_buf_ready, file_size, start, copy, failed, io_,
                     q_as_read_data, wpc, op>>
      /\ mpc' # "taken"
  BY DEF AdvanceDirect, AdvancePrefetch, CallbackReturns, Prefetch, halfVars, workerVars, givenVars
<1>2. ForInv'
  BY <1>1 DEF SerialInv, ForInv, IsRead
<1> QED
  BY <1>1, <1>2, SerialKept

\* A prefetch is for no call.
LEMMA PrefetchSerial ==
  ASSUME NEW s, NEW f, NEW r, NEW a, NEW qn, NEW on, NEW bn,
         TypeOK, Flowing(s, f, r, a, qn, on, bn), SerialInv(s, f, r, a), Prefetch, MayPrefetch
  PROVE  SerialInv(s + 1, f, r, Counted(a, s, None))'
<1> PICK c : c = Counted(a, s, None)
  OBVIOUS
<1>1. /\ UNCHANGED <<calls, got, q_handlers, q_buf_ready, file_size, start, copy, failed, io_,
                     wpc, op>>
      /\ mpc' # "taken"
      /\ q_as_read_data' = Append(q_as_read_data, [call |-> None, buf |-> swapped,
                                                   pos |-> pos_to_schedule, ec |-> None])
  BY DEF Prefetch, Schedule, halfVars, workerVars, givenVars
<1>2. s \in Nat /\ r \in Nat /\ a \in [Nat -> Nat]
  BY DEF Flowing, NumberInv
<1>3. (\A k \in 0..s : c[k] = a[k]) /\ c[s + 1] = a[s] + 1
  BY <1>2, CountedMore
<1>4. ASSUME NEW k \in r..((s + 1) - 1), Direct(k, c)
      PROVE  k \in r..(s - 1) /\ Direct(k, a)
  <2>1. k # s
    <3>1. SUFFICES ASSUME k = s  PROVE FALSE
      OBVIOUS
    <3>2. PICK m \in Nat : m = a[s]
      BY <1>2
    <3>3. s \in 0..s
      BY <1>2
    <3> QED
      BY <1>3, <1>4, <3>1, <3>2, <3>3 DEF Direct
  <2>2. k \in r..(s - 1) /\ k \in 0..s /\ k + 1 \in 0..s
    BY <1>2, <2>1
  <2> QED
    BY <1>3, <1>4, <2>2 DEF Direct
<1>5. Ready' = Ready /\ r - Ready' = r - Ready /\ 0 \in Nat
  BY <1>1 DEF Ready
<1>6. \A i \in 1..Len(io_') : ~IsRead(io_'[i]) => i + 0 \in 1..Len(io_) /\ io_'[i] = io_[i + 0]
  BY <1>1
<1>7. AwaitInv(s + 1, r, c)'
  BY <1>1, <1>4, <1>5, <1>6, AwaitKept DEF SerialInv
<1>8. TurnInv(s + 1, r, c)'
  BY <1>1, <1>4, <1>5, <1>6, TurnKept DEF SerialInv
<1>9. FromInv(f, r)'
  BY <1>1, <1>5, FromKept DEF SerialInv
<1>10. ForInv'
  <2>1. q_as_read_data \in Seq(Reads)
    BY DEF TypeOK
  <2>2. \A i \in 1..Len(q_as_read_data') : \/ q_as_read_data'[i].call = None
                                           \/ /\ i \in 1..Len(q_as_read_data)
                                              /\ q_as_read_data'[i] = q_as_read_data[i]
    BY <1>1, <2>1, AppendIndices
  <2> QED
    BY <1>1, <2>2 DEF SerialInv, ForInv, IsRead
<1> QED
  BY <1>7, <1>8, <1>9, <1>10 DEF SerialInv

\* A prefetch that nobody waits for leaves its half ready.
LEMMA AheadSerial ==
  ASSUME NEW s, NEW f, NEW r, NEW a, NEW qn, NEW on, NEW bn,
         TypeOK, Flowing(s, f, r, a, qn, on, bn), SerialInv(s, f, r, a), RunPrefetchAhead
  PROVE  SerialInv(s, f, r + 1, a)'
<1>1. /\ UNCHANGED <<calls, got, q_handlers, file_size, start, copy, failed, q_as_read_data,
                     wpc, op, mpc>>
      /\ io_ # <<>> /\ io_' = Tail(io_) /\ q_buf_ready' = Append(q_buf_ready, Head(io_).buf)
  BY DEF RunPrefetchAhead, Running, halfVars, workerVars, givenVars
<1>2. r \in Nat /\ s \in Nat /\ (r + 1) - Ready' = r - Ready
  <2>1. Ready \in Nat /\ Ready' = Ready + 1 /\ r \in Nat /\ s \in Nat
    BY <1>1 DEF Ready, TypeOK, Flowing, NumberInv
  <2> QED
    BY <2>1
<1>3. \A k \in (r + 1)..(s - 1) : Direct(k, a) => k \in r..(s - 1) /\ Direct(k, a)
  BY <1>2
<1>4. \A i \in 1..Len(io_') : i + 1 \in 1..Len(io_) /\ io_'[i] = io_[i + 1]
  <2>1. io_ \in Seq(Reads \cup Bound)
    BY DEF TypeOK, Bound
  <2> QED
    BY <1>1, <2>1, TailIndices
<1>5. AwaitInv(s, r + 1, a)'
  BY <1>1, <1>3, <1>4, AwaitKept DEF SerialInv
<1>6. TurnInv(s, r + 1, a)'
  BY <1>1, <1>2, <1>3, <1>4, TurnKept DEF SerialInv
<1>7. FromInv(f, r + 1)'
  BY <1>1, <1>2, FromKept DEF SerialInv
<1>8. ForInv'
  BY <1>1, <1>4 DEF SerialInv, ForInv, IsRead
<1> QED
  BY <1>5, <1>6, <1>7, <1>8 DEF SerialInv

\* A call is made when the one before was answered, and the next chunk is the one it is for.
LEMMA CallTurn ==
  ASSUME NEW s, NEW f, NEW r, NEW a, NEW qn, NEW on, NEW bn,
         TypeOK, Flowing(s, f, r, a, qn, on, bn), SerialInv(s, f, r, a),
         consumer # "pipelined", MayCall, calls' = calls + 1, got' = got
  PROVE  /\ calls' > 0 /\ got'[calls'] = None /\ ~Answered' /\ ~Continues'
         /\ \A h \in Calls : (h < calls' => got'[h] # None) /\ (h > calls' => got'[h] = None)
         /\ calls = r - Ready /\ calls \in Nat /\ calls' \in Calls
<1>1. /\ Continues /\ calls \in Nat /\ calls + 1 \in Calls /\ got[calls + 1] = None
      /\ \A h \in Calls : h < calls + 1 => got[h] # None
  BY QuietBetween
<1>2. \A h \in Calls : h > calls + 1 => got[h] = None
  <2>1. \A h \in Calls : h > calls + 1 => h > calls
    BY <1>1 DEF Calls
  <2> QED
    BY <2>1 DEF SerialInv, AwaitInv
<1>3. calls + 1 > 0
  BY <1>1
<1> QED
  BY <1>1, <1>2, <1>3 DEF Answered, Continues, SerialInv, TurnInv

\* A call finds a ready half: it is the one of the next chunk.
LEMMA TakeReadySerial ==
  ASSUME NEW s, NEW f, NEW r, NEW a, NEW qn, NEW on, NEW bn,
         TypeOK, Flowing(s, f, r, a, qn, on, bn), Flowing(s, f, r, a, qn, on, bn)',
         SerialInv(s, f, r, a), consumer # "pipelined", TakeReady
  PROVE  SerialInv(s, f, r, a)'
<1>1. /\ MayCall /\ calls' = calls + 1 /\ q_buf_ready # <<>>
      /\ UNCHANGED <<got, q_handlers, q_buf_ready, file_size, start, failed, io_,
                     q_as_read_data, wpc, op>>
  BY DEF TakeReady, workerVars, givenVars
<1>2. mpc' = "taken" /\ copy' = Answer(start[Head(q_buf_ready)], size[Head(q_buf_ready)], None)
  <2>1. mpc' # "aborted"
    BY DEF Flowing
  <2> QED
    BY <2>1 DEF TakeReady
<1>3. /\ calls' > 0 /\ got'[calls'] = None /\ ~Answered' /\ ~Continues'
      /\ \A h \in Calls : (h < calls' => got'[h] # None) /\ (h > calls' => got'[h] = None)
      /\ calls = r - Ready
  BY <1>1, CallTurn
<1>4. /\ q_handlers = <<>> /\ \A k \in r..(s - 1) : ~Direct(k, a)
      /\ \A i \in 1..Len(io_) : IsRead(io_[i]) /\ io_[i].call = None
      /\ \A i \in 1..Len(q_as_read_data) : q_as_read_data[i].call = None
      /\ wpc \in Holding => op.call = None
  BY <1>1, QuietBetween
<1>5. Ready' = Ready /\ r - Ready' = r - Ready
  BY <1>1 DEF Ready
<1>6. AwaitInv(s, r, a)'
  BY <1>1, <1>3, <1>4 DEF AwaitInv, IsRead, Direct
<1>7. ForInv'
  BY <1>1, <1>4 DEF ForInv, IsRead, Holding
<1>8. TurnInv(s, r, a)'
  BY <1>1, <1>3, <1>4, <1>5 DEF TurnInv, IsRead, Direct
<1>9. copy'.pos = Begin(r - Ready)
  <2>1. /\ r \in Nat /\ f \in Nat /\ Ready \in Nat /\ Ready <= r /\ r <= f /\ Ready > 0
        /\ Head(q_buf_ready) = q_buf_ready[1]
    <3>1. q_buf_ready \in Seq(Buffers)
      BY DEF TypeOK
    <3>2. Ready \in Nat /\ Ready > 0 /\ Head(q_buf_ready) = q_buf_ready[1]
      BY <1>1, <3>1, TailIndices DEF Ready
    <3> QED
      BY <3>2 DEF Flowing, NumberInv
  <2>2. PICK e \in Nat : e = Ready
    BY <2>1
  <2>3. 1 \in 1..e /\ r - e \in (r - e)..(f - 1) /\ r - e + 1 - 1 = r - e
    BY <2>1, <2>2
  <2>4. q_buf_ready[1] = HalfOf(r - e + 1 - 1)
    BY <2>2, <2>3 DEF Flowing, ReadyInv
  <2>5. Head(q_buf_ready) = HalfOf(r - e)
    BY <2>1, <2>3, <2>4
  <2>6. start[HalfOf(r - e)] = Begin(r - e)
    BY <2>2, <2>3 DEF SerialInv, FromInv
  <2> QED
    BY <1>2, <2>2, <2>5, <2>6 DEF Answer
<1>10. FromInv(f, r)'
  BY <1>1, <1>5, <1>9 DEF SerialInv, FromInv
<1> QED
  BY <1>6, <1>7, <1>8, <1>10 DEF SerialInv

\* A call waits for a prefetch.
LEMMA QueueHandlerSerial ==
  ASSUME NEW s, NEW f, NEW r, NEW a, NEW qn, NEW on, NEW bn,
         TypeOK, Flowing(s, f, r, a, qn, on, bn),
         SerialInv(s, f, r, a), consumer # "pipelined", QueueHandler
  PROVE  SerialInv(s, f, r, a)'
<1>1. /\ MayCall /\ calls' = calls + 1 /\ mpc' = "prefetch"
      /\ q_handlers' = Append(q_handlers, calls + 1)
      /\ UNCHANGED <<got, q_buf_ready, file_size, start, failed, copy, io_,
                     q_as_read_data, wpc, op>>
  BY DEF QueueHandler, halfVars, workerVars, givenVars
<1>2. /\ calls' > 0 /\ got'[calls'] = None /\ ~Answered' /\ ~Continues'
      /\ \A h \in Calls : (h < calls' => got'[h] # None) /\ (h > calls' => got'[h] = None)
      /\ calls = r - Ready
  BY <1>1, CallTurn
<1>3. /\ q_handlers = <<>> /\ \A k \in r..(s - 1) : ~Direct(k, a)
      /\ \A i \in 1..Len(io_) : IsRead(io_[i]) /\ io_[i].call = None
      /\ \A i \in 1..Len(q_as_read_data) : q_as_read_data[i].call = None
      /\ wpc \in Holding => op.call = None
  BY <1>1, QuietBetween
<1>4. Ready' = Ready /\ r - Ready' = r - Ready
  BY <1>1 DEF Ready
<1>5. q_handlers' = <<calls'>>
  BY <1>1, <1>3
<1>6. AwaitInv(s, r, a)'
  BY <1>1, <1>2, <1>3, <1>5 DEF AwaitInv, IsRead, Direct
<1>7. ForInv'
  BY <1>1, <1>3 DEF ForInv, IsRead, Holding
<1>8. TurnInv(s, r, a)'
  BY <1>1, <1>2, <1>3, <1>4 DEF TurnInv, IsRead, Direct
<1>9. FromInv(f, r)'
  BY <1>1, <1>4 DEF SerialInv, FromInv
<1> QED
  BY <1>6, <1>7, <1>8, <1>9 DEF SerialInv

\* A call finds that everything was read and nothing is on its way.
LEMMA EndOfFileSerial ==
  ASSUME NEW s, NEW f, NEW r, NEW a, NEW qn, NEW on, NEW bn,
         TypeOK, Flowing(s, f, r, a, qn, on, bn),
         SerialInv(s, f, r, a), consumer # "pipelined", EndOfFile
  PROVE  SerialInv(s, f, r, a)'
<1> DEFINE x == [call |-> calls + 1, answer |-> Answer(0, 0, "end_of_file")]
<1>1. /\ MayCall /\ calls' = calls + 1 /\ mpc' = mpc /\ mpc \in {"idle", "callback"}
      /\ q_buf_ready = <<>> /\ n_enqueued <= Len(q_handlers) /\ pos_to_schedule >= file_size
      /\ io_' = Append(io_, x)
      /\ UNCHANGED <<got, q_handlers, q_buf_ready, file_size, start, failed, copy,
                     q_as_read_data, wpc, op>>
  BY DEF EndOfFile, MayCall, halfVars, workerVars, givenVars
<1>2. /\ calls' > 0 /\ got'[calls'] = None /\ ~Answered' /\ ~Continues'
      /\ \A h \in Calls : (h < calls' => got'[h] # None) /\ (h > calls' => got'[h] = None)
      /\ calls = r - Ready
  BY <1>1, CallTurn
<1>3. /\ q_handlers = <<>> /\ \A k \in r..(s - 1) : ~Direct(k, a)
      /\ \A i \in 1..Len(io_) : IsRead(io_[i]) /\ io_[i].call = None
      /\ \A i \in 1..Len(q_as_read_data) : q_as_read_data[i].call = None
      /\ wpc \in Holding => op.call = None
  BY <1>1, QuietBetween
<1>4. Ready' = Ready /\ r - Ready' = r - Ready /\ Ready = 0 /\ r \in Nat /\ calls = r
      /\ s \in Nat /\ f \in Nat /\ r <= f /\ f <= s
  <2>1. Ready' = Ready /\ Ready = 0
    BY <1>1 DEF Ready
  <2>2. r \in Nat /\ s \in Nat /\ f \in Nat /\ r <= f /\ f <= s
    BY DEF Flowing, NumberInv
  <2> QED
    BY <1>2, <2>1, <2>2
<1>5. r = s
  <2>1. a[s] <= a[r]
    <3>1. /\ n_enqueued \in Nat /\ Len(q_handlers) = 0
          /\ n_enqueued <= Len(q_handlers)
      BY <1>1, <1>3 DEF TypeOK
    <3>2. n_enqueued = 0
      BY <3>1
    <3>3. a \in [Nat -> Nat]
      BY DEF Flowing, NumberInv
    <3>4. PICK m, n \in Nat : m = a[s] /\ n = a[r]
      BY <1>4, <3>3
    <3>5. EnqueuedInv(s, r, a) /\ mpc # "prefetched"
      BY <1>1 DEF Flowing
    <3>6. m + 0 + (IF within = "prefetch" THEN 1 ELSE 0) <= n + 0 + 0
      BY <1>4, <3>2, <3>4, <3>5 DEF EnqueuedInv
    <3>7. m <= n
      BY <3>6
    <3> QED
      BY <3>4, <3>7
  <2>2. SUFFICES ASSUME r < s  PROVE FALSE
    BY <1>4
  <2>3. r \in r..(s - 1) /\ r \in 0..(s - 1) /\ r + 1 \in 0..s /\ s \in 0..s /\ r + 1 <= s
    BY <1>4, <2>2
  <2>4. a[r + 1] # a[r] /\ a[r + 1] \in {a[r], a[r] + 1}
    BY <1>3, <2>3 DEF Direct, Flowing, KindInv
  <2>5. a[r + 1] <= a[s]
    BY <2>3 DEF Flowing, KindInv
  <2>6. a \in [Nat -> Nat]
    BY DEF Flowing, NumberInv
  <2>7. PICK m, n \in Nat : m = a[s] /\ n = a[r]
    BY <1>4, <2>6
  <2>8. n + 1 <= m /\ m <= n
    BY <2>1, <2>4, <2>5, <2>7
  <2> QED
    BY <2>8
<1>6. file_size <= Begin(r)
  <2>1. f = r
    BY <1>4, <1>5
  <2>2. Front = pos_to_schedule /\ pos_to_schedule \in Nat
    <3>1. pos_to_schedule \in Nat /\ ~Scheduling
      BY <1>1 DEF TypeOK, Scheduling
    <3> QED
      BY <3>1 DEF Front
  <2>3. CASE failed
    BY <2>1, <2>3 DEF SerialInv, FromInv
  <2>4. CASE ~failed
    <3>1. Front = Begin(s)
      BY <2>4 DEF Flowing, ScheduleInv
    <3>2. Begin(r) = pos_to_schedule
      BY <1>5, <2>2, <3>1
    <3>3. file_size \in Nat
      BY DEF TypeOK
    <3> QED
      BY <1>1, <2>2, <3>2, <3>3
  <2> QED
    BY <2>3, <2>4
<1>7. x.answer = Stream!Chunk(calls') /\ x.call = calls' /\ ~IsRead(x)
      /\ x.answer.ec = "end_of_file"
  <2>1. Answer(0, 0, "end_of_file") = Stream!Chunk(r + 1)
    BY <1>4, <1>6, ChunkAfter
  <2>2. calls' = r + 1
    BY <1>1, <1>4
  <2> QED
    BY <1>1, <2>1, <2>2 DEF IsRead, Answer
<1> HIDE DEF x
<1>8. \A i \in 1..Len(io_') : \/ i \in 1..Len(io_) /\ io_'[i] = io_[i] /\ IsRead(io_'[i])
                              \/ i = Len(io_) + 1 /\ io_'[i] = x /\ ~IsRead(io_'[i])
  <2>1. io_ \in Seq(Reads \cup Bound)
    BY DEF TypeOK, Bound
  <2>2. /\ Len(io_) \in Nat /\ Len(io_') = Len(io_) + 1
        /\ \A i \in 1..Len(io_) : io_'[i] = io_[i]
        /\ io_'[Len(io_) + 1] = x
    BY <1>1, <2>1, AppendIndices
  <2> QED
    BY <1>3, <1>7, <2>2
<1>9. AwaitInv(s, r, a)'
  <2>1. ASSUME NEW i \in 1..Len(io_'), ~IsRead(io_'[i])
        PROVE  /\ io_'[i].call = calls'
               /\ \A j \in 1..Len(io_') : ~IsRead(io_'[j]) => j = i
    BY <1>7, <1>8, <2>1
  <2>2. mpc' # "taken" /\ q_handlers' = <<>>
    BY <1>1, <1>3
  <2> QED
    BY <1>2, <1>3, <2>1, <2>2 DEF AwaitInv, IsRead, Direct
<1>10. TurnInv(s, r, a)'
  <2>1. file_size' = file_size
    BY <1>1
  <2>2. \A i \in 1..Len(io_') : ~IsRead(io_'[i]) =>
          io_'[i].answer = Stream!Chunk(calls') /\ io_'[i].answer.ec # "success"
    BY <1>7, <1>8
  <2>3. Stream!Chunk(calls)' = Stream!Chunk(calls')
    BY <2>1 DEF Stream!Chunk, Stream!Least
  <2>4. mpc' # "taken" /\ q_handlers' = <<>>
    BY <1>1, <1>3
  <2> QED
    BY <1>2, <1>3, <2>2, <2>3, <2>4 DEF TurnInv, IsRead, Direct
<1>11. ForInv'
  BY <1>1, <1>3, <1>8 DEF ForInv, IsRead, Holding
<1>12. FromInv(f, r)'
  BY <1>1, <1>4 DEF SerialInv, FromInv
<1> QED
  BY <1>9, <1>10, <1>11, <1>12 DEF SerialInv

\* A call schedules a read of its own.
LEMMA ReadDirectSerial ==
  ASSUME NEW s, NEW f, NEW r, NEW a, NEW qn, NEW on, NEW bn,
         TypeOK, Flowing(s, f, r, a, qn, on, bn),
         SerialInv(s, f, r, a), consumer # "pipelined", ReadDirect,
         NEW c, c = Counted(a, s, calls + 1)
  PROVE  SerialInv(s + 1, f, r, c)'
<1> DEFINE x == [call |-> calls + 1, buf |-> swapped, pos |-> pos_to_schedule, ec |-> None]
<1>1. /\ MayCall /\ calls' = calls + 1 /\ mpc' = "scheduled" /\ q_buf_ready = <<>>
      /\ q_as_read_data' = Append(q_as_read_data, x)
      /\ UNCHANGED <<got, q_handlers, q_buf_ready, file_size, start, failed, copy, io_, wpc, op>>
  BY DEF ReadDirect, Schedule, halfVars, workerVars, givenVars
<1>2. /\ calls' > 0 /\ got'[calls'] = None /\ ~Answered' /\ ~Continues'
      /\ \A h \in Calls : (h < calls' => got'[h] # None) /\ (h > calls' => got'[h] = None)
      /\ calls = r - Ready /\ calls' \in Calls
  BY <1>1, CallTurn
<1>3. /\ q_handlers = <<>> /\ \A k \in r..(s - 1) : ~Direct(k, a)
      /\ \A i \in 1..Len(io_) : IsRead(io_[i]) /\ io_[i].call = None
      /\ \A i \in 1..Len(q_as_read_data) : q_as_read_data[i].call = None
      /\ wpc \in Holding => op.call = None
  BY <1>1, QuietBetween
<1>4. Ready' = Ready /\ r - Ready' = r - Ready /\ s \in Nat /\ r \in Nat
  BY <1>1 DEF Ready, Flowing, NumberInv
<1>5. \A k \in 0..s : c[k] = a[k]
  <2>1. a \in [Nat -> Nat]
    BY DEF Flowing, NumberInv
  <2> QED
    BY <1>4, <2>1, CountedMore
<1>6. ASSUME NEW k \in r..((s + 1) - 1), Direct(k, c)
      PROVE  k = s
  <2>1. SUFFICES ASSUME k # s  PROVE FALSE
    OBVIOUS
  <2>2. k \in r..(s - 1) /\ k \in 0..s /\ k + 1 \in 0..s
    BY <1>4, <2>1
  <2> QED
    BY <1>3, <1>5, <1>6, <2>2 DEF Direct
<1>7. AwaitInv(s + 1, r, c)'
  <2>1. \A i \in 1..Len(io_') : IsRead(io_'[i])
    BY <1>1, <1>3
  <2>2. \A k \in r..((s + 1) - 1) : Direct(k, c) =>
          \A l \in r..((s + 1) - 1) : Direct(l, c) => l = k
    BY <1>6
  <2>3. mpc' # "taken" /\ q_handlers' = <<>>
    BY <1>1, <1>3
  <2> QED
    BY <1>2, <2>1, <2>2, <2>3 DEF AwaitInv, IsRead, Direct
<1>8. TurnInv(s + 1, r, c)'
  <2>1. \A i \in 1..Len(io_') : IsRead(io_'[i])
    BY <1>1, <1>3
  <2>2. calls' = r - Ready' + 1
    BY <1>1, <1>2, <1>4
  <2> QED
    BY <1>1, <1>2, <1>3, <2>1, <2>2 DEF TurnInv, IsRead, Direct
<1>9. ForInv'
  <2>1. q_as_read_data \in Seq(Reads)
    BY DEF TypeOK
  <2>2. \A i \in 1..Len(q_as_read_data') : \/ q_as_read_data'[i].call = calls'
                                           \/ /\ i \in 1..Len(q_as_read_data)
                                              /\ q_as_read_data'[i] = q_as_read_data[i]
    BY <1>1, <2>1, AppendIndices
  <2> QED
    BY <1>1, <1>3, <2>2 DEF ForInv, IsRead, Holding
<1>10. FromInv(f, r)'
  BY <1>1, <1>4 DEF SerialInv, FromInv
<1> QED
  BY <1>7, <1>8, <1>9, <1>10 DEF SerialInv

\* A call that is the first without an answer is answered with its chunk.
LEMMA Replies ==
  ASSUME calls \in Calls, \A h \in Calls : h < calls => got[h] # None, ~Answered,
         got' = [got EXCEPT ![calls] = Stream!Chunk(calls)], UNCHANGED <<file_size, calls>>
  PROVE  Stream!Reply
<1>1. calls \in 1..calls /\ got[calls] = None /\ calls \in Nat
  BY ChunkedReaderAssumption DEF Calls, Answered
<1>2. \A i \in 1..(calls - 1) : i \in Calls /\ i < calls
  BY <1>1, ChunkedReaderAssumption DEF Calls
<1> QED
  BY <1>1, <1>2 DEF Stream!Reply

\* The latest call is answered, and every other one was.
LEMMA AnsweredLatest ==
  ASSUME TypeOK, NEW s, NEW r, NEW a, NEW x, AwaitInv(s, r, a), calls \in Calls,
         got' = [got EXCEPT ![calls] = x], calls' = calls, x # None
  PROVE  /\ \A h \in Calls : (h < calls' => got'[h] # None) /\ (h > calls' => got'[h] = None)
         /\ got'[calls'] = x
<1>1. calls \in Nat /\ got \in [Calls -> Answers \cup {None}]
  BY ChunkedReaderAssumption DEF Calls, TypeOK
<1>2. \A h \in Calls : h \in Nat
  BY ChunkedReaderAssumption DEF Calls
<1>3. \A h \in Calls : h < calls \/ h > calls => h # calls
  BY <1>1, <1>2
<1>4. \A h \in Calls : h # calls => got'[h] = got[h]
  BY <1>1
<1> QED
  BY <1>1, <1>3, <1>4 DEF AwaitInv

\* The handler of a call that was posted with its answer runs.
LEMMA RunBoundSerial ==
  ASSUME NEW s, NEW f, NEW r, NEW a,
         TypeOK, SerialInv(s, f, r, a), RunBound
  PROVE  SerialInv(s, f, r, a)' /\ Stream!Reply
<1>1. /\ io_ # <<>> /\ ~IsRead(Head(io_)) /\ io_' = Tail(io_) /\ mpc' = "callback"
      /\ got' = [got EXCEPT ![Head(io_).call] = Head(io_).answer]
      /\ UNCHANGED <<calls, q_handlers, q_buf_ready, file_size, start, copy, failed,
                     q_as_read_data, wpc, op>>
  BY DEF RunBound, Running, Enter, IsRead, mainVars, halfVars, workerVars, givenVars
<1>2. io_ \in Seq(Reads \cup Bound)
  BY DEF TypeOK, Bound
<1>3. /\ Head(io_) = io_[1] /\ 1 \in 1..Len(io_) /\ Head(io_) \in Bound
      /\ \A i \in 1..Len(io_') : i + 1 \in 1..Len(io_) /\ io_'[i] = io_[i + 1] /\ i + 1 # 1
  <2>1. /\ Len(io_) \in Nat /\ Head(io_) = io_[1] /\ 1 \in 1..Len(io_)
        /\ io_[1] \in Reads \cup Bound
        /\ \A i \in 1..Len(io_') : i + 1 \in 1..Len(io_) /\ io_'[i] = io_[i + 1]
    BY <1>1, <1>2, TailIndices
  <2>2. Head(io_) \in Bound
    BY <1>1, <2>1, HandlerKinds DEF IsRead
  <2>3. \A i \in 1..Len(io_') : i + 1 # 1
    OBVIOUS
  <2> QED
    BY <2>1, <2>2, <2>3
<1>4. /\ ~Answered /\ Head(io_).call = calls /\ q_handlers = <<>> /\ mpc # "taken"
      /\ \A k \in r..(s - 1) : ~Direct(k, a)
      /\ \A j \in 1..Len(io_) : ~IsRead(io_[j]) => j = 1
  BY <1>1, <1>3 DEF SerialInv, AwaitInv
<1>5. /\ Head(io_).answer = Stream!Chunk(calls)
      /\ Head(io_).answer.ec = "success" => calls = r - Ready
  BY <1>1, <1>3 DEF SerialInv, TurnInv
<1>6. calls \in Calls /\ Head(io_).answer \in Answers
  BY <1>3, <1>4, HandlerKinds
<1>7. Ready' = Ready /\ r - Ready' = r - Ready
  BY <1>1 DEF Ready
<1>8. \A i \in 1..Len(io_') : IsRead(io_'[i])
  BY <1>3, <1>4
<1> PICK x : x = Head(io_).answer
  OBVIOUS
<1>9. /\ \A h \in Calls : (h < calls' => got'[h] # None) /\ (h > calls' => got'[h] = None)
      /\ got'[calls'] = x
  <2>1. x # None
    BY <1>6, ChunkedReaderAssumption
  <2> QED
    BY <1>1, <1>4, <1>6, <2>1, AnsweredLatest DEF SerialInv
<1>10. AwaitInv(s, r, a)'
  BY <1>1, <1>4, <1>8, <1>9 DEF AwaitInv, IsRead, Direct
<1>11. TurnInv(s, r, a)'
  <2>1. Continues' => calls' = r - Ready'
    <3>1. calls' > 0
      BY <1>1, <1>6, ChunkedReaderAssumption DEF Calls
    <3> QED
      BY <1>1, <1>5, <1>7, <1>9, <3>1 DEF Continues
  <2> QED
    BY <1>1, <1>4, <1>8, <2>1 DEF TurnInv, IsRead, Direct
<1>12. ForInv'
  BY <1>1, <1>3 DEF SerialInv, ForInv, IsRead
<1>13. FromInv(f, r)'
  BY <1>1, <1>7 DEF SerialInv, FromInv
<1>14. Stream!Reply
  <2>1. \A h \in Calls : h < calls => got[h] # None
    BY DEF SerialInv, AwaitInv
  <2> QED
    BY <1>1, <1>4, <1>5, <1>6, <2>1, Replies
<1> QED
  BY <1>10, <1>11, <1>12, <1>13, <1>14 DEF SerialInv

\* The half that is handed out next holds the chunk of the call that gets it.
LEMMA HandsChunk ==
  ASSUME NEW s, NEW f, NEW r, NEW a, NEW qn, NEW on, NEW bn, NEW kind,
         TypeOK, StageTypes, HalvesExact, CodesExact, Flowing(s, f, r, a, qn, on, bn),
         SerialInv(s, f, r, a), mpc = "idle", io_ # <<>>, io_' = Tail(io_),
         IsRead(Head(io_)), HasData(Head(io_)), UNCHANGED <<wpc, op, stopped>>,
         Ready = 0, calls = r + 1, HandOver(kind, calls, Head(io_).buf, Head(io_).ec)
  PROVE  /\ got' = [got EXCEPT ![calls] = Stream!Chunk(calls)]
         /\ Stream!Chunk(calls) # None /\ mpc' = "callback"
<1>1. /\ r \in Nat /\ f \in Nat /\ r < f /\ Numbered(Head(io_), r, a) /\ hot[HalfOf(r)]
  BY MadeRun
<1>2. PICK b : b = HalfOf(r)
  OBVIOUS
<1>3. b \in Buffers /\ Head(io_).buf = b /\ hot[b]
  BY <1>1, <1>2, Halves DEF Numbered
<1>4. start[b] = Begin(r) /\ Begin(r) < file_size
  <2>1. r \in (r - Ready)..(f - 1)
    BY <1>1
  <2> QED
    BY <1>2, <2>1 DEF SerialInv, FromInv
<1>5. Head(io_).ec = bec[b] /\ bec[b] \in ErrorCode
  <2>1. Head(io_) = io_[1] /\ 1 \in 1..Len(io_)
    <3>1. io_ \in Seq(Reads \cup Bound)
      BY DEF TypeOK, Bound
    <3> QED
      BY <3>1, TailIndices
  <2>2. Head(io_).ec = bec[b]
    BY <1>3, <2>1 DEF CodesExact
  <2> QED
    BY <1>3, <2>2 DEF TypeOK
<1>6. PICK n : n = size[b]
  OBVIOUS
<1>7. n \in 0..ChunkSize /\ Exact(Begin(r), n) /\ bec[b] = CodeAt(Begin(r) + n)
  BY <1>3, <1>4, <1>6 DEF HalvesExact, TypeOK
<1>8. Answer(start[b], size[b], bec[b]) = Stream!Chunk(calls)
  BY <1>1, <1>4, <1>6, <1>7, ChunkOf
<1>9. Answer(start[b], size[b], bec[b]) # None
  BY <1>3, <1>5, AnswerType, ChunkedReaderAssumption
<1> QED
  BY <1>3, <1>5, <1>8, <1>9 DEF HandOver, Enter

\* The call that waited is answered, and none waits any more.
LEMMA HandedSerial ==
  ASSUME NEW s, NEW f, NEW r, NEW a, TypeOK, SerialInv(s, f, r, a), r \in Nat, s \in Nat,
         calls \in Calls, calls = r + 1, Ready = 0, Ready' = 0, ~Answered,
         got' = [got EXCEPT ![calls] = Stream!Chunk(calls)], Stream!Chunk(calls) # None,
         mpc' = "callback", q_handlers' = <<>>, \A k \in (r + 1)..(s - 1) : ~Direct(k, a),
         io_ # <<>>, io_' = Tail(io_), \A i \in 1..Len(io_') : IsRead(io_'[i]),
         UNCHANGED <<calls, file_size, start, failed, copy, q_as_read_data, wpc, op>>
  PROVE  SerialInv(s, f, r + 1, a)' /\ Stream!Reply
<1>1. /\ \A h \in Calls : (h < calls' => got'[h] # None) /\ (h > calls' => got'[h] = None)
      /\ got'[calls'] = Stream!Chunk(calls)
  BY AnsweredLatest DEF SerialInv
<1>2. (r + 1) - Ready' = calls /\ r - Ready = r /\ calls > 0
  <2>1. r + 1 - 0 = r + 1 /\ r - 0 = r /\ r + 1 > 0
    OBVIOUS
  <2> QED
    BY <2>1
<1>3. AwaitInv(s, r + 1, a)'
  BY <1>1 DEF AwaitInv, IsRead, Direct
<1>4. TurnInv(s, r + 1, a)'
  BY <1>2 DEF TurnInv, IsRead, Direct
<1>5. ForInv'
  <2>1. \A i \in 1..Len(io_') : i + 1 \in 1..Len(io_) /\ io_'[i] = io_[i + 1]
    <3>1. io_ \in Seq(Reads \cup Bound)
      BY DEF TypeOK, Bound
    <3> QED
      BY <3>1, TailIndices
  <2> QED
    BY <2>1 DEF SerialInv, ForInv, IsRead
<1>6. FromInv(f, r + 1)'
  <2>1. \A k \in ((r + 1) - Ready')..(f - 1) : k \in (r - Ready)..(f - 1)
    OBVIOUS
  <2> QED
    BY <2>1 DEF SerialInv, FromInv
<1>7. Stream!Reply
  <2>1. \A h \in Calls : h < calls => got[h] # None
    BY DEF SerialInv, AwaitInv
  <2> QED
    BY <2>1, Replies
<1> QED
  BY <1>3, <1>4, <1>5, <1>6, <1>7 DEF SerialInv

\* The handler of a read that was scheduled for its call runs.
LEMMA RunDirectSerial ==
  ASSUME NEW s, NEW f, NEW r, NEW a, NEW qn, NEW on, NEW bn,
         TypeOK, StageTypes, HalvesExact, CodesExact, Flowing(s, f, r, a, qn, on, bn),
         SerialInv(s, f, r, a), RunDirect, HasData(Head(io_))
  PROVE  SerialInv(s, f, r + 1, a)' /\ Stream!Reply
<1>1. /\ mpc = "idle" /\ io_ # <<>> /\ IsRead(Head(io_)) /\ io_' = Tail(io_)
      /\ Head(io_).call # None
      /\ HandOver("direct", Head(io_).call, Head(io_).buf, Head(io_).ec)
      /\ UNCHANGED <<calls, q_handlers, q_buf_ready, file_size, start, copy, failed,
                     q_as_read_data, wpc, op, stopped>>
  BY DEF RunDirect, Running, IsRead, mainVars, workerVars, givenVars
<1>2. /\ Head(io_) = io_[1] /\ 1 \in 1..Len(io_) /\ Head(io_) \in Reads
      /\ \A i \in 1..Len(io_') : i + 1 \in 1..Len(io_) /\ io_'[i] = io_[i + 1]
  <2>1. io_ \in Seq(Reads \cup Bound)
    BY DEF TypeOK, Bound
  <2>2. /\ Head(io_) = io_[1] /\ 1 \in 1..Len(io_) /\ io_[1] \in Reads \cup Bound
        /\ \A i \in 1..Len(io_') : i + 1 \in 1..Len(io_) /\ io_'[i] = io_[i + 1]
    BY <1>1, <2>1, TailIndices
  <2> QED
    BY <1>1, <2>2, HandlerKinds DEF IsRead
<1>3. /\ r \in Nat /\ f \in Nat /\ s \in Nat /\ r < f /\ f <= s /\ Numbered(Head(io_), r, a)
  BY <1>1, MadeRun
<1>4. r \in r..(s - 1) /\ Direct(r, a)
  BY <1>1, <1>3 DEF Numbered, Direct
<1>5. Head(io_).call = calls /\ calls \in Calls
  <2>1. Head(io_).call \in {None, calls} /\ Head(io_).call \in Calls \cup {None}
    BY <1>1, <1>2 DEF SerialInv, ForInv, Reads
  <2> QED
    BY <1>1, <2>1
<1>6. /\ ~Answered /\ q_handlers = <<>>
      /\ \A k \in r..(s - 1) : Direct(k, a) => k = r
  BY <1>4 DEF SerialInv, AwaitInv
<1>7. \A i \in 1..Len(io_) : IsRead(io_[i])
  BY <1>4 DEF SerialInv, AwaitInv
<1>8. Ready = 0 /\ Ready' = 0
  <2>1. Ready \in Nat /\ Ready' = Ready
    BY <1>1 DEF Ready, TypeOK
  <2>2. SUFFICES ASSUME Ready > 0  PROVE FALSE
    BY <2>1
  <2>3. a[r + 1] = a[r] + 1 /\ a[r + 1] = a[r]
    BY <1>4, <2>2 DEF Flowing, ReadyInv, Direct
  <2>4. a \in [Nat -> Nat]
    BY DEF Flowing, NumberInv
  <2>5. PICK m \in Nat : m = a[r]
    BY <1>3, <2>4
  <2>6. m = m + 1
    BY <2>3, <2>5
  <2> QED
    BY <2>6
<1>9. calls = r + 1
  <2>1. calls = r - Ready + 1
    BY <1>4 DEF SerialInv, TurnInv
  <2> QED
    BY <1>3, <1>8, <2>1
<1>10. /\ got' = [got EXCEPT ![calls] = Stream!Chunk(calls)]
       /\ Stream!Chunk(calls) # None /\ mpc' = "callback"
  BY <1>1, <1>5, <1>8, <1>9, HandsChunk
<1>11. \A k \in (r + 1)..(s - 1) : ~Direct(k, a)
  <2>1. \A k \in (r + 1)..(s - 1) : k \in r..(s - 1) /\ k # r
    BY <1>3
  <2> QED
    BY <1>6, <2>1
<1>12. \A i \in 1..Len(io_') : IsRead(io_'[i])
  BY <1>2, <1>7
<1> QED
  BY <1>1, <1>3, <1>5, <1>6, <1>8, <1>9, <1>10, <1>11, <1>12, HandedSerial

\* The handler of a prefetch runs, for the call that waits.
LEMMA RunPrefetchSerial ==
  ASSUME NEW s, NEW f, NEW r, NEW a, NEW qn, NEW on, NEW bn,
         TypeOK, StageTypes, HalvesExact, CodesExact, Flowing(s, f, r, a, qn, on, bn),
         SerialInv(s, f, r, a), RunPrefetch, HasData(Head(io_))
  PROVE  SerialInv(s, f, r + 1, a)' /\ Stream!Reply
<1>1. /\ mpc = "idle" /\ io_ # <<>> /\ IsRead(Head(io_)) /\ io_' = Tail(io_)
      /\ q_handlers # <<>> /\ q_handlers' = Tail(q_handlers)
      /\ HandOver("prefetch", Head(q_handlers), Head(io_).buf, Head(io_).ec)
      /\ UNCHANGED <<calls, q_buf_ready, file_size, start, copy, failed,
                     q_as_read_data, wpc, op, stopped>>
  BY DEF RunPrefetch, Running, IsRead, workerVars, givenVars
<1>2. \A i \in 1..Len(io_') : i + 1 \in 1..Len(io_) /\ io_'[i] = io_[i + 1]
  <2>1. io_ \in Seq(Reads \cup Bound)
    BY DEF TypeOK, Bound
  <2> QED
    BY <1>1, <2>1, TailIndices
<1>3. /\ r \in Nat /\ f \in Nat /\ s \in Nat /\ r < f /\ f <= s
  BY <1>1, MadeRun
<1>4. q_handlers = <<calls>> /\ ~Answered
  BY <1>1 DEF SerialInv, AwaitInv
<1>5. Head(q_handlers) = calls /\ calls \in Calls /\ q_handlers' = <<>>
  <2>1. q_handlers \in Seq(Calls)
    BY DEF TypeOK
  <2>2. Head(q_handlers) = q_handlers[1] /\ q_handlers[1] \in Calls
    BY <1>1, <2>1, TailIndices
  <2> QED
    BY <1>1, <1>4, <2>2
<1>6. \A k \in r..(s - 1) : ~Direct(k, a)
  BY <1>1 DEF SerialInv, AwaitInv
<1>7. \A i \in 1..Len(io_) : IsRead(io_[i])
  BY <1>1 DEF SerialInv, AwaitInv
<1>8. Ready = 0 /\ Ready' = 0
  <2>1. Ready \in Nat /\ Ready' = Ready
    BY <1>1 DEF Ready, TypeOK
  <2>2. Ready > 0 => q_handlers = <<>>
    BY DEF Flowing, ReadyInv
  <2> QED
    BY <1>1, <2>1, <2>2
<1>9. calls = r + 1
  <2>1. calls = r - Ready + 1
    BY <1>1 DEF SerialInv, TurnInv
  <2> QED
    BY <1>3, <1>8, <2>1
<1>10. /\ got' = [got EXCEPT ![calls] = Stream!Chunk(calls)]
       /\ Stream!Chunk(calls) # None /\ mpc' = "callback"
  BY <1>1, <1>5, <1>8, <1>9, HandsChunk
<1>11. \A k \in (r + 1)..(s - 1) : ~Direct(k, a)
  <2>1. \A k \in (r + 1)..(s - 1) : k \in r..(s - 1)
    BY <1>3
  <2> QED
    BY <1>6, <2>1
<1>12. \A i \in 1..Len(io_') : IsRead(io_'[i])
  BY <1>2, <1>7
<1> QED
  BY <1>1, <1>3, <1>4, <1>5, <1>8, <1>9, <1>10, <1>11, <1>12, HandedSerial

-----------------------------------------------------------------------------
(* Its calls in their turn, in every state.                                *)

\* The way the application calls does not change, and what was disturbed stays so.
LEMMA Disturbed ==
  ASSUME [Next]_vars
  PROVE  consumer' = consumer /\ (Undisturbed' => Undisturbed)
<1>1. CASE Call \/ Main
  BY <1>1 DEF Undisturbed, Call, Main, givenVars,
         TakeReady, QueueHandler, EndOfFile, ReadDirect, PostReady, AdvanceDirect, Prefetch,
         AdvancePrefetch, CallbackReturns, RunBound, RunDirect, RunPrefetch, RunPrefetchAhead
<1>2. CASE Worker
  BY <1>2 DEF Undisturbed, Worker, givenVars, WorkerPop, WorkerStopped, WorkerRequeue,
         WorkerProceed, WorkerRead, WorkerFinish, WorkerPost
<1>3. CASE Stop \/ UNCHANGED vars \/ \E n \in Resizes : Resize(n)
  BY <1>3 DEF Undisturbed, Stop, vars, givenVars, Resize
<1> QED
  BY <1>1, <1>2, <1>3 DEF Next

\* The numbers of a serial flow have their types.
LEMMA Serials ==
  ASSUME NEW s, NEW f, NEW r, NEW a, NEW qn, NEW on, NEW bn,
         Flowing(s, f, r, a, qn, on, bn)', SerialInv(s, f, r, a)'
  PROVE  SerialFlow'
<1>1. /\ s \in Nat /\ f \in Nat /\ r \in Nat /\ a \in [Nat -> Nat]
      /\ qn \in Seq(Nat) /\ on \in Nat /\ bn \in Seq(Nat)
  BY DEF Flowing, NumberInv
<1> QED
  BY <1>1 DEF SerialFlow

\* What the steps of an application that awaits its answers need to know.
Awaiting == TypeOK /\ StageTypes /\ ReadInv /\ EndInv /\ FlowInv /\ ContentInv
              /\ consumer # "pipelined" /\ Undisturbed

\* While nothing disturbs the reader, every step of the main thread keeps the calls in their turn.
LEMMA MainSerial ==
  ASSUME NEW s, NEW f, NEW r, NEW a, NEW qn, NEW on, NEW bn,
         Awaiting, Flowing(s, f, r, a, qn, on, bn), SerialInv(s, f, r, a), Call \/ Main
  PROVE  SerialFlow'
<1>1. /\ TypeOK /\ StageTypes /\ consumer # "pipelined" /\ ~stopped
      /\ HalvesExact /\ CodesExact /\ TakenExact
  BY DEF Awaiting, Undisturbed, ContentInv
<1>2. CASE TakeReady
  <2>1. Flowing(s, f, r, a, qn, on, bn)'
    BY <1>1, <1>2, TakeReadyFlows
  <2>2. SerialInv(s, f, r, a)'
    BY <1>1, <1>2, <2>1, TakeReadySerial
  <2> QED
    BY <2>1, <2>2, Serials
<1>3. CASE QueueHandler
  <2>1. Flowing(s, f, r, a, qn, on, bn)'
    BY <1>1, <1>3, QueueHandlerFlows
  <2>2. SerialInv(s, f, r, a)'
    BY <1>1, <1>3, QueueHandlerSerial
  <2> QED
    BY <2>1, <2>2, Serials
<1>4. CASE EndOfFile
  <2>1. Flowing(s, f, r, a, qn, on, Append(bn, 0))'
    BY <1>1, <1>4, EndOfFileFlows
  <2>2. SerialInv(s, f, r, a)'
    BY <1>1, <1>4, EndOfFileSerial
  <2> QED
    BY <2>1, <2>2, Serials
<1>5. CASE ReadDirect
  <2>1. PICK c : /\ c = Counted(a, s, calls + 1)
                 /\ Flowing(s + 1, f, r, c, Append(qn, s), on, bn)'
    BY <1>1, <1>5, ReadDirectFlows
  <2>2. SerialInv(s + 1, f, r, c)'
    BY <1>1, <1>5, <2>1, ReadDirectSerial
  <2> QED
    BY <2>1, <2>2, Serials
<1>6. CASE PostReady
  <2>1. Flowing(s, f, r, a, qn, on, Append(bn, 0))'
    BY <1>1, <1>6, PostReadyFlows
  <2>2. SerialInv(s, f, r, a)'
    BY <1>1, <1>6, PostReadySerial
  <2> QED
    BY <2>1, <2>2, Serials
<1>7. CASE Prefetch /\ MayPrefetch
  <2>1. Flowing(s + 1, f, r, Counted(a, s, None), Append(qn, s), on, bn)'
    BY <1>1, <1>7, PrefetchFlows
  <2>2. SerialInv(s + 1, f, r, Counted(a, s, None))'
    BY <1>1, <1>7, PrefetchSerial
  <2> QED
    BY <2>1, <2>2, Serials
<1>8. CASE \/ AdvanceDirect
           \/ AdvancePrefetch
           \/ CallbackReturns
           \/ Prefetch /\ ~MayPrefetch
  <2>1. Flowing(s, f, r, a, qn, on, bn)'
    BY <1>1, <1>8, CalmFlows
  <2>2. SerialInv(s, f, r, a)'
    BY <1>8, CalmSerial
  <2> QED
    BY <2>1, <2>2, Serials
<1>9. CASE RunBound
  <2>1. Flowing(s, f, r, a, qn, on, Tail(bn))'
    BY <1>1, <1>9, RunBoundFlows
  <2>2. SerialInv(s, f, r, a)'
    BY <1>1, <1>9, RunBoundSerial
  <2> QED
    BY <2>1, <2>2, Serials
<1>10. CASE RunDirect \/ RunPrefetch \/ RunPrefetchAhead
  <2>1. HasData(Head(io_))
    <3>1. io_ # <<>> /\ IsRead(Head(io_))
      BY <1>10 DEF RunDirect, RunPrefetch, RunPrefetchAhead, Running, IsRead
    <3>2. io_ \in Seq(Reads \cup Bound)
      BY <1>1 DEF TypeOK, Bound
    <3>3. Head(io_) = io_[1] /\ 1 \in 1..Len(io_)
      BY <3>1, <3>2, TailIndices
    <3> QED
      BY <1>1, <3>1, <3>3, ReadNumbers
  <2>2. CASE RunDirect
    <3>1. Flowing(s, f, r + 1, a, qn, on, Tail(bn))'
      BY <1>1, <2>1, <2>2, RunDirectFlows
    <3>2. SerialInv(s, f, r + 1, a)'
      BY <1>1, <2>1, <2>2, RunDirectSerial
    <3> QED
      BY <3>1, <3>2, Serials
  <2>3. CASE RunPrefetch
    <3>1. Flowing(s, f, r + 1, a, qn, on, Tail(bn))'
      BY <1>1, <2>1, <2>3, RunPrefetchFlows
    <3>2. SerialInv(s, f, r + 1, a)'
      BY <1>1, <2>1, <2>3, RunPrefetchSerial
    <3> QED
      BY <3>1, <3>2, Serials
  <2>4. CASE RunPrefetchAhead
    <3>1. Flowing(s, f, r + 1, a, qn, on, Tail(bn))'
      BY <1>1, <2>1, <2>4, RunAheadFlows
    <3>2. SerialInv(s, f, r + 1, a)'
      BY <1>1, <2>4, AheadSerial
    <3> QED
      BY <3>1, <3>2, Serials
  <2> QED
    BY <1>10, <2>2, <2>3, <2>4
<1>11. CASE Call
  BY <1>2, <1>3, <1>4, <1>5, <1>11, Zenon DEF Call
<1>12. CASE Main
  <2>1. CASE Prefetch
    BY <1>7, <1>8, <2>1
  <2>2. CASE AdvanceDirect \/ AdvancePrefetch \/ CallbackReturns
    BY <1>8, <2>2
  <2> QED
    BY <1>6, <1>9, <1>10, <1>12, <2>1, <2>2, Zenon DEF Main
<1> QED
  BY <1>11, <1>12

\* So does every step of the worker.
LEMMA WorkerSerial ==
  ASSUME NEW s, NEW f, NEW r, NEW a, NEW qn, NEW on, NEW bn,
         Awaiting, Undisturbed', EndInv', Flowing(s, f, r, a, qn, on, bn), SerialInv(s, f, r, a),
         Worker
  PROVE  SerialFlow'
<1>1. TypeOK /\ StageTypes /\ ReadInv /\ EndInv /\ FlowInv /\ ~stopped /\ ~resized /\ ~resized'
  BY DEF Awaiting, Undisturbed
<1>2. CASE WorkerPop
  <2>1. Flowing(s, f, r, a, Tail(qn), Head(qn), bn)'
    BY <1>1, <1>2, PopFlows
  <2>2. SerialInv(s, f, r, a)'
    BY <1>1, <1>2, MovesSerial
  <2> QED
    BY <2>1, <2>2, Serials
<1>3. CASE WorkerRequeue
  <2>1. Flowing(s, f, r, a, Append(qn, on), on, bn)'
    BY <1>1, <1>3, RequeueFlows
  <2>2. SerialInv(s, f, r, a)'
    BY <1>1, <1>3, MovesSerial
  <2> QED
    BY <2>1, <2>2, Serials
<1>4. CASE WorkerProceed
  <2>1. Flowing(s, f, r, a, qn, on, bn)'
    BY <1>1, <1>4, ProceedFlows
  <2>2. SerialInv(s, f, r, a)'
    BY <1>1, <1>4, MovesSerial
  <2> QED
    BY <2>1, <2>2, Serials
<1>5. CASE WorkerFinish
  <2>1. ~Broken'
    BY <1>1 DEF Broken
  <2>2. Flowing(s, f, r, a, qn, on, bn)'
    BY <1>1, <1>5, <2>1, FinishFlows
  <2>3. SerialInv(s, f, r, a)'
    BY <1>1, <1>5, MovesSerial
  <2> QED
    BY <2>2, <2>3, Serials
<1>6. CASE WorkerPost
  <2>1. Flowing(s, f, r, a, qn, on, Append(bn, on))'
    BY <1>1, <1>6, PostFlows
  <2>2. SerialInv(s, f, r, a)'
    BY <1>1, <1>6, PostSerial
  <2> QED
    BY <2>1, <2>2, Serials
<1>7. CASE WorkerRead
  <2>1. ~failed
    <3>1. ~Broken'
      BY <1>1 DEF Broken
    <3> QED
      BY <1>1, <1>7, <3>1, ReadBreaks
  <2>2. Flowing(s, f + 1, r, a, qn, on, bn)'
    BY <1>1, <1>7, <2>1, ReadFlows
  <2>3. SerialInv(s, f + 1, r, a)'
    BY <1>1, <1>7, <2>1, ReadSerial
  <2> QED
    BY <2>2, <2>3, Serials
<1>8. ~WorkerStopped
  BY <1>1 DEF WorkerStopped
<1> QED
  BY <1>2, <1>3, <1>4, <1>5, <1>6, <1>7, <1>8, Zenon DEF Worker

\* Every step keeps the calls in their turn.
LEMMA SerialStep ==
  ASSUME TypeOK, StageTypes, ReadInv, EndInv, EndInv', FlowInv, ContentInv, SerialFlow,
         [Next]_vars
  PROVE  SerialFlow'
<1>1. CASE ~(Undisturbed' /\ consumer' # "pipelined")
  BY <1>1 DEF SerialFlow
<1>2. CASE Undisturbed' /\ consumer' # "pipelined"
  <2>1. Awaiting /\ Undisturbed' /\ Undisturbed /\ consumer # "pipelined"
    BY <1>2, Disturbed DEF Awaiting
  <2>2. PICK s, f, r, on \in Nat, a \in [Nat -> Nat], qn, bn \in Seq(Nat) :
               Flowing(s, f, r, a, qn, on, bn) /\ SerialInv(s, f, r, a)
    BY <2>1 DEF SerialFlow
  <2>3. CASE Call \/ Main
    BY <2>1, <2>2, <2>3, MainSerial
  <2>4. CASE Worker
    BY <2>1, <2>2, <2>4, WorkerSerial
  <2>5. CASE UNCHANGED vars
    <3>1. Flowing(s, f, r, a, qn, on, bn)'
      <4>1. UNCHANGED <<mpc, within, pos_to_schedule, n_enqueued, swapped, q_handlers,
                        q_buf_ready, next, size, hot, bytes_read_, failed, file_size, wpc, op,
                        stopped, q_as_read_data, io_>>
        BY <2>5 DEF vars, mainVars, halfVars, workerVars, givenVars
      <4> QED
        BY <2>2, <4>1, SameFlows
    <3>2. SerialInv(s, f, r, a)'
      <4>1. /\ UNCHANGED <<calls, got, q_handlers, q_buf_ready, file_size, start, copy, failed,
                           io_, q_as_read_data, wpc, op, mpc>>
        BY <2>5 DEF vars, mainVars, halfVars, workerVars, givenVars
      <4>2. ForInv'
        BY <2>2, <4>1 DEF SerialInv, ForInv, IsRead
      <4> QED
        BY <2>2, <4>1, <4>2, SerialKept
    <3> QED
      BY <3>1, <3>2, Serials
  <2>6. ~Stop /\ ~(\E n \in Resizes : Resize(n))
    BY <1>2 DEF Undisturbed, Stop, Resize
  <2> QED
    BY <2>3, <2>4, <2>5, <2>6, Zenon DEF Next
<1> QED
  BY <1>1, <1>2

\* No call was made at the beginning.
LEMMA InitSerial == Init => SerialFlow
<1> SUFFICES ASSUME Init PROVE SerialFlow
  OBVIOUS
<1>1. PICK a \in [Nat -> Nat], e \in Seq(Nat) : Flowing(0, 0, 0, a, e, 0, e)
  BY InitFlowing
<1>2. 0..(0 - 1) = {} /\ 1..0 = {} /\ (0 - 0)..(0 - 1) = {}
  OBVIOUS
<1>3. /\ Ready = 0 /\ calls = 0 /\ q_handlers = <<>> /\ q_as_read_data = <<>> /\ io_ = <<>>
      /\ mpc = "idle" /\ wpc = "pop" /\ ~failed /\ \A h \in Calls : got[h] = None
      /\ Len(io_) = 0 /\ Len(q_as_read_data) = 0
  BY DEF Init, Ready
<1>4. AwaitInv(0, 0, a)
  <2>1. \A h \in Calls : ~(h < calls)
    BY <1>3, ChunkedReaderAssumption DEF Calls
  <2> QED
    BY <1>2, <1>3, <2>1 DEF AwaitInv
<1>5. ForInv /\ TurnInv(0, 0, a) /\ FromInv(0, 0)
  BY <1>2, <1>3 DEF ForInv, TurnInv, FromInv
<1>6. SerialInv(0, 0, 0, a) /\ 0 \in Nat
  BY <1>4, <1>5 DEF SerialInv
<1>7. \E s, f, r, on \in Nat, c \in [Nat -> Nat], qn, bn \in Seq(Nat) :
        Flowing(s, f, r, c, qn, on, bn) /\ SerialInv(s, f, r, c)
  BY <1>1, <1>6, Zenon
<1> QED
  BY <1>7 DEF SerialFlow

\* A step of such an application's reader is one of ChunkStream, or is not seen there.
LEMMA StreamStep ==
  ASSUME TypeOK, StageTypes, ContentInv, SerialFlow, [Next]_vars,
         consumer # "pipelined", Undisturbed
  PROVE  Stream!Next \/ UNCHANGED <<file_size, calls, got>>
<1>1. PICK s, f, r, on \in Nat, a \in [Nat -> Nat], qn, bn \in Seq(Nat) :
             Flowing(s, f, r, a, qn, on, bn) /\ SerialInv(s, f, r, a)
  BY DEF SerialFlow
<1>2. ~stopped /\ HalvesExact /\ CodesExact
  BY DEF Undisturbed, ContentInv
<1>3. CASE Call
  <2>1. Stream!Ask
    BY <1>3 DEF Call, TakeReady, QueueHandler, EndOfFile, ReadDirect, MayCall, Stream!Ask, givenVars
  <2> QED
    BY <2>1 DEF Stream!Next
<1>4. CASE RunBound
  BY <1>1, <1>4, RunBoundSerial DEF Stream!Next
<1>5. CASE RunDirect \/ RunPrefetch
  <2>1. HasData(Head(io_))
    <3>1. io_ # <<>> /\ IsRead(Head(io_))
      BY <1>5 DEF RunDirect, RunPrefetch, Running, IsRead
    <3>2. io_ \in Seq(Reads \cup Bound)
      BY DEF TypeOK, Bound
    <3>3. Head(io_) = io_[1] /\ 1 \in 1..Len(io_)
      BY <3>1, <3>2, TailIndices
    <3> QED
      BY <1>1, <1>2, <3>1, <3>3, ReadNumbers
  <2>2. CASE RunDirect
    BY <1>1, <1>2, <2>1, <2>2, RunDirectSerial DEF Stream!Next
  <2>3. CASE RunPrefetch
    BY <1>1, <1>2, <2>1, <2>3, RunPrefetchSerial DEF Stream!Next
  <2> QED
    BY <1>5, <2>2, <2>3
<1>6. CASE \/ PostReady \/ AdvanceDirect \/ Prefetch \/ AdvancePrefetch \/ CallbackReturns
           \/ RunPrefetchAhead
  BY <1>6 DEF PostReady, AdvanceDirect, Prefetch, AdvancePrefetch, CallbackReturns,
         RunPrefetchAhead, givenVars, Schedule
<1>7. CASE Worker
  BY <1>7 DEF Worker, givenVars, mainVars, WorkerPop, WorkerStopped, WorkerRequeue,
         WorkerProceed, WorkerRead, WorkerFinish, WorkerPost
<1>8. CASE Stop \/ UNCHANGED vars \/ \E n \in Resizes : Resize(n)
  BY <1>8 DEF Stop, vars, mainVars, givenVars, Resize
<1>9. CASE Main
  BY <1>4, <1>5, <1>6, <1>9, Zenon DEF Main
<1> QED
  BY <1>3, <1>7, <1>8, <1>9, Zenon DEF Next

-----------------------------------------------------------------------------
(* Theorems about what the calls are given.                                  *)

\* The inductive invariant of the theorems below.
OrderInv == IInv /\ EndInv /\ FlowInv /\ ContentInv

\* The reads are in their order at the beginning, and stay so.
LEMMA InitOrder == Init => OrderInv
BY InitInv, InitFlow, InitContent DEF OrderInv

\* Every step keeps them so.
LEMMA StepOrder == OrderInv /\ [Next]_vars => OrderInv'
<1> SUFFICES ASSUME OrderInv, [Next]_vars PROVE OrderInv'
  OBVIOUS
<1>1. TypeOK /\ StageTypes /\ ReadInv /\ IInv /\ EndInv /\ FlowInv /\ ContentInv
  BY DEF OrderInv, IInv
<1>2. HalfNotOverwritten
  BY <1>1, FlowApart
<1>3. IInv' /\ EndInv' /\ FlowInv' /\ ContentInv'
  BY <1>1, <1>2, StepInv, EndStep, FlowStep, ContentStep
<1> QED
  BY <1>3 DEF OrderInv

\* The reads are always in their order, and what they read is what the file holds.
THEOREM OrderInvariance == Spec => []OrderInv
BY InitOrder, StepOrder, PTL DEF Spec

\* A half that was filled is never filled again before its handler or a later call has
\* consumed it (fs_manager.cpp:285), however the worker and the handlers interleave.
THEOREM HalvesApart == Spec => []HalfNotOverwritten
<1>1. OrderInv => HalfNotOverwritten
  BY FlowApart DEF OrderInv, IInv
<1> QED
  BY <1>1, OrderInvariance, PTL

\* While nobody destroys the stream or changes the file, the assertions of next_chunk, of
\* its two handlers and of eof() hold, however many calls are made at once.
THEOREM AssertionsHoldAlways == Spec => []AssertionsHoldUndisturbed
<1>1. OrderInv => AssertionsHoldUndisturbed
  BY FlowAsserts DEF OrderInv, IInv
<1> QED
  BY <1>1, OrderInvariance, PTL

\* While the file keeps its size, what the calls are given are whole chunks of it with the
\* right code, also when the stream is destroyed while reads are pending.
THEOREM ChunksExactAlways == Spec => []ChunksExact
<1>1. OrderInv => ChunksExact
  BY ContentExact DEF OrderInv, IInv
<1> QED
  BY <1>1, OrderInvariance, PTL

\* The inductive invariant, with the calls of an application that awaits each answer in
\* their turn.
TurnsInv == OrderInv /\ SerialFlow

\* They are in their turn at the beginning, and stay so.
LEMMA StepTurns == TurnsInv /\ [Next]_vars => TurnsInv'
<1> SUFFICES ASSUME TurnsInv, [Next]_vars PROVE TurnsInv'
  OBVIOUS
<1>1. OrderInv'
  BY StepOrder DEF TurnsInv
<1>2. SerialFlow'
  BY <1>1, SerialStep DEF TurnsInv, OrderInv, IInv
<1> QED
  BY <1>1, <1>2 DEF TurnsInv

\* The calls are always in their turn.
THEOREM TurnsInvariance == Spec => []TurnsInv
<1>1. Init => TurnsInv
  BY InitOrder, InitSerial DEF TurnsInv
<1> QED
  BY <1>1, StepTurns, PTL DEF Spec

\* However the reads are split between direct ones and prefetches, an application that awaits
\* each answer sees the plain stream of ChunkStream until something disturbs it: the i-th call
\* of next_chunk (fs_manager.h:504) is answered, once, with the i-th chunk of the file.
THEOREM StreamImplemented == Spec => ImplementsChunkStream
<1>1. Init => Stream!Init
  <2> SUFFICES ASSUME Init PROVE Stream!Init
    OBVIOUS
  <2>1. file_size \in Nat
    BY ChunkedReaderAssumption DEF Init
  <2> QED
    BY <2>1 DEF Init, Stream!Init, Calls
<1>2. TurnsInv /\ [Next]_vars =>
        [consumer # "pipelined" /\ Undisturbed => Stream!Next]_<<file_size, calls, got>>
  <2> SUFFICES ASSUME TurnsInv, [Next]_vars, consumer # "pipelined", Undisturbed
               PROVE  Stream!Next \/ UNCHANGED <<file_size, calls, got>>
    OBVIOUS
  <2> QED
    BY StreamStep DEF TurnsInv, OrderInv, IInv
<1> QED
  BY <1>1, <1>2, TurnsInvariance, PTL DEF Spec, ImplementsChunkStream
=============================================================================

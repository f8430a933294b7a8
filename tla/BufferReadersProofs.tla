------------------------ MODULE BufferReadersProofs -------------------------
(* Theorems about the composite readers of a SwappingBuffer, for every     *)
(* threshold, every size of chunks and of the file extended.               *)
EXTENDS SwappingBufferProofs

-----------------------------------------------------------------------------
(* Lists, and what they are made of.                                        *)

\* Concatenation is associative.
LEMMA ConcatThree ==
  ASSUME NEW S, NEW X \in Seq(S), NEW Y \in Seq(S), NEW Z \in Seq(S)
  PROVE  (X \o Y) \o Z = X \o (Y \o Z)
BY ConcatAssociative

\* An element added to the second of two lists is added to the list of both.
LEMMA ConcatAppend ==
  ASSUME NEW S, NEW X \in Seq(S), NEW Y \in Seq(S), NEW x \in S
  PROVE  X \o Append(Y, x) = Append(X \o Y, x)
<1>1. Append(Y, x) = Y \o <<x>>
  BY AppendIsConcat
<1>2. X \o Y \in Seq(S) /\ <<x>> \in Seq(S)
  BY ConcatProperties
<1>3. Append(X \o Y, x) = (X \o Y) \o <<x>>
  BY <1>2, AppendIsConcat
<1>4. (X \o Y) \o <<x>> = X \o (Y \o <<x>>)
  BY <1>2, ConcatThree
<1> QED
  BY <1>1, <1>3, <1>4

\* What is made of two lists of lists is made of each of them.
LEMMA FlattenConcat ==
  ASSUME NEW S, NEW s \in Seq(Seq(S)), NEW t \in Seq(Seq(S))
  PROVE  FlattenSeq(s \o t) = FlattenSeq(s) \o FlattenSeq(t)
<1> DEFINE Q == Seq(Seq(S))
           I == {n \in Nat : \A u \in Q : Len(u) = n => FlattenSeq(s \o u) = FlattenSeq(s) \o FlattenSeq(u)}
<1>0. \A u \in Q : FlattenSeq(u) \in Seq(S)
  BY FlattenAppend, EmptySeq
<1>c. \A X, Y, Z \in Seq(S) : (X \o Y) \o Z = X \o (Y \o Z)
  BY ConcatThree
<1>1. 0 \in I
  <2> SUFFICES ASSUME NEW u \in Q, Len(u) = 0
               PROVE  FlattenSeq(s \o u) = FlattenSeq(s) \o FlattenSeq(u)
    OBVIOUS
  <2>1. u = <<>> /\ s \o <<>> = s
    BY EmptySeq, ConcatEmptySeq
  <2>2. FlattenSeq(<<>>) = <<>> /\ FlattenSeq(s) \o <<>> = FlattenSeq(s)
    BY <1>0, EmptySeq, ConcatEmptySeq DEF FlattenSeq
  <2> QED
    BY <2>1, <2>2
<1>2. ASSUME NEW n \in Nat, n \in I
      PROVE  n + 1 \in I
  <2> SUFFICES ASSUME NEW u \in Q, Len(u) = n + 1
               PROVE  FlattenSeq(s \o u) = FlattenSeq(s) \o FlattenSeq(u)
    OBVIOUS
  <2>1. PICK v \in Q, x \in Seq(S) : u = Append(v, x) /\ Len(v) = n
    <3> DEFINE v == SubSeq(u, 1, n)
               x == u[n + 1]
    <3>1. x \in Seq(S)
      OBVIOUS
    <3>2. v \in Q /\ Len(v) = n /\ \A i \in 1..n : v[i] = u[i]
      BY SubSeqProperties
    <3> HIDE DEF v
    <3>3. /\ Append(v, x) \in Q /\ Len(Append(v, x)) = n + 1 /\ Append(v, x)[n + 1] = x
          /\ \A i \in 1..n : Append(v, x)[i] = v[i]
      BY <3>1, <3>2, AppendProperties
    <3>4. u = Append(v, x)
      <4> DEFINE w == Append(v, x)
      <4>1. w \in Q /\ Len(w) = n + 1 /\ \A i \in 1..(n + 1) : w[i] = u[i]
        BY <3>2, <3>3
      <4> HIDE DEF w
      <4>2. w = u
        BY <4>1, SeqEqual
      <4> QED
        BY <4>2 DEF w
    <3> QED
      BY <3>1, <3>2, <3>4
  <2>2. s \o v \in Q
    BY ConcatProperties
  <2>3. FlattenSeq(s \o v) = FlattenSeq(s) \o FlattenSeq(v)
    BY <1>2, <2>1
  <2>4. s \o Append(v, x) = Append(s \o v, x)
    BY ConcatAppend
  <2>5. FlattenSeq(Append(s \o v, x)) = FlattenSeq(s \o v) \o x
    BY <2>2, FlattenAppend
  <2>6. FlattenSeq(Append(v, x)) = FlattenSeq(v) \o x
    BY FlattenAppend
  <2>7. (FlattenSeq(s) \o FlattenSeq(v)) \o x = FlattenSeq(s) \o (FlattenSeq(v) \o x)
    <3>1. FlattenSeq(s) \in Seq(S) /\ FlattenSeq(v) \in Seq(S)
      BY <1>0
    <3> QED
      BY <1>c, <3>1
  <2> QED
    BY <2>1, <2>3, <2>4, <2>5, <2>6, <2>7
<1>3. \A n \in Nat : n \in I
  <2> HIDE DEF I
  <2> QED
    BY <1>1, <1>2, SetInduction
<1>4. Len(t) \in I
  BY <1>3
<1> QED
  BY <1>4

-----------------------------------------------------------------------------
(* What a reader reads, and what waits for it.                              *)

\* The bytes of pieces, and the streams over them.
LEMMA OpenStream ==
  ASSUME TokenInv, SizeInv, original_size \in Nat, NEW content \in Pieces
  PROVE  /\ BytesOf(content) \in Seq(Byte)
         /\ Open(content) \in Streams /\ Open(content) # None
<1> PICK n \in 0..MaxCalls : n = Len(calls)
  BY DEF TokenInv, Lists
<1>0. MaxCalls \in Nat
  BY SwappingBufferAssumption
<1>1. \A p \in 0..n : Piece(p) \in Seq(Byte)
  <2> SUFFICES ASSUME NEW p \in 0..n
               PROVE  Piece(p) \in Seq(Byte)
    OBVIOUS
  <2> DEFINE m == IF p = 0 THEN original_size ELSE calls[p].size
  <2>1. m \in Nat
    BY <1>0 DEF SizeInv
  <2>2. Piece(p) = [o \in 1..m |-> <<p, o>>]
    BY DEF Piece
  <2> HIDE DEF m
  <2>3. \A o \in 1..m : <<p, o>> \in Byte
    BY <1>0 DEF Byte
  <2>4. [o \in 1..m |-> <<p, o>>] \in [1..m -> Byte]
    BY <2>3
  <2> QED
    BY <2>1, <2>2, <2>4, SeqDef
<1> DEFINE s == [i \in DOMAIN content |-> Piece(content[i])]
<1>2. s \in Seq(Seq(Byte))
  <2>1. content \in Seq(0..n)
    BY DEF Pieces
  <2> DEFINE k == Len(content)
             T == Seq(Byte)
  <2>2. k \in Nat /\ DOMAIN content = 1..k
    BY <2>1
  <2>3. \A i \in 1..k : content[i] \in 0..n
    BY <2>1
  <2> HIDE DEF k, T
  <2>4. \A i \in 1..k : Piece(content[i]) \in T
    BY <1>1, <2>3 DEF T
  <2>5. s \in [1..k -> T]
    BY <2>2, <2>4
  <2> HIDE DEF s
  <2>6. s \in Seq(T)
    BY <2>2, <2>5, SeqDef
  <2> QED
    BY <2>6 DEF T
<1>3. BytesOf(content) = FlattenSeq(s)
  BY DEF BytesOf
<1> HIDE DEF s
<1>4. FlattenSeq(s) \in Seq(Byte)
  BY <1>2, FlattenAppend, EmptySeq
<1>5. BytesOf(content) \in Seq(Byte)
  BY <1>3, <1>4
<1>6. Open(content) \in Streams
  BY <1>5 DEF Open, Streams
<1> QED
  BY <1>5, <1>6, BufferReadersAssumption

\* An operation that runs, or a handler, takes the first task and posts no more than one.
LEMMA TakesTurn ==
  ASSUME Run \/ Handle
  PROVE  /\ io_ # <<>> /\ Head(io_).task \in {"operation", "cleared", "handler"}
         /\ io_' = Tail(io_) \/ \E t : t.task = "cleared" /\ io_' = Append(Tail(io_), t)
<1>1. CASE RunAppend \/ RunSize \/ RunReadAll \/ RunSave
  <2>1. PICK op : Running(op) /\ io_' = Tail(io_)
    BY <1>1 DEF RunAppend, RunSize, RunReadAll, RunSave
  <2> QED
    BY <2>1 DEF Running
<1>2. CASE RunClear
  <2>1. Running("clear") /\ io_' = Append(Tail(io_), [task |-> "cleared", call |-> Turn])
    BY <1>2 DEF RunClear
  <2>2. PICK t : t.task = "cleared" /\ io_' = Append(Tail(io_), t)
    BY <2>1
  <2> QED
    BY <2>1, <2>2 DEF Running
<1>3. CASE RunCleared
  BY <1>3 DEF RunCleared
<1>4. CASE Handle
  <2>1. PICK step : Handling(step)
    BY <1>4 DEF Handle, SwapDone, SwapRetry, SwapFailed, LocalSaved, RestSaved, MoveFailed,
       CopyChunk, ChunkCopied, TailSaved, ReadDone, ReadTmpDone
  <2> QED
    BY <2>1 DEF Handling
<1> QED
  BY <1>1, <1>2, <1>3, <1>4 DEF Run

\* The steps of the buffer post nothing that concerns a reader.
LEMMA BufferTasks ==
  ASSUME TokenInv, SwapInv, Run \/ Handle \/ CallbackReturns \/ Worker
  PROVE  \A t \in Elements(io_') : t \in Elements(io_) \/ t.task \in {"cleared", "handler", "operation"}
<1>1. CASE Run \/ Handle
  <2>1. io_ # <<>> /\ (io_' = Tail(io_) \/ \E t : t.task = "cleared" /\ io_' = Append(Tail(io_), t))
    BY <1>1, TakesTurn
  <2>2. Elements(Tail(io_)) \subseteq Elements(io_) /\ IsList(Tail(io_))
    BY <2>1, IoSets
  <2>3. \A t : Elements(Append(Tail(io_), t)) = Elements(Tail(io_)) \cup {t}
    BY <2>2, AppendList
  <2>4. CASE io_' = Tail(io_)
    BY <2>2, <2>4
  <2>5. ASSUME NEW t, t.task = "cleared", io_' = Append(Tail(io_), t)
        PROVE  \A u \in Elements(io_') : u \in Elements(io_) \/ u.task = "cleared"
    BY <2>2, <2>3, <2>5
  <2> QED
    BY <2>1, <2>4, <2>5
<1>3. CASE CallbackReturns
  BY <1>3, CallAdds
<1>4. CASE Worker
  <2>1. PICK t : t.task = "handler" /\ io_' = Append(io_, t)
    BY <1>4 DEF Worker, PerformRequest, FailRequest, Handler
  <2>2. Elements(io_') = Elements(io_) \cup {t}
    BY <2>1, AppendList DEF TokenInv, Lists
  <2> QED
    BY <2>1, <2>2
<1> QED
  BY <1>1, <1>3, <1>4

\* A request, or a handler, whose step is one of a save, has a save to belong to.
LEMMA SaveStepSaves ==
  ASSUME TokenInv, KindInv
  PROVE  /\ \A r \in Elements(fs) : r.step \in SaveSteps => Saving
         /\ \A step \in SaveSteps : Handling(step) => Saving
<1>1. ASSUME NEW r \in Elements(fs), r.step \in SaveSteps
      PROVE  Saving
  <2>1. calls[r.call].op = "save"
    BY <1>1 DEF KindInv, OpOf, SaveSteps
  <2>2. r.call \in Unanswered
    BY DEF TokenInv, Outstanding, FsCalls
  <2> QED
    BY <2>1, <2>2 DEF Unanswered, Saving
<1>2. ASSUME NEW step \in SaveSteps, Handling(step)
      PROVE  Saving
  <2>1. io_ # <<>> /\ Own(Head(io_)) /\ calls[Turn].op = OpOf(step)
    BY <1>2, HandlingOp
  <2>2. Turn \in 1..Len(calls) /\ OpOf(step) = "save"
    BY <2>1, HeadOfIo DEF OpOf, SaveSteps
  <2> QED
    BY <2>1, <2>2 DEF Saving
<1> QED
  BY <1>1, <1>2

\* With nothing queued, no swap and no save, a buffer does not change.
AtPeace == Queued = {} /\ ~swapping /\ ~Saving

\* No step of the buffer disturbs it.
LEMMA PeaceKept ==
  ASSUME TokenInv, RequestInv, KindInv, SwapInv, FileInv, AtPeace,
         Run \/ Handle \/ CallbackReturns \/ Worker
  PROVE  /\ UNCHANGED <<kind, bufs, currentBuffer, tmp, dest, isOnDisk, swapping, error, logical, calls>>
         /\ AtPeace'
<1> DEFINE Kept == UNCHANGED <<kind, bufs, currentBuffer, tmp, dest, isOnDisk, swapping, error, logical, calls>>
<1>0. SwapRequests = {} /\ SwapHandlers = {} /\ PostedOperations = {}
  BY DEF SwapInv, AtPeace, Queued
<1>1. CASE Run
  <2>1. ASSUME NEW op, Running(op)
        PROVE  FALSE
    <3>1. io_ # <<>> /\ Head(io_).task = "operation"
      BY <2>1 DEF Running
    <3> QED
      BY <1>0, <3>1, HeadOfIo DEF PostedOperations
  <2>2. RunCleared
    BY <1>1, <2>1 DEF Run, RunAppend, RunSize, RunClear, RunReadAll, RunSave
  <2>3. Kept
    BY <2>2 DEF RunCleared, bufferVars, flagVars, fileVars
  <2> QED
    BY <1>1, <2>3, RunPlain, PlainQueued DEF AtPeace, Saving
<1>2. CASE Handle
  <2>1. ~Handling("swap")
    BY <1>0, HeadOfIo DEF Handling, SwapHandlers
  <2>2. \A step \in SaveSteps : ~Handling(step)
    BY SaveStepSaves DEF AtPeace
  <2>3. ~(SwapDone \/ SwapRetry \/ SwapFailed)
    BY <2>1 DEF SwapDone, SwapRetry, SwapFailed
  <2>4. ~(LocalSaved \/ RestSaved \/ MoveFailed \/ CopyChunk \/ ChunkCopied \/ TailSaved)
    BY <2>2 DEF LocalSaved, RestSaved, MoveFailed, CopyChunk, ChunkCopied, TailSaved, SaveSteps
  <2>5. ReadDone \/ ReadTmpDone
    BY <1>2, <2>3, <2>4 DEF Handle
  <2>6. Kept
    BY <2>5 DEF ReadDone, ReadTmpDone, Settled, fileVars
  <2> QED
    BY <1>2, <2>6, HandlePlain, PlainQueued DEF AtPeace, Saving
<1>3. CASE CallbackReturns
  <2>1. Kept
    BY <1>3 DEF CallbackReturns, bufferVars, flagVars, fileVars
  <2> QED
    BY <1>3, <2>1, CallbackQueued DEF AtPeace, Saving
<1>4. CASE Worker
  <2> DEFINE r == Head(fs)
             f == WorkerFile(r)
  <2>1. fs # <<>> /\ r \in Elements(fs)
    BY <1>4, FsSets DEF Worker, PerformRequest, FailRequest
  <2>2. r.step \in {"read", "read_tmp"} /\ r.mode = "read"
    BY <1>0, <2>1, SaveStepSaves DEF FileInv, AtPeace, SwapRequests
  <2>3. /\ UNCHANGED <<kind, bufs, currentBuffer, isOnDisk, swapping, error, logical, calls>>
        /\ \/ UNCHANGED <<tmp, dest>>
           \/ /\ tmp'  = IF r.file = "tmp"  THEN Completed(f, r) ELSE tmp
              /\ dest' = IF r.file = "dest" THEN Completed(f, r) ELSE dest
    BY <1>4 DEF Worker, PerformRequest, FailRequest, bufferVars, flagVars, fileVars
  <2>4. Completed(f, r) = f /\ f = IF r.file = "tmp" THEN tmp ELSE dest
    BY <2>2 DEF Completed, WorkerFile
  <2> HIDE DEF f, r
  <2>5. Kept
    BY <2>3, <2>4
  <2> QED
    BY <1>4, <2>5, WorkerPlain, PlainQueued DEF AtPeace, Saving
<1> QED
  BY <1>1, <1>2, <1>3, <1>4

\* The streams over pieces before a step.
LEMMA Opens ==
  TokenInv /\ SizeInv /\ original_size \in Nat =>
    \A content \in Pieces : Open(content) \in Streams /\ Open(content) # None
BY OpenStream

\* The same after it.
LEMMA OpensNext ==
  (TokenInv /\ SizeInv /\ original_size \in Nat =>
     \A content \in Pieces : Open(content) \in Streams /\ Open(content) # None)'
BY Opens, PTL

\* What is known of a reader when it is made.
LEMMA ReaderMade ==
  ASSUME NEW s \in Streams, NEW class \in {"append", "overwrite", "cache"}
  PROVE  /\ Reader("append", s, None, None) \in Readers
         /\ Reader("overwrite", None, s, None) \in Readers
         /\ Reader("cache", None, None, 0) \in Readers
BY DEF Reader, Readers

\* While the application awaits a reader it makes no call, and no other reader is made.
LEMMA MadeAlone ==
  ASSUME TokenInv, KindInv, OverlapInv, SwapsAwaited, StreamAwaited, NEW t \in Made
  PROVE  /\ Made = {t} /\ Own(t)
         /\ \A op, size : ~MayCall(op, size)
<1>1. \A u \in Made : u \in Elements(io_) /\ Own(u) /\ u.call \in Unanswered /\ Key(u.call)[1] = "make_chunked_stream"
  <2> SUFFICES ASSUME NEW u \in Made
               PROVE  u \in Elements(io_) /\ Own(u) /\ u.call \in Unanswered /\ Key(u.call)[1] = "make_chunked_stream"
    OBVIOUS
  <2>1. u \in Elements(io_) /\ u.task = "made" /\ Own(u)
    BY DEF Made, Own
  <2>2. u.call \in Unanswered
    BY <2>1 DEF TokenInv, Outstanding, IoCalls
  <2>3. calls[u.call].op = "make_chunked_stream"
    BY <2>1 DEF KindInv, TaskOp
  <2> QED
    BY <2>1, <2>2, <2>3 DEF Key
<1>2. \A c, x : Key(c)[1] = "make_chunked_stream" => <<Key(c), x>> \notin Overlaps
  <2> SUFFICES ASSUME NEW c, NEW x, Key(c)[1] = "make_chunked_stream", <<Key(c), x>> \in Overlaps
               PROVE  FALSE
    OBVIOUS
  <2> DEFINE p == <<Key(c), x>>
  <2>1. p \in Overlaps /\ p[1] = Key(c)
    OBVIOUS
  <2> HIDE DEF p
  <2> QED
    BY <2>1 DEF StreamAwaited
<1>3. ASSUME NEW u \in Made
      PROVE  u = t
  <2>1. u.call \in Int /\ t.call \in Int
    BY <1>1 DEF Unanswered
  <2>2. ~(u.call < t.call) /\ ~(t.call < u.call)
    BY <1>1, <1>2 DEF OverlapInv
  <2>3. u.call = t.call
    BY <2>1, <2>2
  <2>4. PICK i \in 1..Len(io_), j \in 1..Len(io_) : u = io_[i] /\ t = io_[j]
    BY <1>1 DEF Elements
  <2>5. i = j
    BY <1>1, <2>3, <2>4 DEF TokenInv, IoOnce
  <2> QED
    BY <2>4, <2>5
<1>4. ASSUME NEW op, NEW size, MayCall(op, size)
      PROVE  FALSE
  BY <1>1, <1>2, <1>4, AllowedCall
<1> QED
  BY <1>1, <1>3, <1>4

\* A call of the application is one that is allowed.
LEMMA CallAllowed ==
  ASSUME AppCall \/ Enqueue("make_chunked_stream")
  PROVE  \E op, size : MayCall(op, size)
BY DEF AppCall, AppendInMemory, AppendHuge, AppendAndSwap, AppendDuringSwap, AppendCall, Enqueue

\* The reader a buffer makes.
LEMMA NewReaderHolds ==
  ASSUME TokenInv', SizeInv', PiecesInv', original_size' \in Nat, FilesThere', ~SaveBegun', isOnDisk' \in BOOLEAN
  PROVE  \A r : r = NewReader' => Holds(r)'
<1> SUFFICES ASSUME NEW R, R = NewReader'
             PROVE  Holds(R)'
  OBVIOUS
<1>1. kind' \in {"Append", "Overwrite"} /\ (isOnDisk' => tmp' # None)
  BY DEF FilesThere
<1>2. dest' \in Pieces' /\ (tmp' # None => tmp' \in Pieces')
  BY DEF PiecesInv
<1>3. \A content \in Pieces' : Open(content)' \in Streams /\ Open(content)' # None
  BY OpensNext
<1> DEFINE d == Open(dest)'
           s == Open(tmp)'
<1>4. d \in Streams /\ d # None
  BY <1>2, <1>3
<1>5. isOnDisk' => s \in Streams /\ s # None
  BY <1>1, <1>2, <1>3
<1>6. \/ kind' = "Append" /\ isOnDisk' /\ R = Reader("append", d, None, None)
      \/ kind' = "Append" /\ ~isOnDisk' /\ R = Reader("overwrite", None, d, None)
      \/ kind' = "Overwrite" /\ isOnDisk' /\ R = Reader("overwrite", None, s, None)
      \/ kind' = "Overwrite" /\ ~isOnDisk' /\ R = Reader("cache", None, None, 0)
  BY <1>1 DEF NewReader
<1> HIDE DEF d, s
<1>7. R \in Readers /\ 0 # None
  BY <1>4, <1>5, <1>6, ReaderMade, BufferReadersAssumption
<1>8. /\ R.file # None => isOnDisk'
      /\ R.class = "cache" => R.pos # None
      /\ R.file = None /\ R.tmp_file = None => R.pos # None
  BY <1>4, <1>5, <1>6, <1>7 DEF Reader
<1> QED
  BY <1>7, <1>8 DEF Holds

\* When a reader is made nothing else is going on.
LEMMA MakeAlone ==
  ASSUME TokenInv, SwapInv, OrderInv, StreamAwaited, RunMake
  PROVE  /\ AtPeace' /\ Queued # {}
         /\ UNCHANGED <<kind, isOnDisk, tmp, dest, swapping, calls>>
<1>1. /\ io_ # <<>> /\ Own(Head(io_)) /\ Head(io_).task = "operation"
      /\ calls[Turn].op = "make_chunked_stream"
      /\ UNCHANGED <<kind, isOnDisk, tmp, dest, swapping, calls, callbacks>>
  BY DEF RunMake, Running, Own, BufferRests, flagVars, fileVars, Turn
<1>1a. io_' = Append(Tail(io_), [task |-> "made", call |-> Turn, reader |-> NewReader'])
  BY DEF RunMake
<1>2. PlainStep /\ Queued' \subseteq Queued
  BY ReaderPlain, PlainQueued DEF ReaderRuns
<1>3. Head(io_) \in PostedOperations /\ Turn \in Queued /\ Turn \in Unanswered
  BY <1>1, HeadOfIo, QueuedUnanswered DEF PostedOperations, Queued, Turn
<1>4. \A x : <<Key(Turn), x>> \notin Overlaps
  <2> SUFFICES ASSUME NEW x, <<Key(Turn), x>> \in Overlaps
               PROVE  FALSE
    OBVIOUS
  <2> DEFINE p == <<Key(Turn), x>>
  <2>1. p \in Overlaps /\ p[1][1] = "make_chunked_stream"
    BY <1>1 DEF Key
  <2> HIDE DEF p
  <2> QED
    BY <2>1 DEF StreamAwaited
<1>5. \A d \in 1..Len(calls) : ~(Turn < d)
  BY <1>3, <1>4 DEF OrderInv
<1>6. Turn \notin Queued'
  <2> DEFINE t == [task |-> "made", call |-> Turn, reader |-> NewReader']
  <2>1. t.task = "made" /\ io_' = Append(Tail(io_), t)
    BY <1>1a
  <2> HIDE DEF t
  <2>2. Turn \in IoCalls(io_) /\ IoCalls(Tail(io_)) = IoCalls(io_) \ {Turn}
    BY <1>1, IoTail DEF TokenInv, Lists, Turn
  <2>3. Turn \notin Elements(callbacks')
    BY <1>1, <2>2 DEF TokenInv
  <2>4. Elements(io_') = Elements(Tail(io_)) \cup {t}
    BY <1>1, <2>1, IoSets, AppendList
  <2>5. \A u \in PostedOperations' : u.call \in IoCalls(Tail(io_))
    BY <2>1, <2>4 DEF PostedOperations, IoCalls, Own
  <2> QED
    BY <2>2, <2>3, <2>5 DEF Queued
<1>7. Queued' = {}
  <2> SUFFICES ASSUME NEW d \in Queued'
               PROVE  FALSE
    OBVIOUS
  <2>1. Turn < d
    BY <1>2, <1>3, <1>6, TurnFirst
  <2>2. d \in 1..Len(calls)
    BY <1>2, QueuedUnanswered DEF Unanswered
  <2> QED
    BY <1>5, <2>1, <2>2
<1>8. ~swapping
  BY <1>3 DEF SwapInv
<1>9. ~Saving
  <2> SUFFICES ASSUME NEW c \in 1..Len(calls), calls[c].op = "save"
               PROVE  FALSE
    BY DEF Saving
  <2>1. c = Len(calls) /\ Len(calls) \in Nat /\ Turn \in 1..Len(calls)
    BY <1>3 DEF OrderInv, TokenInv, Lists, Unanswered
  <2>2. Turn # c
    BY <1>1
  <2>3. Turn < c
    BY <2>1, <2>2
  <2> QED
    BY <1>5, <2>3
<1> QED
  BY <1>1, <1>3, <1>7, <1>8, <1>9 DEF AtPeace, Saving

\* At most one task of a list concerns the reader, and none of them does.
TaskOnce(s) == \A i, j \in 1..Len(s) : s[i].task \in ReaderTasks /\ s[j].task \in ReaderTasks => i = j
NoTask(s) == \A t \in Elements(s) : t.task \notin ReaderTasks

\* What becomes of that when the first task is run.
LEMMA TaskTail ==
  ASSUME NEW s, IsList(s), s # <<>>, TaskOnce(s)
  PROVE  /\ TaskOnce(Tail(s))
         /\ Head(s).task \in ReaderTasks => NoTask(Tail(s))
<1> DEFINE a == Tail(s)
           n == Len(a)
           h == Head(s)
<1>1. /\ n \in Nat /\ Len(s) = n + 1 /\ h = s[1]
      /\ \A i \in 1..n : i + 1 \in 1..Len(s) /\ a[i] = s[i + 1]
  BY TailList
<1>2. \A i, j \in 1..Len(s) : s[i].task \in ReaderTasks /\ s[j].task \in ReaderTasks => i = j
  BY DEF TaskOnce
<1>3. Elements(a) = {a[i] : i \in 1..n}
  BY DEF Elements
<1> HIDE DEF a, n, h
<1>4. ASSUME NEW i \in 1..n, NEW j \in 1..n, a[i].task \in ReaderTasks, a[j].task \in ReaderTasks
      PROVE  i = j
  <2>1. i + 1 \in 1..Len(s) /\ j + 1 \in 1..Len(s) /\ a[i] = s[i + 1] /\ a[j] = s[j + 1]
    BY <1>1
  <2>2. i + 1 = j + 1
    BY <1>2, <1>4, <2>1
  <2> QED
    BY <2>2
<1>5. ASSUME h.task \in ReaderTasks, NEW i \in 1..n, a[i].task \in ReaderTasks
      PROVE  FALSE
  <2>1. i + 1 \in 1..Len(s) /\ a[i] = s[i + 1] /\ 1 \in 1..Len(s)
    BY <1>1
  <2>2. i + 1 = 1
    BY <1>1, <1>2, <1>5, <2>1
  <2> QED
    BY <2>2
<1>6. TaskOnce(a)
  BY <1>4 DEF TaskOnce, n
<1>7. h.task \in ReaderTasks => NoTask(a)
  BY <1>3, <1>5 DEF NoTask
<1> QED
  BY <1>6, <1>7 DEF a, h

\* When a task is posted.
LEMMA TaskAppend ==
  ASSUME NEW s, IsList(s), NEW t,
         (TaskOnce(s) /\ t.task \notin ReaderTasks) \/ NoTask(s)
  PROVE  TaskOnce(Append(s, t))
<1> DEFINE a == Append(s, t)
           n == Len(s)
<1>1. /\ n \in Nat /\ Len(a) = n + 1 /\ a[n + 1] = t
      /\ \A i \in 1..n : a[i] = s[i]
  BY AppendList
<1>2. \/ t.task \notin ReaderTasks /\ \A i, j \in 1..n : s[i].task \in ReaderTasks /\ s[j].task \in ReaderTasks => i = j
      \/ \A i \in 1..n : s[i].task \notin ReaderTasks
  BY DEF TaskOnce, NoTask, Elements
<1> HIDE DEF a, n
<1>3. \A i \in 1..(n + 1) : i \in 1..n \/ (i = n + 1 /\ a[i] = t)
  BY <1>1
<1>4. \A i, j \in 1..(n + 1) : a[i].task \in ReaderTasks /\ a[j].task \in ReaderTasks => i = j
  BY <1>1, <1>2, <1>3
<1> QED
  BY <1>1, <1>4 DEF TaskOnce, a

\* When operations are.
LEMMA TaskPost ==
  ASSUME NEW s, IsList(s), TaskOnce(s), NEW l, IsList(l)
  PROVE  TaskOnce(s \o Tasks(l))
<1> DEFINE a == s \o Tasks(l)
           m == Len(s)
           n == Len(l)
<1>1. /\ m \in Nat /\ n \in Nat /\ Len(a) = m + n
      /\ \A i \in 1..m : a[i] = s[i]
      /\ \A i \in 1..n : a[m + i] = OperationOf(l[i])
  <2>1. \A i \in 1..Len(l) : PostedAt(s, l, i) = OperationOf(l[i])
    BY PostList
  <2>2. /\ Len(s) \in Nat /\ Len(l) \in Nat /\ Len(s \o Tasks(l)) = Len(s) + Len(l)
        /\ \A i \in 1..Len(s) : (s \o Tasks(l))[i] = s[i]
    BY PostList
  <2>3. \A i \in 1..Len(l) : (s \o Tasks(l))[Len(s) + i] = OperationOf(l[i])
    BY <2>1 DEF PostedAt
  <2> QED
    BY <2>2, <2>3
<1>2. \A c : OperationOf(c).task \notin ReaderTasks
  BY DEF OperationOf, ReaderTasks
<1>3. \A i \in 1..(m + n) : i \in 1..m \/ (i - m \in 1..n /\ i = m + (i - m))
  BY <1>1
<1>4. \A i, j \in 1..m : s[i].task \in ReaderTasks /\ s[j].task \in ReaderTasks => i = j
  BY DEF TaskOnce
<1> HIDE DEF a, m, n
<1>5. \A i \in 1..(m + n) : a[i].task \in ReaderTasks => i \in 1..m
  BY <1>1, <1>2, <1>3
<1>6. \A i, j \in 1..(m + n) : a[i].task \in ReaderTasks /\ a[j].task \in ReaderTasks => i = j
  BY <1>1, <1>4, <1>5
<1> QED
  BY <1>1, <1>6 DEF TaskOnce, a

\* Where no task concerns the reader at most one does.
LEMMA TaskNone ==
  ASSUME NEW s, NoTask(s)
  PROVE  TaskOnce(s)
BY DEF NoTask, TaskOnce, Elements

\* A step that does not concern the reader, and posts nothing that does.
LEMMA OthersWait ==
  ASSUME TokenInv, TaskInv, UNCHANGED <<reader, reads, got>>,
         \/ io_ # <<>> /\ io_' = Tail(io_)
         \/ \E t : /\ t.task \notin ReaderTasks
                   /\ io_' = Append(io_, t) \/ (io_ # <<>> /\ io_' = Append(Tail(io_), t))
         \/ io_' = io_ \o Tasks(callbacks)
         \/ UNCHANGED io_
  PROVE  TaskInv'
<1>0. IsList(io_) /\ IsList(callbacks) /\ TaskOnce(io_)
  BY DEF TokenInv, Lists, TaskInv, TaskOnce
<1>1. ASSUME TaskOnce(io_'), \A u \in Elements(io_') : u.task \in ReaderTasks => u \in Elements(io_)
      PROVE  TaskInv'
  <2>1. \A u \in Elements(io_') : u.task \in ReaderTasks => Waits(u)
    BY <1>1 DEF TaskInv
  <2> QED
    BY <1>1, <2>1 DEF TaskInv, TaskOnce, Waits
<1>2. CASE io_ # <<>> /\ io_' = Tail(io_)
  BY <1>0, <1>1, <1>2, IoSets, TaskTail
<1>3. ASSUME NEW t, t.task \notin ReaderTasks, io_' = Append(io_, t)
      PROVE  TaskInv'
  <2>1. Elements(io_') = Elements(io_) \cup {t}
    BY <1>0, <1>3, AppendList
  <2>2. TaskOnce(io_')
    BY <1>0, <1>3, TaskAppend
  <2> QED
    BY <1>1, <1>3, <2>1, <2>2
<1>4. ASSUME NEW t, t.task \notin ReaderTasks, io_ # <<>>, io_' = Append(Tail(io_), t)
      PROVE  TaskInv'
  <2>1. Elements(Tail(io_)) \subseteq Elements(io_) /\ IsList(Tail(io_)) /\ TaskOnce(Tail(io_))
    BY <1>0, <1>4, IoSets, TaskTail
  <2>2. Elements(io_') = Elements(Tail(io_)) \cup {t} /\ TaskOnce(io_')
    BY <1>4, <2>1, AppendList, TaskAppend
  <2> QED
    BY <1>1, <1>4, <2>1, <2>2
<1>5. CASE io_' = io_ \o Tasks(callbacks)
  <2>1. Elements(io_') = Elements(io_) \cup OperationsOf(callbacks)
    BY <1>0, <1>5, PostList
  <2>2. \A u \in OperationsOf(callbacks) : u.task \notin ReaderTasks
    BY DEF OperationsOf, OperationOf, ReaderTasks
  <2> QED
    BY <1>0, <1>1, <1>5, <2>1, <2>2, TaskPost
<1>6. CASE UNCHANGED io_
  BY <1>0, <1>1, <1>6
<1> QED
  BY <1>2, <1>3, <1>4, <1>5, <1>6

\* What the steps of the buffer post.
LEMMA BufferPosts ==
  ASSUME Run \/ Handle \/ CallbackReturns \/ Worker
  PROVE  \/ io_ # <<>> /\ io_' = Tail(io_)
         \/ \E t : /\ t.task \notin ReaderTasks
                   /\ io_' = Append(io_, t) \/ (io_ # <<>> /\ io_' = Append(Tail(io_), t))
         \/ io_' = io_ \o Tasks(callbacks)
<1>1. CASE Run \/ Handle
  <2>1. io_ # <<>> /\ (io_' = Tail(io_) \/ \E t : t.task = "cleared" /\ io_' = Append(Tail(io_), t))
    BY <1>1, TakesTurn
  <2> QED
    BY <2>1 DEF ReaderTasks
<1>3. CASE CallbackReturns
  BY <1>3 DEF CallbackReturns, Post
<1>4. CASE Worker
  <2>1. PICK t : t.task = "handler" /\ io_' = Append(io_, t)
    BY <1>4 DEF Worker, PerformRequest, FailRequest, Handler
  <2> QED
    BY <2>1 DEF ReaderTasks
<1> QED
  BY <1>1, <1>3, <1>4

\* A reader asks one of its streams for a chunk.
LEMMA AskStreamKeeps ==
  ASSUME NEW queue, NEW s \in {"file", "tmp_file"}, NEW whom, NEW n, AskStream(queue, s, whom, n),
         Holds(reader), reader[s] # None
  PROVE  /\ \E t : io_' = Append(queue, t) /\ t.task = whom /\ t.n = n
         /\ Holds(reader') /\ reader' # None
         /\ reader'.file # None <=> reader.file # None
         /\ reader'.tmp_file # None <=> reader.tmp_file # None
         /\ reader'.pos = reader.pos
<1>1. \E t : io_' = Append(queue, t) /\ t.task = whom /\ t.n = n
  BY DEF AskStream
<1>2. reader' = [reader EXCEPT ![s].asked = @ + 1]
  BY DEF AskStream
<1>3. reader \in Readers
  BY DEF Holds
<1> DEFINE x == [reader[s] EXCEPT !.asked = @ + 1]
<1>4. reader' = [reader EXCEPT ![s] = x]
  BY <1>2
<1>5. reader[s] \in Streams
  BY <1>3 DEF Readers
<1>6. x \in Streams /\ x # None
  <2>1. x \in Streams
    BY <1>5 DEF Streams
  <2> QED
    BY <2>1, BufferReadersAssumption
<1> HIDE DEF x
<1>7. CASE s = "file"
  <2>1. /\ reader'.file = x /\ reader'.tmp_file = reader.tmp_file /\ reader'.pos = reader.pos
        /\ reader'.class = reader.class /\ reader' \in Readers
    BY <1>3, <1>4, <1>6, <1>7 DEF Readers
  <2>2. reader.file # None
    BY <1>7
  <2> QED
    BY <1>1, <1>6, <2>1, <2>2, BufferReadersAssumption DEF Holds
<1>8. CASE s = "tmp_file"
  <2>1. /\ reader'.file = reader.file /\ reader'.tmp_file = x /\ reader'.pos = reader.pos
        /\ reader'.class = reader.class /\ reader' \in Readers
    BY <1>3, <1>4, <1>6, <1>8 DEF Readers
  <2>2. reader.tmp_file # None
    BY <1>8
  <2> QED
    BY <1>1, <1>6, <2>1, <2>2, BufferReadersAssumption DEF Holds
<1> QED
  BY <1>7, <1>8

\* The reader of what is cached is asked for a chunk.
LEMMA CacheNextKeeps ==
  ASSUME NEW queue, NEW n, CacheNext(queue, n), Holds(reader), reader.pos # None
  PROVE  /\ \E t : io_' = Append(queue, t) /\ t.task = "answer" /\ t.n = n
         /\ Holds(reader') /\ reader' # None
<1>1. \E t : io_' = Append(queue, t) /\ t.task = "answer" /\ t.n = n
  BY DEF CacheNext, PostedAnswer
<1> DEFINE x == reader.pos + chunk_size
<1>2. reader' = reader \/ reader' = [reader EXCEPT !.pos = x]
  BY DEF CacheNext
<1>3. reader \in Readers
  BY DEF Holds
<1>4. x \in Nat /\ x # None
  <2>1. reader.pos \in Nat
    BY <1>3 DEF Readers
  <2>2. x \in Nat
    BY <2>1, BufferReadersAssumption
  <2> QED
    BY <2>2, BufferReadersAssumption
<1> HIDE DEF x
<1>5. CASE reader' = reader
  BY <1>1, <1>3, <1>5, BufferReadersAssumption
<1>6. CASE reader' = [reader EXCEPT !.pos = x]
  <2>1. /\ reader'.file = reader.file /\ reader'.tmp_file = reader.tmp_file /\ reader'.pos = x
        /\ reader' \in Readers
    BY <1>3, <1>4, <1>6 DEF Readers
  <2> QED
    BY <1>1, <1>4, <2>1, BufferReadersAssumption DEF Holds
<1> QED
  BY <1>2, <1>5, <1>6

\* What is posted for the reader, if anything is, is all that concerns it.
LEMMA OneWaits ==
  ASSUME NEW q, IsList(q), NoTask(q),
         \/ io_' = q
         \/ \E t : io_' = Append(q, t) /\ Waits(t)'
  PROVE  TaskInv'
<1>1. CASE io_' = q
  <2>1. TaskOnce(io_') /\ \A t \in Elements(io_') : t.task \notin ReaderTasks
    BY <1>1, TaskNone DEF NoTask
  <2> QED
    BY <2>1 DEF TaskInv, TaskOnce
<1>2. ASSUME NEW t, io_' = Append(q, t), Waits(t)'
      PROVE  TaskInv'
  <2>1. TaskOnce(io_')
    BY <1>2, TaskAppend
  <2>2. Elements(io_') = Elements(q) \cup {t}
    BY <1>2, AppendList
  <2>3. \A u \in Elements(io_') : u.task \in ReaderTasks => Waits(u)'
    BY <1>2, <2>2 DEF NoTask
  <2> QED
    BY <2>1, <2>3 DEF TaskInv, TaskOnce
<1> QED
  BY <1>1, <1>2

\* The chunk of a task that was waiting answers the call.
LEMMA Given1 ==
  ASSUME IsList(got), NEW t, NEW ec, Give(t, ec)
  PROVE  IsList(got') /\ Len(got') = Len(got) + 1 /\ Len(got) \in Nat
BY AppendList DEF Give

\* The task that is run, and what it finds.
LEMMA TurnWaits ==
  ASSUME TokenInv, ReaderInv, TaskInv, NEW task \in ReaderTasks, Task(task)
  PROVE  /\ io_ # <<>> /\ Waits(Head(io_)) /\ Head(io_).task = task
         /\ IsList(Tail(io_)) /\ NoTask(Tail(io_))
         /\ Holds(reader) /\ AtPeace
         /\ UNCHANGED <<isOnDisk, original_size, reads>>
<1>1. io_ # <<>> /\ Head(io_).task = task /\ UNCHANGED <<isOnDisk, original_size, reads>>
  BY DEF Task, BufferRests, flagVars
<1>2. Waits(Head(io_))
  BY <1>1, HeadOfIo DEF TaskInv
<1>3. IsList(Tail(io_)) /\ NoTask(Tail(io_))
  BY <1>1, IoSets, TaskTail DEF TokenInv, Lists, TaskInv, TaskOnce
<1>4. Holds(reader) /\ AtPeace
  BY <1>2 DEF Waits, ReaderInv, AtPeace
<1> QED
  BY <1>1, <1>2, <1>3, <1>4

\* The handler of the first stream finds the temporary file.
LEMMA OfFileKeeps ==
  ASSUME TokenInv, SizeInv, PiecesInv, FilesThere, ReaderInv, TaskInv, OfFile
  PROVE  TaskInv' /\ Holds(reader') /\ reader' # None /\ IsList(got')
<1> DEFINE h == Head(io_)
           q == Tail(io_)
<1>1. /\ Waits(h) /\ h.task = "of_file" /\ IsList(q) /\ NoTask(q) /\ Holds(reader) /\ AtPeace
      /\ UNCHANGED <<isOnDisk, original_size, reads>>
  BY TurnWaits DEF OfFile, ReaderTasks
<1>2. /\ reader # None /\ reads = Len(got) + 1 /\ h.n = reads /\ reader.file # None
      /\ reader \in Readers /\ isOnDisk
  BY <1>1 DEF Waits, Holds
<1>3. IsList(got) /\ original_size \in Nat
  BY DEF ReaderInv
<1> DEFINE x == Open(tmp)
<1>4. x \in Streams /\ x # None
  <2>1. ~SaveBegun
    BY <1>1 DEF AtPeace, Saving, SaveBegun
  <2>2. tmp \in Pieces
    BY <1>2, <2>1 DEF FilesThere, PiecesInv
  <2> QED
    BY <1>3, <2>2, OpenStream
<1>5. \/ Give(h, h.ec) /\ io_' = q /\ UNCHANGED reader
      \/ /\ reader' = [reader EXCEPT !.file = None, !.tmp_file = x]
         /\ \/ Give(h, "success") /\ io_' = q
            \/ io_' = Append(q, Posted("pass_on", h.n)) /\ UNCHANGED got
  BY DEF OfFile
<1> HIDE DEF h, q, x
<1>6. CASE Give(h, h.ec) /\ io_' = q /\ UNCHANGED reader
  BY <1>1, <1>2, <1>3, <1>6, Given1, OneWaits
<1>7. CASE reader' = [reader EXCEPT !.file = None, !.tmp_file = x]
  <2>1. /\ reader'.file = None /\ reader'.tmp_file = x /\ reader'.class = reader.class
        /\ reader'.pos = reader.pos /\ reader' \in Readers
    BY <1>2, <1>4, <1>7 DEF Readers
  <2>2. Holds(reader') /\ reader' # None
    BY <1>1, <1>4, <2>1, BufferReadersAssumption DEF Holds
  <2>3. CASE Give(h, "success") /\ io_' = q
    BY <1>1, <1>3, <2>2, <2>3, Given1, OneWaits
  <2>4. CASE io_' = Append(q, Posted("pass_on", h.n)) /\ UNCHANGED got
    <3>1. UNCHANGED got /\ \E t : io_' = Append(q, t) /\ t.task = "pass_on" /\ t.n = h.n
      BY <2>4 DEF Posted
    <3>2. PICK t : io_' = Append(q, t) /\ t.task = "pass_on" /\ t.n = h.n
      BY <3>1
    <3>3. Waits(t)'
      BY <1>1, <1>2, <1>4, <2>1, <2>2, <3>1, <3>2 DEF Waits
    <3> QED
      BY <1>1, <1>3, <2>2, <3>1, <3>2, <3>3, OneWaits
  <2> QED
    BY <1>5, <1>6, <2>3, <2>4
<1> QED
  BY <1>5, <1>6, <1>7

\* The handler of the last stream makes the reader of what is cached.
LEMMA OfTmpFileKeeps ==
  ASSUME TokenInv, ReaderInv, TaskInv, OfTmpFile
  PROVE  TaskInv' /\ Holds(reader') /\ reader' # None /\ IsList(got')
<1> DEFINE h == Head(io_)
           q == Tail(io_)
<1>1. /\ Waits(h) /\ h.task = "of_tmp_file" /\ IsList(q) /\ NoTask(q) /\ Holds(reader)
      /\ UNCHANGED <<isOnDisk, original_size, reads>>
  BY TurnWaits DEF OfTmpFile, ReaderTasks
<1>2. reader # None /\ reads = Len(got) + 1 /\ h.n = reads /\ reader \in Readers
  BY <1>1 DEF Waits, Holds
<1>3. IsList(got) /\ 0 # None
  BY BufferReadersAssumption DEF ReaderInv
<1>4. \/ Give(h, h.ec) /\ io_' = q /\ UNCHANGED reader
      \/ /\ reader' = [reader EXCEPT !.tmp_file = None, !.pos = 0]
         /\ \/ Give(h, "success") /\ io_' = q
            \/ \E t : /\ io_' = Append(q, t) /\ UNCHANGED got
                      /\ t.task \in {"cached", "answer"} /\ t.n = h.n
  BY DEF OfTmpFile, EndOfTmpFile, Posted, PostedAnswer
<1> HIDE DEF h, q
<1>5. CASE Give(h, h.ec) /\ io_' = q /\ UNCHANGED reader
  BY <1>1, <1>2, <1>3, <1>5, Given1, OneWaits
<1>6. CASE reader' = [reader EXCEPT !.tmp_file = None, !.pos = 0]
  <2>1. /\ reader'.file = reader.file /\ reader'.tmp_file = None /\ reader'.class = reader.class
        /\ reader'.pos = 0 /\ reader' \in Readers
    BY <1>2, <1>6 DEF Readers
  <2>2. Holds(reader') /\ reader' # None
    BY <1>1, <1>3, <2>1, BufferReadersAssumption DEF Holds
  <2>3. CASE Give(h, "success") /\ io_' = q
    BY <1>1, <1>3, <2>2, <2>3, Given1, OneWaits
  <2>4. ASSUME NEW t, io_' = Append(q, t), UNCHANGED got, t.task \in {"cached", "answer"}, t.n = h.n
        PROVE  TaskInv' /\ IsList(got')
    <3>1. Waits(t)'
      BY <1>1, <1>2, <1>3, <2>1, <2>2, <2>4 DEF Waits
    <3> QED
      BY <1>1, <1>3, <2>4, <3>1, OneWaits
  <2> QED
    BY <1>4, <1>5, <2>2, <2>3, <2>4
<1> QED
  BY <1>4, <1>5, <1>6

\* A call that is passed on, or waits for what is cached, finds it.
LEMMA PassedOnKeeps ==
  ASSUME TokenInv, ReaderInv, TaskInv, PassOn \/ Cached \/ Deliver
  PROVE  TaskInv' /\ Holds(reader') /\ reader' # None /\ IsList(got')
<1> DEFINE h == Head(io_)
           q == Tail(io_)
<1>0. /\ IsList(got)
      /\ Task("pass_on") \/ Task("cached") \/ Task("answer")
  BY DEF ReaderInv, PassOn, Cached, Deliver
<1>1. /\ Waits(h) /\ IsList(q) /\ NoTask(q) /\ Holds(reader) /\ UNCHANGED <<isOnDisk, original_size, reads>>
      /\ (Task("pass_on") => h.task = "pass_on") /\ (Task("cached") => h.task = "cached")
  BY <1>0, TurnWaits DEF ReaderTasks
<1>2. reader # None /\ reads = Len(got) + 1 /\ h.n = reads
  BY <1>1 DEF Waits
<1>3. CASE PassOn
  <2>1. Task("pass_on") /\ AskStream(q, "tmp_file", "answer", h.n) /\ UNCHANGED got
    BY <1>3 DEF PassOn
  <2>2. reader["tmp_file"] # None
    BY <1>1, <2>1 DEF Waits
  <2> HIDE DEF h, q
  <2>3. Holds(reader') /\ reader' # None
    BY <1>1, <2>1, <2>2, AskStreamKeeps
  <2>4. PICK t : io_' = Append(q, t) /\ t.task = "answer" /\ t.n = h.n
    BY <1>1, <2>1, <2>2, AskStreamKeeps
  <2>5. Waits(t)'
    BY <1>1, <1>2, <2>1, <2>3, <2>4 DEF Waits
  <2> QED
    BY <1>0, <1>1, <2>1, <2>3, <2>4, <2>5, OneWaits
<1>4. CASE Cached
  <2>1. Task("cached") /\ CacheNext(q, h.n) /\ UNCHANGED got
    BY <1>4 DEF Cached
  <2>2. reader.pos # None
    BY <1>1, <2>1 DEF Waits
  <2> HIDE DEF h, q
  <2>3. Holds(reader') /\ reader' # None
    BY <1>1, <2>1, <2>2, CacheNextKeeps
  <2>4. PICK t : io_' = Append(q, t) /\ t.task = "answer" /\ t.n = h.n
    BY <1>1, <2>1, <2>2, CacheNextKeeps
  <2>5. Waits(t)'
    BY <1>1, <1>2, <2>1, <2>3, <2>4 DEF Waits
  <2> QED
    BY <1>0, <1>1, <2>1, <2>3, <2>4, <2>5, OneWaits
<1>5. CASE Deliver
  <2>1. Give(h, h.ec) /\ io_' = q /\ UNCHANGED reader
    BY <1>5 DEF Deliver
  <2> HIDE DEF h, q
  <2> QED
    BY <1>0, <1>1, <1>2, <2>1, Given1, OneWaits
<1> QED
  BY <1>3, <1>4, <1>5

\* The application asks only when it has been answered.
LEMMA AskKeeps ==
  ASSUME TokenInv, ReaderInv, TaskInv, Ask
  PROVE  /\ TaskInv' /\ Holds(reader') /\ reader' # None /\ IsList(got') /\ reads' \in Nat
         /\ UNCHANGED <<isOnDisk, original_size>>
<1>1. /\ reader # None /\ Len(got) = reads /\ reads' = reads + 1
      /\ UNCHANGED <<isOnDisk, original_size, got>>
  BY DEF Ask, BufferRests, flagVars
<1>2. reads \in Nat /\ IsList(got) /\ Holds(reader)
  BY <1>1 DEF ReaderInv
<1>3. NoTask(io_) /\ IsList(io_)
  <2>1. \A t : ~Waits(t)
    BY <1>1, <1>2 DEF Waits
  <2> QED
    BY <2>1 DEF TaskInv, NoTask, TokenInv, Lists
<1>4. \/ reader.class = "cache" /\ CacheNext(io_, reads')
      \/ reader.file # None /\ AskStream(io_, "file", "of_file", reads')
      \/ reader.tmp_file # None /\ AskStream(io_, "tmp_file", "of_tmp_file", reads')
      \/ /\ reader.file = None /\ reader.tmp_file = None
         /\ io_' = Append(io_, Posted("cached", reads')) /\ UNCHANGED reader
  BY DEF Ask
<1> DEFINE n == reads'
<1>5. n = Len(got') + 1 /\ n = reads' /\ n \in Nat
  BY <1>1, <1>2
<1> HIDE DEF n
<1>6. CASE reader.class = "cache" /\ CacheNext(io_, reads')
  <2>1. reader.pos # None /\ CacheNext(io_, n)
    BY <1>2, <1>5, <1>6 DEF Holds
  <2>2. /\ \E t : io_' = Append(io_, t) /\ t.task = "answer" /\ t.n = n
        /\ Holds(reader') /\ reader' # None
    BY <1>2, <2>1, CacheNextKeeps
  <2>3. PICK t : io_' = Append(io_, t) /\ t.task = "answer" /\ t.n = n
    BY <2>2
  <2>4. Waits(t)'
    BY <1>5, <2>2, <2>3 DEF Waits
  <2> QED
    BY <1>1, <1>2, <1>3, <1>5, <2>2, <2>3, <2>4, OneWaits
<1>7. CASE reader.file # None /\ AskStream(io_, "file", "of_file", reads')
  <2>1. reader["file"] # None /\ AskStream(io_, "file", "of_file", n)
    BY <1>5, <1>7
  <2>2. /\ \E t : io_' = Append(io_, t) /\ t.task = "of_file" /\ t.n = n
        /\ Holds(reader') /\ reader' # None /\ reader'.file # None
    BY <1>2, <1>7, <2>1, AskStreamKeeps
  <2>3. PICK t : io_' = Append(io_, t) /\ t.task = "of_file" /\ t.n = n
    BY <2>2
  <2>4. Waits(t)'
    BY <1>5, <2>2, <2>3 DEF Waits
  <2> QED
    BY <1>1, <1>2, <1>3, <1>5, <2>2, <2>3, <2>4, OneWaits
<1>8. CASE reader.tmp_file # None /\ AskStream(io_, "tmp_file", "of_tmp_file", reads')
  <2>1. reader["tmp_file"] # None /\ AskStream(io_, "tmp_file", "of_tmp_file", n)
    BY <1>5, <1>8
  <2>2. /\ \E t : io_' = Append(io_, t) /\ t.task = "of_tmp_file" /\ t.n = n
        /\ Holds(reader') /\ reader' # None /\ reader'.tmp_file # None
    BY <1>2, <1>8, <2>1, AskStreamKeeps
  <2>3. PICK t : io_' = Append(io_, t) /\ t.task = "of_tmp_file" /\ t.n = n
    BY <2>2
  <2>4. Waits(t)'
    BY <1>5, <2>2, <2>3 DEF Waits
  <2> QED
    BY <1>1, <1>2, <1>3, <1>5, <2>2, <2>3, <2>4, OneWaits
<1>9. CASE /\ reader.file = None /\ reader.tmp_file = None
           /\ io_' = Append(io_, Posted("cached", reads')) /\ UNCHANGED reader
  <2>1. UNCHANGED reader /\ \E t : io_' = Append(io_, t) /\ t.task = "cached" /\ t.n = n
    BY <1>5, <1>9 DEF Posted
  <2>2. PICK t : io_' = Append(io_, t) /\ t.task = "cached" /\ t.n = n
    BY <2>1
  <2>3. reader.pos # None
    BY <1>2, <1>9 DEF Holds
  <2>4. Waits(t)'
    BY <1>1, <1>5, <2>1, <2>2, <2>3 DEF Waits
  <2> QED
    BY <1>1, <1>2, <1>3, <1>5, <2>1, <2>2, <2>4, OneWaits
<1> QED
  BY <1>4, <1>6, <1>7, <1>8, <1>9

\* The calls of the application: none is made while there is, or will be, a reader.
LEMMA CallsRead ==
  ASSUME TokenInv, KindInv, OverlapInv, SwapInv, ReaderInv, TaskInv, SwapsAwaited, StreamAwaited,
         AppCall \/ Enqueue("make_chunked_stream"), reader = None, UNCHANGED readerVars
  PROVE  ReaderInv' /\ TaskInv'
<1>1. Made = {}
  BY CallAllowed, MadeAlone
<1>2. \A t \in Elements(io_') : t \in Elements(io_) \/ t.task = "operation"
  BY CallAdds
<1>3. Made' = {}
  BY <1>1, <1>2 DEF Made
<1>4. UNCHANGED <<reader, original_size, reads, got>>
  BY DEF readerVars
<1>5. NoTask(io_')
  <2>1. NoTask(io_)
    BY DEF NoTask, TaskInv, Waits
  <2> QED
    BY <1>2, <2>1 DEF NoTask, ReaderTasks
<1>6. TaskInv'
  BY <1>5, TaskNone DEF NoTask, TaskInv, TaskOnce
<1> QED
  BY <1>3, <1>4, <1>6 DEF ReaderInv

\* The steps of the buffer.
LEMMA BufferReads ==
  ASSUME TokenInv, RequestInv, KindInv, SwapInv, FileInv, ReaderInv, TaskInv,
         Run \/ Handle \/ CallbackReturns \/ Worker, UNCHANGED readerVars
  PROVE  ReaderInv' /\ TaskInv'
<1>1. UNCHANGED <<reader, original_size, reads, got>>
  BY DEF readerVars
<1>2. TaskInv'
  BY <1>1, BufferPosts, OthersWait
<1>3. Made' \subseteq Made
  BY BufferTasks DEF Made
<1>4. CASE Made = {} /\ reader = None
  BY <1>1, <1>2, <1>3, <1>4 DEF ReaderInv
<1>5. CASE Made # {} \/ reader # None
  <2>1. AtPeace
    BY <1>5 DEF ReaderInv, AtPeace
  <2>2. AtPeace' /\ UNCHANGED isOnDisk
    BY <2>1, PeaceKept
  <2>3. \A t \in Made' : Holds(t.reader)'
    BY <1>3, <2>2 DEF ReaderInv, Holds
  <2>4. reader' # None => Made' = {} /\ Holds(reader)'
    BY <1>1, <1>3, <2>2 DEF ReaderInv, Holds
  <2> QED
    BY <1>1, <1>2, <2>2, <2>3, <2>4 DEF ReaderInv, AtPeace
<1> QED
  BY <1>4, <1>5

\* The making of the reader.
LEMMA MakingReads ==
  ASSUME SizesInv, SizesInv', TypesInv, PiecesInv', ReaderInv, TaskInv,
         SwapsAwaited, ReadsAlone, StreamAwaited, RunMake \/ MakeFails \/ RunMade
  PROVE  ReaderInv' /\ TaskInv'
<1>0. /\ TokenInv /\ KindInv /\ OverlapInv /\ SwapInv /\ OrderInv
      /\ TokenInv' /\ FilesThere' /\ SizeInv'
  BY DEF SizesInv, IInv, CallInv
<1>1. io_ # <<>> /\ Own(Head(io_)) /\ Head(io_) \in Elements(io_)
  <2>1. io_ # <<>> /\ Own(Head(io_))
    BY DEF RunMake, MakeFails, RunMade, Running, Own
  <2> QED
    BY <1>0, <2>1, HeadOfIo
<1>2. ReaderRuns
  BY DEF ReaderRuns
<1>3. CASE RunMake
  <2>1. AtPeace' /\ Queued # {} /\ UNCHANGED isOnDisk
    BY <1>0, <1>3, MakeAlone
  <2>2. Made = {} /\ reader = None
    BY <2>1 DEF ReaderInv
  <2>3. UNCHANGED <<reader, reads, got>> /\ original_size' \in Nat
    BY <1>3, BufferReadersAssumption DEF RunMake
  <2>4. \A r : r = NewReader' => Holds(r)'
    <3>1. ~SaveBegun'
      BY <2>1 DEF AtPeace, Saving, SaveBegun
    <3>2. isOnDisk' \in BOOLEAN
      BY <2>1 DEF TypesInv, ScalarTypes
    <3> QED
      BY <1>0, <2>3, <3>1, <3>2, NewReaderHolds
  <2> DEFINE t == [task |-> "made", call |-> Turn, reader |-> NewReader']
  <2>5. t.task = "made" /\ t.reader = NewReader' /\ io_' = Append(Tail(io_), t)
    BY <1>3 DEF RunMake
  <2> HIDE DEF t
  <2>6. Elements(io_') = Elements(Tail(io_)) \cup {t} /\ Elements(Tail(io_)) \subseteq Elements(io_)
    BY <1>0, <1>1, <2>5, IoSets, AppendList
  <2>7. Made' = {t}
    BY <2>2, <2>5, <2>6 DEF Made
  <2>8. TaskInv'
    <3>1. t.task \notin ReaderTasks
      BY <2>5 DEF ReaderTasks
    <3> QED
      BY <1>0, <1>1, <2>3, <2>5, <3>1, OthersWait
  <2>9. \A u \in Made' : Holds(u.reader)'
    BY <2>4, <2>5, <2>7
  <2> QED
    BY <2>1, <2>2, <2>3, <2>8, <2>9 DEF ReaderInv, AtPeace
<1>4. CASE MakeFails
  <2>1. io_' = Tail(io_) /\ UNCHANGED readerVars /\ Head(io_).task = "operation"
    BY <1>4 DEF MakeFails, Running
  <2>2. Head(io_).call \in Queued
    BY <1>1, <2>1 DEF Queued, PostedOperations
  <2>3. Made = {} /\ reader = None
    BY <2>2 DEF ReaderInv
  <2>4. UNCHANGED <<reader, original_size, reads, got>>
    BY <2>1 DEF readerVars
  <2>5. Made' = {}
    BY <1>0, <1>1, <2>1, <2>3, IoSets DEF Made
  <2>6. TaskInv'
    BY <1>0, <1>1, <2>1, <2>4, OthersWait
  <2> QED
    BY <2>3, <2>4, <2>5, <2>6 DEF ReaderInv
<1>5. CASE RunMade
  <2>1. /\ Head(io_).task = "made" /\ io_' = Tail(io_) /\ reader' = Head(io_).reader
        /\ UNCHANGED <<swapping, isOnDisk, calls, original_size, reads, got>>
    BY <1>5 DEF RunMade, flagVars
  <2>2. Made = {Head(io_)}
    <3>1. Head(io_) \in Made
      BY <1>1, <2>1 DEF Made
    <3> QED
      BY <1>0, <3>1, MadeAlone
  <2>3. AtPeace /\ reader = None /\ Holds(Head(io_).reader)
    BY <2>2 DEF ReaderInv, AtPeace
  <2>4. Made' = {}
    <3>1. Elements(io_') = Elements(io_) \ {Head(io_)}
      BY <1>0, <1>1, <2>1, IoSets
    <3> QED
      BY <2>2, <3>1 DEF Made
  <2>5. AtPeace'
    <3>1. Queued' \subseteq Queued
      BY <1>0, <1>2, ReaderPlain, PlainQueued
    <3> QED
      BY <2>1, <2>3, <3>1 DEF AtPeace, Saving
  <2>6. Holds(reader)'
    BY <2>1, <2>3 DEF Holds
  <2>7. TaskInv'
    <3>1. NoTask(io_)
      BY <2>3 DEF NoTask, TaskInv, Waits
    <3>2. NoTask(Tail(io_)) /\ IsList(Tail(io_))
      BY <1>0, <1>1, <3>1, IoSets DEF NoTask
    <3> QED
      BY <2>1, <3>2, OneWaits
  <2> QED
    BY <2>1, <2>4, <2>5, <2>6, <2>7 DEF ReaderInv, AtPeace
<1> QED
  BY <1>3, <1>4, <1>5

\* The reading.
LEMMA ReadingReads ==
  ASSUME TokenInv, SizeInv, PiecesInv, FilesThere, ReaderInv, TaskInv,
         OfFile \/ PassOn \/ OfTmpFile \/ Cached \/ Deliver \/ Ask
  PROVE  ReaderInv' /\ TaskInv'
<1>1. reader # None
  <2>1. CASE OfFile \/ PassOn \/ OfTmpFile \/ Cached \/ Deliver
    <3>1. PICK task \in ReaderTasks : Task(task)
      BY <2>1 DEF OfFile, PassOn, OfTmpFile, Cached, Deliver, ReaderTasks
    <3> QED
      BY <3>1, TurnWaits DEF Waits
  <2>2. CASE Ask
    BY <2>2 DEF Ask
  <2> QED
    BY <2>1, <2>2
<1>2. AtPeace /\ Made = {}
  BY <1>1 DEF ReaderInv, AtPeace
<1>3. ReaderRuns \/ Ask
  BY DEF ReaderRuns
<1>4. UNCHANGED <<swapping, isOnDisk, calls, original_size>>
  BY DEF OfFile, PassOn, OfTmpFile, Cached, Deliver, Ask, Task, BufferRests, flagVars
<1>5. AtPeace'
  <2>1. Queued' \subseteq Queued
    BY <1>3, ReaderPlain, PlainQueued
  <2> QED
    BY <1>2, <1>4, <2>1 DEF AtPeace, Saving
<1>6. Made' = {}
  <2>1. CASE Ask
    <3>1. PICK t : t.task \in {"answer", "of_file", "of_tmp_file", "cached"} /\ io_' = Append(io_, t)
      BY <2>1, AskPosts
    <3>2. Elements(io_') = Elements(io_) \cup {t}
      BY <3>1, AppendList DEF TokenInv, Lists
    <3> QED
      BY <1>2, <3>1, <3>2 DEF Made
  <2>2. CASE OfFile \/ PassOn \/ OfTmpFile \/ Cached \/ Deliver
    <3>1. io_ # <<>>
      BY <2>2 DEF OfFile, PassOn, OfTmpFile, Cached, Deliver, Task
    <3>2. \/ io_' = Tail(io_)
          \/ \E t : t.task \in {"answer", "pass_on", "cached"} /\ io_' = Append(Tail(io_), t)
      BY <2>2 DEF OfFile, PassOn, OfTmpFile, Cached, Deliver, EndOfTmpFile, AskStream, CacheNext,
         PostedAnswer, Posted
    <3>3. Elements(Tail(io_)) \subseteq Elements(io_) /\ IsList(Tail(io_))
      BY <3>1, IoSets
    <3>4. \A t : Elements(Append(Tail(io_), t)) = Elements(Tail(io_)) \cup {t}
      BY <3>3, AppendList
    <3>5. \A t \in Elements(io_') : t \in Elements(io_) \/ t.task \in {"answer", "pass_on", "cached"}
      BY <3>2, <3>3, <3>4
    <3> QED
      BY <1>2, <3>5 DEF Made
  <2> QED
    BY <2>1, <2>2
<1>7. TaskInv' /\ Holds(reader') /\ reader' # None /\ IsList(got') /\ reads' \in Nat
  <2>1. CASE Ask
    BY <2>1, AskKeeps
  <2>2. CASE OfFile \/ PassOn \/ OfTmpFile \/ Cached \/ Deliver
    <3>1. TaskInv' /\ Holds(reader') /\ reader' # None /\ IsList(got')
      BY <2>2, OfFileKeeps, OfTmpFileKeeps, PassedOnKeeps
    <3>2. UNCHANGED reads
      BY <2>2 DEF OfFile, PassOn, OfTmpFile, Cached, Deliver, Task
    <3> QED
      BY <3>1, <3>2 DEF ReaderInv
  <2> QED
    BY <2>1, <2>2
<1>8. Holds(reader)'
  BY <1>4, <1>7 DEF Holds
<1> QED
  BY <1>4, <1>5, <1>6, <1>7, <1>8 DEF ReaderInv, AtPeace

\* Every step preserves what is known of the reader and of what waits for it.
LEMMA ReadStep ==
  ASSUME SizesInv, SizesInv', TypesInv, PiecesInv, PiecesInv', ReaderInv, TaskInv,
         SwapsAwaited, ReadsAlone, StreamAwaited, [ReadersStep]_allVars
  PROVE  ReaderInv' /\ TaskInv'
<1>0. /\ TokenInv /\ RequestInv /\ KindInv /\ OverlapInv /\ SwapInv /\ FileInv /\ OrderInv
      /\ FilesThere /\ SizeInv
  BY DEF SizesInv, IInv, CallInv
<1>1. ASSUME UNCHANGED <<vars, original_size, reader, reads, got>>
      PROVE  ReaderInv' /\ TaskInv'
  <2>1. UNCHANGED <<io_, callbacks, swapping, calls, isOnDisk, original_size, reader, reads, got>>
    BY <1>1 DEF vars, queueVars, flagVars
  <2> QED
    BY <2>1 DEF ReaderInv, TaskInv, Holds, Waits, Made, Queued, PostedOperations, Saving
<1>2. CASE UNCHANGED allVars
  BY <1>1, <1>2 DEF allVars, readerVars
<1>3. CASE Stop
  BY <1>1, <1>3 DEF Stop
<1>4. CASE ReadersStep
  <2>1. \/ (AppCall \/ Enqueue("make_chunked_stream")) /\ reader = None /\ UNCHANGED readerVars
        \/ (Run \/ Handle \/ CallbackReturns \/ Worker) /\ UNCHANGED readerVars
        \/ RunMake \/ MakeFails \/ RunMade
        \/ OfFile \/ PassOn \/ OfTmpFile \/ Cached \/ Deliver \/ Ask
        \/ Stop
    BY <1>4 DEF ReadersStep, MakeChunkedStream, ReaderRuns
  <2>2. CASE (AppCall \/ Enqueue("make_chunked_stream")) /\ reader = None /\ UNCHANGED readerVars
    BY <1>0, <2>2, CallsRead
  <2>3. CASE (Run \/ Handle \/ CallbackReturns \/ Worker) /\ UNCHANGED readerVars
    BY <1>0, <2>3, BufferReads
  <2>4. CASE RunMake \/ MakeFails \/ RunMade
    BY <2>4, MakingReads
  <2>5. CASE OfFile \/ PassOn \/ OfTmpFile \/ Cached \/ Deliver \/ Ask
    BY <1>0, <2>5, ReadingReads
  <2> QED
    BY <1>3, <2>1, <2>2, <2>3, <2>4, <2>5
<1> QED
  BY <1>2, <1>4

\* All that is known of the reader.
ReadingInv == PiecesInv /\ ReaderInv /\ TaskInv

\* It holds in every state until an exception gets out.
LEMMA ReadingAlways ==
  ASSUME SwapsAwaited, ReadsAlone, StreamAwaited
  PROVE  ReadersSpec => [](Alive => ReadingInv)
<1>1. ReadersInit => ReadingInv
  <2> SUFFICES ASSUME ReadersInit
               PROVE  ReadingInv
    OBVIOUS
  <2>1. PiecesInv
    BY PiecesInitially
  <2>2. io_ = <<>> /\ original_size = 0 /\ reader = None /\ reads = 0 /\ got = <<>>
    BY DEF ReadersInit, Init
  <2>3. Elements(io_) = {} /\ Len(io_) = 0 /\ IsList(got)
    BY <2>2, EmptyList
  <2> QED
    BY <2>1, <2>2, <2>3 DEF ReadingInv, ReaderInv, TaskInv, Made
<1>2. (Alive => SizesInv) /\ (Alive => SizesInv)' /\ (Alive => TypesInv)
        /\ (Alive => ReadingInv) /\ [ReadersNext]_allVars => (Alive => ReadingInv)'
  <2> SUFFICES ASSUME SizesInv, SizesInv', TypesInv, ReadingInv, [ReadersStep]_allVars
               PROVE  ReadingInv'
    BY UntilThrown
  <2>1. PiecesInv'
    BY PiecesStep DEF SizesInv, ReadingInv
  <2> QED
    BY <2>1, ReadStep DEF ReadingInv
<1> QED
  BY <1>1, <1>2, TypesAlways, PTL DEF ReadersSpec

\* A call on a reader never finds the stream, or the place, it is passed on to missing: not
\* in the handler of the first stream, not in that of the last, and not when the handler of
\* the user has been passed on.
THEOREM ReaderThereAlways ==
  ASSUME SwapsAwaited, ReadsAlone, StreamAwaited
  PROVE  ReadersSpec => []ReaderThere
<1>1. (Alive => ReadingInv) => ReaderThere
  <2> SUFFICES ASSUME TaskInv, NEW i \in 1..Len(io_)
               PROVE  /\ io_[i].task \in {"of_tmp_file", "pass_on"} => reader.tmp_file # None
                      /\ io_[i].task = "of_file" => reader.file # None
                      /\ io_[i].task = "cached" => reader.pos # None
    BY DEF ReadingInv, ReaderThere
  <2>1. io_[i] \in Elements(io_)
    BY DEF Elements
  <2> QED
    BY <2>1 DEF TaskInv, Waits, ReaderTasks
<1> QED
  BY <1>1, ReadingAlways, PTL

-----------------------------------------------------------------------------
(* The chunks of a reader are the content of its buffer.                      *)

-----------------------------------------------------------------------------
(* What a reader hands out.                                                 *)

\* The first bytes of a list.
LEMMA FirstBytesAre ==
  ASSUME NEW S, NEW s \in Seq(S), NEW n \in Nat
  PROVE  /\ FirstBytes(s, n) \in Seq(S) /\ FirstBytes(s, 0) = <<>>
         /\ n >= Len(s) => FirstBytes(s, n) = s
<1> PICK k \in Nat : k = Len(s)
  OBVIOUS
<1> DEFINE m == IF n < k THEN n ELSE k
<1>1. m \in 0..k /\ FirstBytes(s, n) = SubSeq(s, 1, m)
  BY DEF FirstBytes
<1>2. \A i \in 1..k : s[i] \in S
  OBVIOUS
<1> HIDE DEF m
<1>3. SubSeq(s, 1, m) \in Seq(S)
  BY <1>1, <1>2, SubSeqProperties
<1>4. FirstBytes(s, 0) = <<>>
  <2>1. FirstBytes(s, 0) = SubSeq(s, 1, 0)
    BY DEF FirstBytes
  <2> QED
    BY <2>1, SubSeqEmpty
<1>5. ASSUME n >= k
      PROVE  FirstBytes(s, n) = s
  <2>1. FirstBytes(s, n) = SubSeq(s, 1, Len(s))
    BY <1>5 DEF FirstBytes
  <2> QED
    BY <2>1, SubSeqFull
<1> QED
  BY <1>1, <1>3, <1>4, <1>5

\* The next bytes behind them, at most c, end at q.
EndsAt(s, p, c, q) ==
  /\ p \in Nat /\ q \in Nat /\ c \in Nat \ {0} /\ p < Len(s)
  /\ p + c < Len(s) => q = p + c
  /\ p + c >= Len(s) => q = Len(s)

\* They are no more than c, and come next.
LEMMA NextBytes ==
  ASSUME NEW s \in Seq(Byte), NEW p, NEW c, NEW q, EndsAt(s, p, c, q)
  PROVE  /\ SubSeq(s, p + 1, q) \in Seq(Byte) /\ SubSeq(s, p + 1, q) # <<>>
         /\ Len(SubSeq(s, p + 1, q)) <= c
         /\ FirstBytes(s, p) \o SubSeq(s, p + 1, q) = FirstBytes(s, p + c)
<1>0. /\ p \in Nat /\ q \in Nat /\ c \in Nat \ {0} /\ p < Len(s)
      /\ p + c < Len(s) => q = p + c
      /\ p + c >= Len(s) => q = Len(s)
  BY DEF EndsAt
<1> PICK k \in Nat : k = Len(s)
  OBVIOUS
<1>1. p \in 0..k /\ q \in (p + 1)..k /\ q - p <= c
  BY <1>0
<1>2. \A i \in (p + 1)..q : s[i] \in Byte
  BY <1>1
<1> DEFINE d == SubSeq(s, p + 1, q)
<1>3. d \in Seq(Byte) /\ Len(d) = q - p
  BY <1>1, <1>2, SubSeqProperties
<1>4. FirstBytes(s, p) = SubSeq(s, 1, p) /\ FirstBytes(s, p + c) = SubSeq(s, 1, q)
  BY <1>0, <1>1 DEF FirstBytes
<1>5. SubSeq(s, 1, p) \o SubSeq(s, p + 1, q) = SubSeq(s, 1, q)
  <2>1. 1 \in 1..(Len(s) + 1) /\ p \in (1 - 1)..Len(s) /\ q \in p..Len(s)
    BY <1>1
  <2> QED
    BY <2>1, ConcatAdjacentSubSeq
<1>6. d # <<>>
  BY <1>1, <1>3, EmptySeq
<1> QED
  BY <1>1, <1>3, <1>4, <1>5, <1>6

\* Places in a stream.
LEMMA Places ==
  ASSUME NEW a \in Nat
  PROVE  /\ a * chunk_size \in Nat /\ (a + 1) * chunk_size = a * chunk_size + chunk_size
         /\ ((a + 1) - 1) * chunk_size = a * chunk_size
BY BufferReadersAssumption

\* Where a chunk ends that begins before the end.
LEMMA ChunkEnds ==
  ASSUME NEW p \in Nat, NEW k \in Nat, NEW c \in Nat \ {0}, p < k
  PROVE  \E n, q \in Nat : /\ n = (IF c < k - p THEN c ELSE k - p) /\ p + n = q
                           /\ p + c < k => q = p + c /\ q # k
                           /\ p + c >= k => q = k
<1> DEFINE n == IF c < k - p THEN c ELSE k - p
<1>1. n \in Nat /\ p + n \in Nat
  OBVIOUS
<1>2. /\ p + c < k => p + n = p + c /\ p + n # k
      /\ p + c >= k => p + n = k
  OBVIOUS
<1> QED
  BY <1>1, <1>2

\* The next chunk of a stream.
IsChunk(s, a, ec, d) ==
  \E ch : /\ ch = Stream(Len(s))!Chunk(a + 1) /\ ec = ch.ec
          /\ d = SubSeq(s, ch.pos + 1, ch.pos + ch.size)

\* The chunk in those terms: what the equation of ChunkStream says, for a place and a size.
LEMMA ChunkHolds ==
  ASSUME NEW s \in Seq(Byte), NEW a \in Nat, NEW ec, NEW d, IsChunk(s, a, ec, d),
         NEW k \in Nat, k = Len(s), NEW p \in Nat, p = a * chunk_size
  PROVE  /\ p >= k => ec = "end_of_file" /\ d = SubSeq(s, 1, 0)
         /\ \A n : p < k /\ n = (IF chunk_size < k - p THEN chunk_size ELSE k - p) =>
              /\ ec = IF p + n = k THEN "end_of_file" ELSE "success"
              /\ d = SubSeq(s, p + 1, p + n)
<1> PICK ch : /\ ch = Stream(Len(s))!Chunk(a + 1) /\ ec = ch.ec
              /\ d = SubSeq(s, ch.pos + 1, ch.pos + ch.size)
  BY DEF IsChunk
<1>1. ((a + 1) - 1) * chunk_size = p
  BY Places
<1>2. ch = LET n == IF chunk_size < k - p THEN chunk_size ELSE k - p
           IN  IF p >= k THEN [pos |-> 0, size |-> 0, ec |-> "end_of_file"]
               ELSE [pos |-> p, size |-> n,
                     ec |-> IF p + n = k THEN "end_of_file" ELSE "success"]
  BY <1>1 DEF Stream!Chunk, Stream!Least
<1>3. CASE p >= k
  <2>1. ch = [pos |-> 0, size |-> 0, ec |-> "end_of_file"]
    BY <1>2, <1>3
  <2> QED
    BY <1>3, <2>1
<1>4. CASE ~(p >= k)
  <2> SUFFICES ASSUME NEW n, n = IF chunk_size < k - p THEN chunk_size ELSE k - p
               PROVE  /\ ec = IF p + n = k THEN "end_of_file" ELSE "success"
                      /\ d = SubSeq(s, p + 1, p + n)
    BY <1>4
  <2>1. ch = [pos |-> p, size |-> n, ec |-> IF p + n = k THEN "end_of_file" ELSE "success"]
    BY <1>2, <1>4
  <2>2. ch.pos = p /\ ch.size = n /\ ch.ec = IF p + n = k THEN "end_of_file" ELSE "success"
    BY <2>1
  <2> QED
    BY <2>2
<1> QED
  BY <1>3, <1>4

\* What the next chunk is.
LEMMA ChunkIs ==
  ASSUME NEW s \in Seq(Byte), NEW a \in Nat, NEW ec, NEW d, IsChunk(s, a, ec, d)
  PROVE  /\ Fits(d) /\ ec \in {"success", "end_of_file"}
         /\ ec = "success" => d # <<>> /\ (a + 1) * chunk_size < Len(s)
         /\ ec = "end_of_file" => FirstBytes(s, (a + 1) * chunk_size) = s
         /\ a * chunk_size < Len(s) => d # <<>>
         /\ FirstBytes(s, a * chunk_size) \o d = FirstBytes(s, (a + 1) * chunk_size)
<1> DEFINE k == Len(s)
           p == a * chunk_size
           r == (a + 1) * chunk_size
           c == chunk_size
<1>1. k \in Nat /\ p \in Nat /\ r = p + c /\ c \in Nat \ {0}
  BY Places, BufferReadersAssumption
<1>2. /\ p >= k => ec = "end_of_file" /\ d = SubSeq(s, 1, 0)
      /\ \A n : p < k /\ n = (IF c < k - p THEN c ELSE k - p) =>
           /\ ec = IF p + n = k THEN "end_of_file" ELSE "success"
           /\ d = SubSeq(s, p + 1, p + n)
  BY <1>1, ChunkHolds
<1>3. \A b \in Seq(Byte) : Len(b) <= c => Fits(b)
  BY DEF Fits
<1>4. k = Len(s)
  OBVIOUS
<1> HIDE DEF k, p, r, c
<1>5. CASE p >= k
  <2>1. ec = "end_of_file" /\ d = <<>>
    BY <1>2, <1>5, SubSeqEmpty
  <2>2. FirstBytes(s, p) = s /\ FirstBytes(s, r) = s
    <3>1. r \in Nat /\ p >= Len(s) /\ r >= Len(s)
      BY <1>1, <1>4, <1>5
    <3> QED
      BY <1>1, <3>1, FirstBytesAre
  <2>3. s \o <<>> = s
    BY ConcatEmptySeq
  <2>4. Fits(<<>>)
    <3>1. <<>> \in Seq(Byte) /\ Len(<<>>) = 0
      BY EmptySeq
    <3>2. Len(<<>>) <= chunk_size
      BY <1>1, <3>1 DEF c
    <3> QED
      BY <3>1, <3>2 DEF Fits
  <2>5. FirstBytes(s, p) \o d = FirstBytes(s, r) /\ Fits(d)
    BY <2>1, <2>2, <2>3, <2>4
  <2>6. ~(p < k)
    BY <1>1, <1>5
  <2> QED
    BY <2>1, <2>2, <2>5, <2>6 DEF k, p, r, c
<1>6. CASE p < k
  <2>1. PICK n, q \in Nat : /\ n = (IF c < k - p THEN c ELSE k - p) /\ p + n = q
                            /\ p + c < k => q = p + c /\ q # k
                            /\ p + c >= k => q = k
    BY <1>1, <1>6, ChunkEnds
  <2>2. /\ ec = IF q = k THEN "end_of_file" ELSE "success"
        /\ d = SubSeq(s, p + 1, q)
    BY <1>2, <1>6, <2>1
  <2>3. p < Len(s) /\ (p + c < Len(s) => q = p + c) /\ (p + c >= Len(s) => q = Len(s))
    BY <1>4, <1>6, <2>1
  <2>4. /\ d \in Seq(Byte) /\ d # <<>> /\ Len(d) <= c
        /\ FirstBytes(s, p) \o d = FirstBytes(s, r)
    <3> DEFINE e == SubSeq(s, p + 1, q)
    <3>1. /\ e \in Seq(Byte) /\ e # <<>> /\ Len(e) <= c
          /\ FirstBytes(s, p) \o e = FirstBytes(s, p + c)
      <4>1. EndsAt(s, p, c, q)
        BY <1>1, <2>1, <2>3 DEF EndsAt
      <4> QED
        BY <4>1, NextBytes
    <3>2. d = e
      BY <2>2
    <3> HIDE DEF e
    <3> QED
      BY <1>1, <3>1, <3>2
  <2>5. q = k => FirstBytes(s, r) = s
    <3>1. q = k => p + c >= k
      BY <1>1, <2>1
    <3> QED
      BY <1>1, <1>4, <3>1, FirstBytesAre
  <2>6. q # k => r < k
    BY <1>1, <2>1
  <2>7. Fits(d)
    BY <1>3, <2>4
  <2> QED
    BY <2>2, <2>4, <2>5, <2>6, <2>7 DEF k, p, r, c
<1> QED
  BY <1>1, <1>5, <1>6

\* The bytes of a piece.
LEMMA PieceBytes ==
  ASSUME TokenInv, SizeInv, original_size \in Nat, NEW p \in 0..Len(calls)
  PROVE  Piece(p) \in Seq(Byte)
<1> PICK n \in 0..MaxCalls : n = Len(calls)
  BY DEF TokenInv, Lists
<1>0. MaxCalls \in Nat
  BY SwappingBufferAssumption
<1> DEFINE m == IF p = 0 THEN original_size ELSE calls[p].size
<1>1. m \in Nat
  BY <1>0 DEF SizeInv
<1>2. Piece(p) = [o \in 1..m |-> <<p, o>>]
  BY DEF Piece
<1> HIDE DEF m
<1>3. \A o \in 1..m : <<p, o>> \in Byte
  BY <1>0 DEF Byte
<1>4. [o \in 1..m |-> <<p, o>>] \in [1..m -> Byte]
  BY <1>3
<1> QED
  BY <1>1, <1>2, <1>4, SeqDef

\* What a stream gives to the reader that asks it.
LEMMA StreamGives ==
  ASSUME NEW queue, NEW s \in {"file", "tmp_file"}, NEW whom, NEW n, AskStream(queue, s, whom, n),
         reader \in Readers, reader[s] # None
  PROVE  \E t, x : /\ io_' = Append(queue, t) /\ t.task = whom /\ t.n = n
                   /\ IsChunk(reader[s].bytes, reader[s].asked, t.ec, t.data)
                   /\ x \in Streams /\ x # None /\ reader' \in Readers
                   /\ x.bytes = reader[s].bytes /\ x.asked = reader[s].asked + 1
                   /\ s = "file" => reader'.file = x /\ reader'.tmp_file = reader.tmp_file
                   /\ s = "tmp_file" => reader'.tmp_file = x /\ reader'.file = reader.file
<1>1. \E t : /\ io_' = Append(queue, t) /\ t.task = whom /\ t.n = n
             /\ IsChunk(reader[s].bytes, reader[s].asked, t.ec, t.data)
  <2> DEFINE ch == Stream(Len(reader[s].bytes))!Chunk(reader[s].asked + 1)
             t == [task |-> whom, n |-> n, ec |-> ch.ec,
                   data |-> SubSeq(reader[s].bytes, ch.pos + 1, ch.pos + ch.size)]
  <2>1. io_' = Append(queue, t)
    BY DEF AskStream
  <2>2. t.ec = ch.ec /\ t.data = SubSeq(reader[s].bytes, ch.pos + 1, ch.pos + ch.size)
    OBVIOUS
  <2>3. t.task = whom /\ t.n = n
    OBVIOUS
  <2>4. IsChunk(reader[s].bytes, reader[s].asked, t.ec, t.data)
    BY <2>2 DEF IsChunk
  <2> HIDE DEF t
  <2> QED
    BY <2>1, <2>3, <2>4
<1>2. reader' = [reader EXCEPT ![s].asked = @ + 1]
  BY DEF AskStream
<1> DEFINE x == [reader[s] EXCEPT !.asked = @ + 1]
<1>3. reader' = [reader EXCEPT ![s] = x]
  BY <1>2
<1>4. reader[s] \in Streams
  BY DEF Readers
<1>5. x \in Streams /\ x # None /\ x.bytes = reader[s].bytes /\ x.asked = reader[s].asked + 1
  <2>1. x \in Streams
    BY <1>4 DEF Streams
  <2>2. x.bytes = reader[s].bytes /\ x.asked = reader[s].asked + 1
    BY <1>4 DEF Streams
  <2> QED
    BY <2>1, <2>2, BufferReadersAssumption
<1> HIDE DEF x
<1>6. CASE s = "file"
  <2>1. reader'.file = x /\ reader'.tmp_file = reader.tmp_file /\ reader' \in Readers
    BY <1>3, <1>5, <1>6 DEF Readers
  <2> QED
    BY <1>1, <1>5, <1>6, <2>1
<1>7. CASE s = "tmp_file"
  <2>1. reader'.file = reader.file /\ reader'.tmp_file = x /\ reader' \in Readers
    BY <1>3, <1>5, <1>7 DEF Readers
  <2> QED
    BY <1>1, <1>5, <1>7, <2>1
<1> QED
  BY <1>6, <1>7

\* What the reader of what is cached gives.
CacheGiven(t, pos, next) ==
  /\ Fits(t.data) /\ t.ec \in {"success", "end_of_file", "stopped"}
  /\ t.ec = "success" => t.data # <<>>
  /\ t.ec = "stopped" => stopReading /\ t.data = <<>>
  /\ stopReading => t.ec # "success" /\ t.data = <<>>
  /\ t.ec # "stopped" => FirstBytes(LastPart, pos) \o t.data = FirstBytes(LastPart, next)
  /\ t.ec = "end_of_file" => FirstBytes(LastPart, next) = LastPart

\* What next_chunk of a CacheChunkedReader posts.
LEMMA CacheGives ==
  ASSUME NEW queue, NEW n, CacheNext(queue, n), reader \in Readers, reader.pos # None,
         LastPart \in Seq(Byte)
  PROVE  \E t : /\ io_' = Append(queue, t) /\ t.task = "answer" /\ t.n = n
                /\ CacheGiven(t, reader.pos, reader'.pos)
                /\ reader' \in Readers
                /\ reader'.file = reader.file /\ reader'.tmp_file = reader.tmp_file
<1> PICK L : L = LastPart
  OBVIOUS
<1> PICK k \in Nat : k = Len(L)
  OBVIOUS
<1> PICK p : p = reader.pos
  OBVIOUS
<1>0. p \in Nat /\ chunk_size \in Nat \ {0}
  BY BufferReadersAssumption DEF Readers
<1>s. L \in Seq(Byte)
  OBVIOUS
<1>n. <<>> \in Seq(Byte) /\ Len(<<>>) <= chunk_size
  BY <1>0, EmptySeq
<1>e. Fits(<<>>)
  BY <1>n DEF Fits
<1>1. CASE p >= k
  <2>1. UNCHANGED reader /\ io_' = Append(queue, PostedAnswer(n, "end_of_file", <<>>))
    BY <1>1 DEF CacheNext, LastPart
  <2> DEFINE t == PostedAnswer(n, "end_of_file", <<>>)
  <2>2. t.task = "answer" /\ t.n = n /\ t.ec = "end_of_file" /\ t.data = <<>>
    BY DEF PostedAnswer
  <2>3. FirstBytes(LastPart, p) = LastPart /\ LastPart \o <<>> = LastPart
    BY <1>0, <1>1, FirstBytesAre, ConcatEmptySeq
  <2>4. CacheGiven(t, p, p)
    BY <1>e, <2>2, <2>3 DEF CacheGiven
  <2>5. /\ reader' \in Readers /\ reader'.pos = p
        /\ reader'.file = reader.file /\ reader'.tmp_file = reader.tmp_file
    BY <2>1
  <2>6. io_' = Append(queue, t)
    BY <2>1
  <2> HIDE DEF t
  <2> QED
    BY <2>2, <2>4, <2>5, <2>6
<1>2. CASE p < k
  <2> DEFINE next == p + chunk_size
             e == IF next >= k THEN k ELSE next
  <2>0. next \in Nat
    BY <1>0
  <2>1. reader' = [reader EXCEPT !.pos = next]
    BY <1>0, <1>2 DEF CacheNext, LastPart
  <2>2. \/ stopReading /\ io_' = Append(queue, PostedAnswer(n, "stopped", <<>>))
        \/ /\ ~stopReading
           /\ io_' = Append(queue, PostedAnswer(n, IF next >= k THEN "end_of_file" ELSE "success",
                                                SubSeq(L, p + 1, e)))
    <3>1. next >= k \/ ~(next >= k)
      OBVIOUS
    <3> QED
      BY <1>0, <1>2, <3>1 DEF CacheNext, LastPart
  <2>3. /\ reader' \in Readers /\ reader'.pos = next
        /\ reader'.file = reader.file /\ reader'.tmp_file = reader.tmp_file
    BY <2>0, <2>1 DEF Readers
  <2>4. CASE stopReading /\ io_' = Append(queue, PostedAnswer(n, "stopped", <<>>))
    <3> DEFINE t == PostedAnswer(n, "stopped", <<>>)
    <3>1. t.task = "answer" /\ t.n = n /\ t.ec = "stopped" /\ t.data = <<>>
      BY DEF PostedAnswer
    <3>2. CacheGiven(t, p, next)
      BY <1>e, <2>4, <3>1 DEF CacheGiven
    <3> HIDE DEF t, next
    <3> QED
      BY <2>3, <2>4, <3>1, <3>2 DEF t
  <2>5. CASE /\ ~stopReading
             /\ io_' = Append(queue, PostedAnswer(n, IF next >= k THEN "end_of_file" ELSE "success",
                                                  SubSeq(L, p + 1, e)))
    <3> DEFINE ec == IF next >= k THEN "end_of_file" ELSE "success"
               d == SubSeq(L, p + 1, e)
               t == PostedAnswer(n, ec, d)
    <3>1. t.task = "answer" /\ t.n = n /\ t.ec = ec /\ t.data = d
      BY DEF PostedAnswer
    <3>2. EndsAt(L, p, chunk_size, e)
      BY <1>0, <1>2 DEF EndsAt
    <3>3. /\ d \in Seq(Byte) /\ d # <<>> /\ Len(d) <= chunk_size
          /\ FirstBytes(L, p) \o d = FirstBytes(L, next)
      <4> HIDE DEF e
      <4> QED
        BY <1>s, <3>2, NextBytes
    <3>4. ec = "end_of_file" => FirstBytes(L, next) = L
      <4>1. next >= k => FirstBytes(L, next) = L
        BY <2>0, FirstBytesAre
      <4> QED
        BY <4>1
    <3>5. ec \in {"success", "end_of_file"}
      OBVIOUS
    <3>6. io_' = Append(queue, t)
      BY <2>5
    <3> HIDE DEF ec, d, t, e, next
    <3>7. Fits(d)
      BY <3>3 DEF Fits
    <3>8. CacheGiven(t, p, next)
      BY <2>5, <3>1, <3>3, <3>4, <3>5, <3>7 DEF CacheGiven
    <3> QED
      BY <2>3, <3>1, <3>6, <3>8
  <2> QED
    BY <2>2, <2>4, <2>5
<1> QED
  BY <1>0, <1>1, <1>2

\* What is given is delivered behind what was.
LEMMA DeliveredGrows ==
  ASSUME IsList(got), \A i \in 1..Len(got) : got[i].data \in Seq(Byte),
         NEW t, t.data \in Seq(Byte), NEW ec, Give(t, ec)
  PROVE  /\ Delivered \in Seq(Byte) /\ Delivered' = Delivered \o t.data
         /\ IsList(got') /\ Len(got') = Len(got) + 1
         /\ \A i \in 1..Len(got) : got'[i] = got[i]
         /\ got'[Len(got) + 1] = [call |-> t.n, ec |-> ec, data |-> t.data]
<1> DEFINE a == [call |-> t.n, ec |-> ec, data |-> t.data]
<1>1. got' = Append(got, a) /\ a.data = t.data
  BY DEF Give
<1> HIDE DEF a
<1> PICK k \in Nat : k = Len(got)
  BY DEF IsList
<1>2. /\ IsList(got') /\ Len(got') = k + 1
      /\ \A i \in 1..k : got'[i] = got[i]
      /\ got'[k + 1] = a
  BY <1>1, AppendList
<1> DEFINE s == [i \in 1..k |-> got[i].data]
           u == [i \in 1..(k + 1) |-> got'[i].data]
<1>3. s \in Seq(Seq(Byte)) /\ Len(s) = k /\ \A i \in 1..k : s[i] = got[i].data
  <2> DEFINE Q == Seq(Byte)
  <2>1. s \in [1..k -> Q]
    OBVIOUS
  <2> HIDE DEF Q
  <2> QED
    BY <2>1, SeqDef DEF Q
<1>4. u \in Seq(Seq(Byte)) /\ Len(u) = k + 1 /\ \A i \in 1..(k + 1) : u[i] = got'[i].data
  <2> DEFINE Q == Seq(Byte)
  <2>1. \A i \in 1..(k + 1) : got'[i].data \in Q
    <3>1. \A i \in 1..(k + 1) : i \in 1..k \/ i = k + 1
      OBVIOUS
    <3> QED
      BY <1>1, <1>2, <3>1
  <2>2. u \in [1..(k + 1) -> Q]
    BY <2>1
  <2>3. k + 1 \in Nat
    OBVIOUS
  <2> HIDE DEF Q
  <2> QED
    BY <2>2, <2>3, SeqDef DEF Q
<1>5. Delivered = FlattenSeq(s) /\ Delivered' = FlattenSeq(u)
  BY <1>2 DEF Delivered
<1> HIDE DEF s, u
<1>6. u = Append(s, t.data)
  <2> DEFINE v == Append(s, t.data)
             Q == Seq(Byte)
  <2>1. /\ v \in Seq(Q) /\ Len(v) = k + 1 /\ v[k + 1] = t.data
        /\ \A i \in 1..k : v[i] = s[i]
    BY <1>3, AppendProperties
  <2>2. \A i \in 1..(k + 1) : i \in 1..k \/ i = k + 1
    OBVIOUS
  <2>3. \A i \in 1..(k + 1) : u[i] = v[i]
    BY <1>1, <1>2, <1>3, <1>4, <2>1, <2>2
  <2>4. u \in Seq(Q) /\ Len(u) = Len(v) /\ Len(u) = k + 1
    BY <1>4, <2>1
  <2> HIDE DEF v, Q
  <2>5. u = v
    BY <2>1, <2>3, <2>4, SeqEqual
  <2> QED
    BY <2>5 DEF v
<1>7. FlattenSeq(s) \in Seq(Byte) /\ FlattenSeq(Append(s, t.data)) = FlattenSeq(s) \o t.data
  BY <1>3, FlattenAppend
<1> QED
  BY <1>2, <1>5, <1>6, <1>7 DEF a

\* What the pieces of two lists hold, and those of none.
LEMMA BytesConcat ==
  ASSUME TokenInv, SizeInv, original_size \in Nat, NEW a \in Pieces, NEW b \in Pieces
  PROVE  BytesOf(a \o b) = BytesOf(a) \o BytesOf(b)
<1> PICK n \in 0..MaxCalls : n = Len(calls)
  BY DEF TokenInv, Lists
<1>0. MaxCalls \in Nat
  BY SwappingBufferAssumption
<1> DEFINE T == Seq(Byte)
           P == Seq(0..n)
<1>1. \A p \in 0..n : Piece(p) \in T
  BY <1>0, PieceBytes
<1>2. a \in P /\ b \in P /\ a \o b \in P
  <2>1. a \in P /\ b \in P
    BY DEF Pieces
  <2> QED
    BY <2>1, ConcatProperties
<1> PICK k \in Nat, l \in Nat : k = Len(a) /\ l = Len(b)
  BY <1>2
<1>3. /\ Len(a \o b) = k + l
      /\ \A i \in 1..(k + l) : (a \o b)[i] = IF i <= k THEN a[i] ELSE b[i - k]
  BY <1>2, ConcatProperties
<1> DEFINE s == [i \in 1..k |-> Piece(a[i])]
           t == [i \in 1..l |-> Piece(b[i])]
           u == [i \in 1..(k + l) |-> Piece((a \o b)[i])]
<1>4. \A i \in 1..k : a[i] \in 0..n
  BY <1>2
<1>5. \A i \in 1..l : b[i] \in 0..n
  BY <1>2
<1>6. \A i \in 1..(k + l) : (a \o b)[i] \in 0..n
  BY <1>2, <1>3
<1>7. BytesOf(a) = FlattenSeq(s) /\ BytesOf(b) = FlattenSeq(t) /\ BytesOf(a \o b) = FlattenSeq(u)
  <2>1. DOMAIN a = 1..k /\ DOMAIN b = 1..l /\ DOMAIN (a \o b) = 1..(k + l)
    BY <1>2, <1>3
  <2> QED
    BY <2>1 DEF BytesOf
<1> HIDE DEF T, P
<1>8. s \in Seq(T) /\ Len(s) = k /\ \A i \in 1..k : s[i] = Piece(a[i])
  <2>1. s \in [1..k -> T]
    BY <1>1, <1>4
  <2> QED
    BY <2>1, SeqDef
<1>9. t \in Seq(T) /\ Len(t) = l /\ \A i \in 1..l : t[i] = Piece(b[i])
  <2>1. t \in [1..l -> T]
    BY <1>1, <1>5
  <2> QED
    BY <2>1, SeqDef
<1>10. u \in Seq(T) /\ Len(u) = k + l /\ \A i \in 1..(k + l) : u[i] = Piece((a \o b)[i])
  <2>1. u \in [1..(k + l) -> T]
    BY <1>1, <1>6
  <2>2. k + l \in Nat
    OBVIOUS
  <2> QED
    BY <2>1, <2>2, SeqDef
<1> HIDE DEF s, t, u
<1>11. u = s \o t
  <2> DEFINE v == s \o t
  <2>1. /\ v \in Seq(T) /\ Len(v) = k + l
        /\ \A i \in 1..(k + l) : v[i] = IF i <= k THEN s[i] ELSE t[i - k]
    <3>1. s \in Seq(T) /\ t \in Seq(T)
      BY <1>8, <1>9
    <3>2. /\ s \o t \in Seq(T) /\ Len(s \o t) = Len(s) + Len(t)
          /\ \A i \in 1..(Len(s) + Len(t)) :
               (s \o t)[i] = IF i <= Len(s) THEN s[i] ELSE t[i - Len(s)]
      BY <3>1, ConcatProperties
    <3> QED
      BY <1>8, <1>9, <3>2
  <2> HIDE DEF v
  <2>2. ASSUME NEW i \in 1..(k + l)
        PROVE  u[i] = v[i]
    <3>1. CASE i <= k
      <4>1. i \in 1..k /\ (a \o b)[i] = a[i] /\ v[i] = s[i]
        BY <1>3, <2>1, <3>1
      <4> QED
        BY <1>8, <1>10, <4>1
    <3>2. CASE ~(i <= k)
      <4>1. i - k \in 1..l /\ (a \o b)[i] = b[i - k] /\ v[i] = t[i - k]
        BY <1>3, <2>1, <3>2
      <4> QED
        BY <1>9, <1>10, <4>1
    <3> QED
      BY <3>1, <3>2
  <2>3. u = v
    BY <1>10, <2>1, <2>2, SeqEqual
  <2> QED
    BY <2>3 DEF v
<1>12. FlattenSeq(s \o t) = FlattenSeq(s) \o FlattenSeq(t)
  BY <1>8, <1>9, FlattenConcat DEF T
<1> QED
  BY <1>7, <1>11, <1>12

\* No content is no bytes; a file that is not empty has some.
LEMMA BytesFew ==
  ASSUME original_size \in Nat
  PROVE  /\ BytesOf(<<>>) = <<>>
         /\ original_size > 0 => Len(BytesOf(<<0>>)) > 0
<1>1. BytesOf(<<>>) = <<>>
  <2> DEFINE s == [i \in DOMAIN <<>> |-> Piece(<<>>[i])]
  <2>1. s = <<>>
    OBVIOUS
  <2>2. FlattenSeq(<<>>) = <<>>
    BY EmptySeq, FlattenAppend
  <2> HIDE DEF s
  <2> QED
    BY <2>1, <2>2 DEF BytesOf, s
<1>2. BytesOf(<<0>>) = Piece(0)
  <2> DEFINE s == [i \in DOMAIN <<0>> |-> Piece(<<0>>[i])]
             q == Piece(0)
  <2>1. s = <<q>>
    OBVIOUS
  <2>2. q \in Seq({0} \X Nat)
    <3>1. q = [o \in 1..original_size |-> <<0, o>>]
      BY DEF Piece
    <3>2. q \in [1..original_size -> {0} \X Nat]
      BY <3>1
    <3> QED
      BY <3>2, SeqDef
  <2> HIDE DEF q
  <2>3. <<q>> = Append(<<>>, q) /\ <<>> \in Seq(Seq({0} \X Nat)) /\ <<>> \o q = q
    <3>1. <<>> \o q = q
      BY <2>2, ConcatEmptySeq
    <3> QED
      BY <3>1
  <2>4. FlattenSeq(<<q>>) = FlattenSeq(<<>>) \o q /\ FlattenSeq(<<>>) = <<>>
    BY <2>2, <2>3, FlattenAppend
  <2>5. BytesOf(<<0>>) = FlattenSeq(s)
    BY DEF BytesOf
  <2> HIDE DEF s
  <2> QED
    BY <2>1, <2>3, <2>4, <2>5 DEF q
<1>3. Len(Piece(0)) = original_size
  BY DEF Piece
<1> QED
  BY <1>1, <1>2, <1>3

\* The parts of what a reader hands out.
LEMMA PartsAre ==
  ASSUME TokenInv, SizeInv, PiecesInv, SwapInv, FilesThere, original_size \in Nat, AtPeace
  PROVE  /\ FirstPart \in Seq(Byte) /\ SecondPart \in Seq(Byte) /\ LastPart \in Seq(Byte)
         /\ Everything \in Seq(Byte)
<1>1. ~SaveBegun
  BY DEF AtPeace, Saving, SaveBegun
<1>2. \A c \in Pieces : BytesOf(c) \in Seq(Byte)
  BY OpenStream
<1>3. dest \in Pieces /\ (isOnDisk => tmp \in Pieces) /\ bufs[currentBuffer] \in Pieces
  BY <1>1 DEF PiecesInv, FilesThere, SwapInv, Buffers
<1>4. FirstPart \in Seq(Byte)
  BY <1>2, <1>3, EmptySeq DEF FirstPart
<1>5. SecondPart \in Seq(Byte)
  BY <1>2, <1>3, EmptySeq DEF SecondPart
<1>6. LastPart \in Seq(Byte)
  BY <1>2, <1>3 DEF LastPart
<1>7. Everything \in Seq(Byte)
  <2>1. FirstPart \o SecondPart \in Seq(Byte)
    BY <1>4, <1>5, ConcatProperties
  <2> QED
    BY <1>6, <2>1, ConcatProperties DEF Everything
<1> QED
  BY <1>4, <1>5, <1>6, <1>7

\* Together they are all there is.
LEMMA PartsWhole ==
  ASSUME TokenInv, SizeInv, PiecesInv, SwapInv, FileInv, DataInv, FilesThere, TypesInv,
         original_size \in Nat, AtPeace, ~error
  PROVE  Everything = Whole
<1>1. ~SaveBegun
  BY DEF AtPeace, Saving, SaveBegun
<1>2. SwapRequests = {} /\ SwapHandlers = {} /\ ~Flying
  BY DEF AtPeace, SwapInv, Flying
<1> DEFINE cur == bufs[currentBuffer]
<1>3. dest = <<0>> /\ (isOnDisk => tmp # None) /\ isOnDisk \in BOOLEAN
  BY <1>1 DEF FilesThere, TypesInv, ScalarTypes
<1>4. /\ kind \in {"Append", "Overwrite"} /\ cur \in Pieces /\ dest \in Pieces /\ <<>> \in Pieces
      /\ tmp # None => tmp \in Pieces
  BY EmptySeq DEF FilesThere, PiecesInv, SwapInv, Buffers, Pieces
<1>5. logical = OnDisk \o <<>> \o cur /\ (tmp # None => isOnDisk)
  BY <1>1, <1>2 DEF DataInv
<1> HIDE DEF cur
<1>6. \A a, b \in Pieces : BytesOf(a \o b) = BytesOf(a) \o BytesOf(b) /\ a \o b \in Pieces
  <2>1. \A a, b \in Pieces : a \o b \in Pieces
    BY ConcatProperties DEF Pieces
  <2> QED
    BY <2>1, BytesConcat
<1>7. \A a \in Pieces : BytesOf(a) \in Seq(Byte) /\ a \o <<>> = a /\ <<>> \o a = a
  BY OpenStream, ConcatEmptySeq DEF Pieces
<1>8. BytesOf(<<>>) = <<>>
  BY BytesFew
<1>9. \A x \in Seq(Byte) : <<>> \o x = x /\ x \o <<>> = x
  BY ConcatEmptySeq
<1>10. \A x, y, z \in Seq(Byte) : (x \o y) \o z = x \o (y \o z)
  BY ConcatThree
<1>11. LastPart = BytesOf(cur)
  BY DEF LastPart, cur
<1>12. CASE isOnDisk
  <2>1. tmp \in Pieces /\ logical = tmp \o cur /\ BytesOf(logical) = BytesOf(tmp) \o BytesOf(cur)
        /\ logical \in Pieces
    <3>1. OnDisk = tmp /\ tmp \in Pieces
      BY <1>3, <1>4, <1>12 DEF OnDisk
    <3>2. logical = (tmp \o <<>>) \o cur /\ tmp \o <<>> = tmp
      BY <1>5, <1>7, <3>1
    <3>3. logical = tmp \o cur
      BY <3>2
    <3>4. BytesOf(tmp \o cur) = BytesOf(tmp) \o BytesOf(cur) /\ tmp \o cur \in Pieces
      BY <1>4, <1>6, <3>1
    <3> QED
      BY <3>1, <3>3, <3>4
  <2>2. CASE kind = "Append"
    <3>1. FirstPart = BytesOf(dest) /\ SecondPart = BytesOf(tmp)
      BY <1>12, <2>2 DEF FirstPart, SecondPart
    <3>2. Whole = BytesOf(dest) \o BytesOf(logical)
      BY <1>3, <1>4, <1>6, <2>1, <2>2 DEF Whole, Original
    <3>3. /\ BytesOf(dest) \in Seq(Byte) /\ BytesOf(tmp) \in Seq(Byte)
          /\ BytesOf(cur) \in Seq(Byte)
      BY <1>4, <1>7, <2>1
    <3>4. (BytesOf(dest) \o BytesOf(tmp)) \o BytesOf(cur)
            = BytesOf(dest) \o (BytesOf(tmp) \o BytesOf(cur))
      BY <1>10, <3>3
    <3>5. Everything = (BytesOf(dest) \o BytesOf(tmp)) \o BytesOf(cur)
      BY <1>11, <3>1 DEF Everything
    <3>6. Whole = BytesOf(dest) \o (BytesOf(tmp) \o BytesOf(cur))
      BY <2>1, <3>2
    <3> QED
      BY <3>4, <3>5, <3>6
  <2>3. CASE kind = "Overwrite"
    <3>1. FirstPart = <<>> /\ SecondPart = BytesOf(tmp)
      BY <1>12, <2>3 DEF FirstPart, SecondPart
    <3>2. Whole = BytesOf(logical)
      BY <1>7, <2>1, <2>3 DEF Whole, Original
    <3> QED
      BY <1>7, <1>9, <1>11, <2>1, <3>1, <3>2 DEF Everything
  <2> QED
    BY <1>4, <2>2, <2>3
<1>13. CASE ~isOnDisk
  <2>1. logical = cur /\ logical \in Pieces
    BY <1>4, <1>5, <1>7, <1>13 DEF OnDisk
  <2>2. CASE kind = "Append"
    <3>1. FirstPart = <<>> /\ SecondPart = BytesOf(dest)
      BY <1>13, <2>2 DEF FirstPart, SecondPart
    <3>2. Whole = BytesOf(dest) \o BytesOf(logical)
      BY <1>3, <1>4, <1>6, <2>1, <2>2 DEF Whole, Original
    <3> QED
      BY <1>4, <1>7, <1>9, <1>11, <2>1, <3>1, <3>2 DEF Everything
  <2>3. CASE kind = "Overwrite"
    <3>1. FirstPart = <<>> /\ SecondPart = <<>>
      BY <1>13, <2>3 DEF FirstPart, SecondPart
    <3>2. Whole = BytesOf(logical)
      BY <1>7, <2>1, <2>3 DEF Whole, Original
    <3>3. <<>> \in Seq(Byte)
      BY EmptySeq
    <3> QED
      BY <1>7, <1>9, <1>11, <2>1, <3>1, <3>2, <3>3 DEF Everything
  <2> QED
    BY <1>4, <2>2, <2>3
<1> QED
  BY <1>3, <1>12, <1>13

\* A step that leaves the buffer alone leaves alone what is read from it.
LEMMA PartsKept ==
  ASSUME UNCHANGED <<kind, isOnDisk, dest, tmp, bufs, currentBuffer, calls, original_size>>
  PROVE  /\ UNCHANGED <<FirstPart, SecondPart, LastPart, Everything>>
         /\ UNCHANGED NewReader /\ (Exact' <=> Exact)
<1>1. \A c : BytesOf(c)' = BytesOf(c)
  BY DEF BytesOf, Piece
<1>2. UNCHANGED <<FirstPart, SecondPart>>
  BY DEF FirstPart, SecondPart, BytesOf, Piece
<1>3. UNCHANGED LastPart
  BY DEF LastPart, BytesOf, Piece
<1>4. UNCHANGED Everything
  BY <1>2, <1>3 DEF Everything
<1>5. UNCHANGED <<Open(dest), Open(tmp)>>
  BY DEF Open, BytesOf, Piece
<1>6. UNCHANGED NewReader
  BY <1>5 DEF NewReader
<1>7. Exact' <=> Exact
  BY DEF Exact
<1> QED
  BY <1>2, <1>3, <1>4, <1>6, <1>7

\* A list begins with its first bytes, and with what is before something else.
LEMMA Begins ==
  ASSUME NEW x \in Seq(Byte), NEW y \in Seq(Byte)
  PROVE  x \o y \in Seq(Byte) /\ IsPrefix(x, x \o y) /\ Len(x) <= Len(x \o y)
<1> DEFINE z == x \o y
<1> PICK k \in Nat, l \in Nat : k = Len(x) /\ l = Len(y)
  OBVIOUS
<1>1. z \in Seq(Byte) /\ Len(z) = k + l
  BY ConcatProperties
<1>2. SubSeq(z, 1, k) = SubSeq(x, 1, k)
  <2>1. CASE k = 0
    BY <2>1, SubSeqEmpty
  <2>2. CASE k # 0
    <3>1. 1 \in 1..Len(x) /\ k \in 1..Len(x)
      BY <2>2
    <3> QED
      BY <3>1, SubSeqOfConcat1
  <2> QED
    BY <2>1, <2>2
<1> HIDE DEF z
<1>3. IsPrefix(x, z) /\ Len(x) <= Len(z)
  BY <1>1, <1>2 DEF IsPrefix
<1> QED
  BY <1>1, <1>3 DEF z

\* A list goes on behind its first bytes.
LEMMA FirstBytesBegin ==
  ASSUME NEW s \in Seq(Byte), NEW n \in Nat
  PROVE  \E rest \in Seq(Byte) : s = FirstBytes(s, n) \o rest
<1> PICK k \in Nat : k = Len(s)
  OBVIOUS
<1> DEFINE m == IF n < k THEN n ELSE k
<1>1. m \in 0..k /\ FirstBytes(s, n) = SubSeq(s, 1, m)
  BY DEF FirstBytes
<1> HIDE DEF m
<1>2. SubSeq(s, m + 1, k) \in Seq(Byte)
  <2>1. \A i \in (m + 1)..k : s[i] \in Byte
    BY <1>1
  <2> QED
    BY <1>1, <2>1, SubSeqProperties
<1>3. SubSeq(s, 1, m) \o SubSeq(s, m + 1, k) = SubSeq(s, 1, k)
  <2>1. 1 \in 1..(Len(s) + 1) /\ m \in (1 - 1)..Len(s) /\ k \in m..Len(s)
    BY <1>1
  <2> QED
    BY <2>1, ConcatAdjacentSubSeq
<1>4. SubSeq(s, 1, k) = s
  BY SubSeqFull
<1> QED
  BY <1>1, <1>2, <1>3, <1>4

\* Three runs of bytes, one behind the other.
LEMMA BytesThree ==
  \A x, y, z \in Seq(Byte) : (x \o y) \o z = x \o (y \o z)
<1> SUFFICES ASSUME NEW x \in Seq(Byte), NEW y \in Seq(Byte), NEW z \in Seq(Byte)
             PROVE  (x \o y) \o z = x \o (y \o z)
  OBVIOUS
<1> QED
  BY ConcatThree

\* What a reader has read is the beginning of all there is.
LEMMA ReadWithin ==
  ASSUME NEW r \in Readers, r.file = None /\ r.tmp_file = None => r.pos # None,
         NEW A \in Seq(Byte), NEW B \in Seq(Byte), NEW C \in Seq(Byte)
  PROVE  /\ ReadOf(r, A, B, C) \in Seq(Byte)
         /\ \E rest \in Seq(Byte) : (A \o B) \o C = ReadOf(r, A, B, C) \o rest
<1>1. \A x, y, z \in Seq(Byte) : (x \o y) \o z = x \o (y \o z)
  BY BytesThree
<1>2. \A x, y \in Seq(Byte) : x \o y \in Seq(Byte)
  BY ConcatProperties
<1>3. \A s \in Streams : Reached(s) \in Nat
  BY Places DEF Reached, Streams
<1>4. CASE r.file # None
  <2>1. Reached(r.file) \in Nat
    BY <1>3, <1>4 DEF Readers
  <2> DEFINE F == FirstBytes(A, Reached(r.file))
  <2>2. F \in Seq(Byte)
    BY <2>1, FirstBytesAre
  <2>4. ReadOf(r, A, B, C) = F /\ \E rest \in Seq(Byte) : A = F \o rest
    BY <1>4, <2>1, FirstBytesBegin DEF ReadOf
  <2> HIDE DEF F
  <2>r. B \o C \in Seq(Byte) /\ (A \o B) \o C = A \o (B \o C)
    BY <1>1, <1>2
  <2>s. \A rest \in Seq(Byte) : /\ (F \o rest) \o (B \o C) = F \o (rest \o (B \o C))
                               /\ rest \o (B \o C) \in Seq(Byte)
    BY <1>1, <1>2, <2>2, <2>r
  <2>3. PICK rest \in Seq(Byte) : A = F \o rest
    BY <2>4
  <2>5. (A \o B) \o C = F \o (rest \o (B \o C)) /\ rest \o (B \o C) \in Seq(Byte)
    BY <2>r, <2>s, <2>3
  <2> QED
    BY <2>2, <2>4, <2>5
<1>5. CASE r.file = None /\ r.tmp_file # None
  <2>1. Reached(r.tmp_file) \in Nat
    BY <1>3, <1>5 DEF Readers
  <2> DEFINE F == FirstBytes(B, Reached(r.tmp_file))
  <2>2. F \in Seq(Byte)
    BY <2>1, FirstBytesAre
  <2>4. ReadOf(r, A, B, C) = A \o F /\ \E rest \in Seq(Byte) : B = F \o rest
    BY <1>5, <2>1, FirstBytesBegin DEF ReadOf
  <2> HIDE DEF F
  <2>r. \A rest \in Seq(Byte) : A \o (F \o rest) = (A \o F) \o rest
    BY <1>1, <2>2
  <2>3. PICK rest \in Seq(Byte) : B = F \o rest
    BY <2>4
  <2>5. A \o F \in Seq(Byte) /\ rest \o C \in Seq(Byte)
    BY <1>2, <2>2
  <2>6. (A \o B) \o C = (A \o F) \o (rest \o C)
    <3>1. A \o (F \o rest) = (A \o F) \o rest
      BY <2>r
    <3> DEFINE G == A \o F
    <3>0. G \in Seq(Byte)
      BY <2>5
    <3> HIDE DEF G
    <3>2. (G \o rest) \o C = G \o (rest \o C)
      BY <1>1, <3>0
    <3> QED
      BY <2>3, <3>1, <3>2 DEF G
  <2> QED
    BY <2>4, <2>5, <2>6
<1>6. CASE r.file = None /\ r.tmp_file = None
  <2>1. r.pos \in Nat
    BY <1>6 DEF Readers
  <2> DEFINE F == FirstBytes(C, r.pos)
  <2>2. F \in Seq(Byte)
    BY <2>1, FirstBytesAre
  <2>4. ReadOf(r, A, B, C) = (A \o B) \o F /\ \E rest \in Seq(Byte) : C = F \o rest
    BY <1>6, <2>1, FirstBytesBegin DEF ReadOf
  <2> HIDE DEF F
  <2>r. ASSUME NEW x \in Seq(Byte), NEW rest \in Seq(Byte)
        PROVE  x \o (F \o rest) = (x \o F) \o rest
    BY <2>2, BytesThree
  <2>3. PICK rest \in Seq(Byte) : C = F \o rest
    BY <2>4
  <2>5. A \o B \in Seq(Byte) /\ (A \o B) \o F \in Seq(Byte)
    BY <1>2, <2>2
  <2>6. (A \o B) \o (F \o rest) = ((A \o B) \o F) \o rest
    <3> DEFINE G == A \o B
    <3>1. G \in Seq(Byte)
      BY <2>5
    <3> HIDE DEF G
    <3>2. G \o (F \o rest) = (G \o F) \o rest
      BY <2>r, <3>1
    <3> QED
      BY <3>2 DEF G
  <2> QED
    BY <2>3, <2>4, <2>5, <2>6
<1> QED
  BY <1>4, <1>5, <1>6

\* What a reader that was made now has read: nothing.
LEMMA NewReaderStarts ==
  ASSUME kind \in {"Append", "Overwrite"}, isOnDisk \in BOOLEAN, original_size \in Nat, dest = << 0 >>,
         FirstPart \in Seq(Byte), SecondPart \in Seq(Byte), LastPart \in Seq(Byte),
         Open(dest) # None, isOnDisk => Open(tmp) # None, NEW r, r = NewReader
  PROVE  /\ Streaming(r) /\ HaveRead(r) = <<>>
         /\ Exact => MoreInFile(r)
<1>1. \A x \in Seq(Byte) : FirstBytes(x, 0) = <<>>
  BY FirstBytesAre
<1>2. Reached(Open(dest)) = 0 /\ Reached(Open(tmp)) = 0
  <2>1. 0 * chunk_size = 0
    BY BufferReadersAssumption
  <2> QED
    BY <2>1 DEF Reached, Open
<1>3. <<>> \o <<>> = <<>>
  BY EmptySeq, ConcatEmptySeq
<1>4. CASE kind = "Append" /\ isOnDisk
  <2>1. r.file = Open(dest) /\ r.tmp_file = None /\ r.class = "append"
    BY <1>4 DEF NewReader, Reader
  <2>2. FirstPart = BytesOf(dest) /\ Open(dest).bytes = BytesOf(dest)
    BY <1>4 DEF FirstPart, Open
  <2>3. Streaming(r)
    BY <2>1, <2>2 DEF Streaming
  <2>4. HaveRead(r) = <<>>
    BY <1>1, <1>2, <2>1 DEF HaveRead, ReadOf
  <2>5. Exact => MoreInFile(r)
    <3>1. Exact => original_size > 0
      BY <1>4 DEF Exact
    <3>2. original_size > 0 => Len(FirstPart) > 0
      BY <2>2, BytesFew
    <3> QED
      BY <1>2, <2>1, <3>1, <3>2 DEF MoreInFile
  <2> QED
    BY <2>3, <2>4, <2>5
<1>5. CASE kind = "Append" /\ ~isOnDisk
  <2>1. r.file = None /\ r.tmp_file = Open(dest) /\ r.class = "overwrite"
    BY <1>5 DEF NewReader, Reader
  <2>2. FirstPart = <<>> /\ SecondPart = BytesOf(dest) /\ Open(dest).bytes = BytesOf(dest)
    BY <1>5 DEF FirstPart, SecondPart, Open
  <2> QED
    BY <1>1, <1>2, <1>3, <2>1, <2>2 DEF Streaming, HaveRead, ReadOf, MoreInFile
<1>6. CASE kind = "Overwrite" /\ isOnDisk
  <2>1. r.file = None /\ r.tmp_file = Open(tmp) /\ r.class = "overwrite"
    BY <1>6 DEF NewReader, Reader
  <2>2. FirstPart = <<>> /\ SecondPart = BytesOf(tmp) /\ Open(tmp).bytes = BytesOf(tmp)
    BY <1>6 DEF FirstPart, SecondPart, Open
  <2> QED
    BY <1>1, <1>2, <1>3, <1>6, <2>1, <2>2 DEF Streaming, HaveRead, ReadOf, MoreInFile
<1>7. CASE kind = "Overwrite" /\ ~isOnDisk
  <2>1. r.file = None /\ r.tmp_file = None /\ r.pos = 0
    BY <1>7 DEF NewReader, Reader
  <2>2. FirstPart = <<>> /\ SecondPart = <<>>
    BY <1>7 DEF FirstPart, SecondPart
  <2> QED
    BY <1>1, <1>3, <2>1, <2>2 DEF Streaming, HaveRead, ReadOf, MoreInFile
<1> QED
  BY <1>4, <1>5, <1>6, <1>7

\* Nothing comes behind all there is.
LEMMA NoMore ==
  ASSUME NEW x \in Seq(Byte), NEW d \in Seq(Byte), NEW rest \in Seq(Byte), x = (x \o d) \o rest
  PROVE  d = <<>>
<1>1. x \o d \in Seq(Byte) /\ Len(x \o d) = Len(x) + Len(d)
  BY ConcatProperties
<1>2. Len((x \o d) \o rest) = Len(x \o d) + Len(rest)
  BY <1>1, ConcatProperties
<1>3. Len(x) = (Len(x) + Len(d)) + Len(rest)
  BY <1>1, <1>2
<1>4. Len(d) = 0
  <2> PICK k \in Nat, l \in Nat, m \in Nat : k = Len(x) /\ l = Len(d) /\ m = Len(rest)
    OBVIOUS
  <2>1. k = (k + l) + m
    BY <1>3
  <2>2. l = 0
    BY <2>1
  <2> QED
    BY <2>2
<1> QED
  BY <1>4, EmptySeq

\* An answer that fits keeps what is known of them.
LEMMA GivenMore ==
  ASSUME IsList(got), GivenInv, NEW t, NEW ec, Give(t, ec), Fits(t.data), t.n = Len(got) + 1,
         ec = "success" => t.data # <<>>,
         ec = "end_of_file" => Delivered \o t.data = Everything \/ StoppedBy(Len(got)),
         Delivered = Everything => t.data = <<>>, UNCHANGED Everything
  PROVE  /\ GivenInv' /\ Delivered \in Seq(Byte)
         /\ Delivered' = Delivered \o t.data /\ Delivered' \in Seq(Byte)
         /\ StoppedBy(Len(got))' <=> StoppedBy(Len(got)) \/ ec = "stopped"
<1> PICK k \in Nat : k = Len(got)
  BY DEF IsList
<1>0. \A i \in 1..k : got[i].data \in Seq(Byte)
  BY DEF GivenInv, Fits
<1>1. t.data \in Seq(Byte)
  BY DEF Fits
<1>2. /\ Delivered \in Seq(Byte) /\ Delivered' = Delivered \o t.data
      /\ Len(got') = k + 1
      /\ \A i \in 1..k : got'[i] = got[i]
      /\ got'[k + 1] = [call |-> t.n, ec |-> ec, data |-> t.data]
  BY <1>0, <1>1, DeliveredGrows
<1>3. Delivered' \in Seq(Byte)
  BY <1>1, <1>2, ConcatProperties
<1>4. got'[k + 1].call = k + 1 /\ got'[k + 1].ec = ec /\ got'[k + 1].data = t.data
  BY <1>2
<1>5. \A i \in 1..(k + 1) : i \in 1..k \/ i = k + 1
  OBVIOUS
<1>6. \A i \in 1..k : StoppedBy(i)' <=> StoppedBy(i)
  <2> SUFFICES ASSUME NEW i \in 1..k
               PROVE  StoppedBy(i)' <=> StoppedBy(i)
    OBVIOUS
  <2>1. \A j \in 1..i : got'[j] = got[j]
    <3>1. \A j \in 1..i : j \in 1..k
      OBVIOUS
    <3> QED
      BY <1>2, <3>1
  <2> QED
    BY <2>1 DEF StoppedBy
<1>7. StoppedBy(k + 1)' <=> StoppedBy(k) \/ ec = "stopped"
  <2>1. 1..k \subseteq 1..(k + 1) /\ k + 1 \in 1..(k + 1)
    OBVIOUS
  <2>2. StoppedBy(k + 1)' <=> \E j \in 1..(k + 1) : got'[j].ec = "stopped"
    BY DEF StoppedBy
  <2>3. StoppedBy(k) <=> \E j \in 1..k : got'[j].ec = "stopped"
    BY <1>2 DEF StoppedBy
  <2> QED
    BY <1>4, <1>5, <2>1, <2>2, <2>3
<1>8. StoppedBy(Len(got))' <=> StoppedBy(k + 1)'
  BY <1>2 DEF StoppedBy
<1>9. Delivered = Everything => (Delivered = Everything)'
  <2>1. Delivered \o <<>> = Delivered
    BY <1>2, ConcatEmptySeq
  <2> QED
    BY <1>2, <2>1
<1>10. ASSUME NEW i \in 1..(k + 1)
       PROVE  /\ got'[i].call = i /\ Fits(got'[i].data)
              /\ got'[i].ec = "success" => got'[i].data # <<>>
              /\ got'[i].ec = "end_of_file" => (Delivered = Everything)' \/ StoppedBy(i)'
  <2>1. CASE i \in 1..k
    <3>1. /\ got[i].call = i /\ Fits(got[i].data)
          /\ got[i].ec = "success" => got[i].data # <<>>
          /\ got[i].ec = "end_of_file" => Delivered = Everything \/ StoppedBy(i)
      BY <2>1 DEF GivenInv
    <3> QED
      BY <1>2, <1>6, <1>9, <2>1, <3>1
  <2>2. CASE i = k + 1
    <3>1. ec = "end_of_file" => (Delivered = Everything)' \/ StoppedBy(k + 1)'
      BY <1>2, <1>7
    <3> QED
      BY <1>4, <2>2, <3>1
  <2> QED
    BY <1>5, <2>1, <2>2
<1>11. GivenInv'
  BY <1>2, <1>10 DEF GivenInv
<1> QED
  BY <1>2, <1>3, <1>7, <1>8, <1>11

\* While nothing is given, what is known of the answers stays.
LEMMA GivenSame ==
  ASSUME GivenInv, UNCHANGED <<got, Everything>>
  PROVE  /\ GivenInv' /\ Delivered' = Delivered
         /\ StoppedBy(Len(got))' <=> StoppedBy(Len(got))
<1>1. Delivered' = Delivered
  BY DEF Delivered
<1>2. \A i : StoppedBy(i)' <=> StoppedBy(i)
  BY DEF StoppedBy
<1>3. StoppedBy(Len(got))' <=> StoppedBy(Len(got))
  BY DEF StoppedBy
<1>4. GivenInv'
  BY <1>1, <1>2 DEF GivenInv
<1> QED
  BY <1>1, <1>3, <1>4

\* What is posted for the reader, if anything is, continues what was delivered.
LEMMA OneContinues ==
  ASSUME NEW q, IsList(q), NoTask(q), ~StoppedBy(Len(got))', Delivered' \in Seq(Byte),
         \/ io_' = q /\ (Delivered = HaveRead(reader))' /\ MoreInFile(reader)'
         \/ \E t : io_' = Append(q, t) /\ t.task \in ReaderTasks /\ Continues(t)'
  PROVE  ~Halted' /\ GoesOn'
<1>1. CASE io_' = q /\ (Delivered = HaveRead(reader))' /\ MoreInFile(reader)'
  <2>1. \A t \in Elements(io_') : t.task \notin ReaderTasks
    BY <1>1 DEF NoTask
  <2>2. ~Stopping'
    BY <2>1 DEF Stopping, ReaderTasks
  <2> QED
    BY <1>1, <2>1, <2>2 DEF Halted, GoesOn
<1>2. ASSUME NEW t, io_' = Append(q, t), t.task \in ReaderTasks, Continues(t)'
      PROVE  ~Halted' /\ GoesOn'
  <2>1. Elements(io_') = Elements(q) \cup {t}
    BY <1>2, AppendList
  <2>2. \A u \in Elements(io_') : u.task \in ReaderTasks => u = t
    BY <2>1 DEF NoTask
  <2>3. ~Stopping'
    <3>1. t.task = "answer" => t.ec # "stopped"
      BY <1>2 DEF Continues, ChunkTasks
    <3> QED
      BY <2>2, <3>1 DEF Stopping, ReaderTasks
  <2>4. \A u \in Elements(io_') : u.task \in ReaderTasks => Continues(u)'
    BY <1>2, <2>2
  <2>5. \E u \in Elements(io_') : u.task \in ReaderTasks
    BY <1>2, <2>1
  <2> QED
    BY <2>3, <2>4, <2>5 DEF Halted, GoesOn
<1> QED
  BY <1>1, <1>2

\* What is posted once the reading is stopped is nothing.
LEMMA OneStops ==
  ASSUME NEW q, IsList(q), NoTask(q),
         (stopReading /\ reader.file = None /\ reader.tmp_file = None)',
         IsPrefix(Delivered, Everything)',
         \/ io_' = q /\ StoppedBy(Len(got))'
         \/ \E t : /\ io_' = Append(q, t) /\ Nothing(t)'
                   /\ StoppedBy(Len(got))' \/ (t.task = "answer" /\ t.ec = "stopped")
  PROVE  Halted' /\ StopsThere'
<1>1. CASE io_' = q /\ StoppedBy(Len(got))'
  <2>1. \A t \in Elements(io_') : t.task \notin ReaderTasks
    BY <1>1 DEF NoTask
  <2> QED
    BY <1>1, <2>1 DEF Halted, StopsThere
<1>2. ASSUME NEW t, io_' = Append(q, t), Nothing(t)',
             StoppedBy(Len(got))' \/ (t.task = "answer" /\ t.ec = "stopped")
      PROVE  Halted' /\ StopsThere'
  <2>1. Elements(io_') = Elements(q) \cup {t}
    BY <1>2, AppendList
  <2>2. \A u \in Elements(io_') : u.task \in ReaderTasks => u = t
    BY <2>1 DEF NoTask
  <2>3. Halted'
    BY <1>2, <2>1 DEF Halted, Stopping
  <2> QED
    BY <1>2, <2>2, <2>3 DEF StopsThere
<1> QED
  BY <1>1, <1>2

\* What is known where a reader reads.
Setting ==
  /\ TokenInv /\ SizeInv /\ PiecesInv /\ SwapInv /\ FilesThere
  /\ ReaderInv /\ TaskInv /\ reader # None

\* What follows from it: nothing disturbs the buffer, and the parts are bytes.
LEMMA SettingHas ==
  ASSUME Setting
  PROVE  /\ AtPeace /\ Holds(reader) /\ reader \in Readers /\ IsList(got)
         /\ FirstPart \in Seq(Byte) /\ SecondPart \in Seq(Byte) /\ LastPart \in Seq(Byte)
         /\ FirstPart \o SecondPart \in Seq(Byte)
         /\ HaveRead(reader) \in Seq(Byte)
         /\ \E rest \in Seq(Byte) : Everything = HaveRead(reader) \o rest
<1>1. AtPeace /\ Holds(reader) /\ reader \in Readers /\ IsList(got)
  BY DEF Setting, ReaderInv, AtPeace, Holds
<1>2. FirstPart \in Seq(Byte) /\ SecondPart \in Seq(Byte) /\ LastPart \in Seq(Byte)
  BY <1>1, PartsAre DEF Setting, ReaderInv
<1>3. reader.file = None /\ reader.tmp_file = None => reader.pos # None
  BY <1>1 DEF Holds
<1>4. FirstPart \o SecondPart \in Seq(Byte)
  BY <1>2, ConcatProperties
<1>5. /\ HaveRead(reader) \in Seq(Byte)
      /\ \E rest \in Seq(Byte) : Everything = HaveRead(reader) \o rest
  BY <1>1, <1>2, <1>3, ReadWithin DEF HaveRead, Everything
<1> QED
  BY <1>1, <1>2, <1>4, <1>5

\* Where all is delivered nothing is on its way, and what is delivered is the beginning.
LEMMA Complete ==
  ASSUME Setting, NEW x \in Seq(Byte), NEW d \in Seq(Byte), x \o d = HaveRead(reader)
  PROVE  (x = Everything => d = <<>>) /\ IsPrefix(x, Everything)
<1> PICK rest \in Seq(Byte) : Everything = HaveRead(reader) \o rest
  BY SettingHas
<1>1. Everything = (x \o d) \o rest
  OBVIOUS
<1>2. x = Everything => d = <<>>
  BY <1>1, NoMore
<1>3. Everything = x \o (d \o rest) /\ d \o rest \in Seq(Byte)
  <2>1. d \o rest \in Seq(Byte)
    BY ConcatProperties
  <2>2. (x \o d) \o rest = x \o (d \o rest)
    BY BytesThree
  <2> QED
    BY <1>1, <2>1, <2>2
<1>4. IsPrefix(x, x \o (d \o rest))
  BY <1>3, Begins
<1> QED
  BY <1>2, <1>3, <1>4

\* The buffer rests while its reader is called.
LEMMA RestKeeps ==
  ASSUME BufferRests, UNCHANGED original_size
  PROVE  /\ UNCHANGED <<FirstPart, SecondPart, LastPart, Everything, NewReader>>
         /\ (Exact' <=> Exact)
         /\ HaveRead(reader)' = ReadOf(reader', FirstPart, SecondPart, LastPart)
         /\ Streaming(reader)' <=>
              /\ reader'.class = "cache" => reader'.file = None /\ reader'.tmp_file = None
              /\ reader'.file # None => reader'.tmp_file = None /\ reader'.file.bytes = FirstPart
              /\ reader'.tmp_file # None => reader'.tmp_file.bytes = SecondPart
         /\ MoreInFile(reader)' <=> (reader'.file # None => Reached(reader'.file) < Len(FirstPart))
<1>1. UNCHANGED <<kind, isOnDisk, dest, tmp, bufs, currentBuffer, calls, original_size>>
  BY DEF BufferRests, bufferVars, flagVars, fileVars
<1>2. /\ UNCHANGED <<FirstPart, SecondPart, LastPart, Everything, NewReader>>
      /\ (Exact' <=> Exact)
  BY <1>1, PartsKept
<1>3. HaveRead(reader)' = ReadOf(reader', FirstPart, SecondPart, LastPart)
  <2>1. HaveRead(reader)' = ReadOf(reader', FirstPart', SecondPart', LastPart')
    BY DEF HaveRead
  <2> QED
    BY <1>2, <2>1
<1>4. Streaming(reader)' <=>
        /\ reader'.class = "cache" => reader'.file = None /\ reader'.tmp_file = None
        /\ reader'.file # None => reader'.tmp_file = None /\ reader'.file.bytes = FirstPart
        /\ reader'.tmp_file # None => reader'.tmp_file.bytes = SecondPart
  BY <1>2 DEF Streaming
<1>5. MoreInFile(reader)' <=> (reader'.file # None => Reached(reader'.file) < Len(FirstPart))
  BY <1>2 DEF MoreInFile, Reached
<1> QED
  BY <1>2, <1>3, <1>4, <1>5

\* The task that is run, when the reading has not been stopped.
LEMMA TurnGoesOn ==
  ASSUME Setting, OnCourse, ~Halted, NEW task \in ReaderTasks, Task(task)
  PROVE  /\ io_ # <<>> /\ Head(io_).task = task /\ Continues(Head(io_))
         /\ Head(io_).n = Len(got) + 1 /\ BufferRests /\ UNCHANGED original_size
         /\ IsList(Tail(io_)) /\ NoTask(Tail(io_))
         /\ ~StoppedBy(Len(got)) /\ Delivered \in Seq(Byte) /\ GivenInv /\ Streaming(reader)
<1>1. /\ io_ # <<>> /\ Waits(Head(io_)) /\ Head(io_).task = task
      /\ IsList(Tail(io_)) /\ NoTask(Tail(io_))
  BY TurnWaits DEF Setting
<1>2. Head(io_) \in Elements(io_)
  BY <1>1, IoSets DEF Setting
<1>3. GoesOn /\ GivenInv /\ Streaming(reader) /\ ~StoppedBy(Len(got))
  BY DEF OnCourse, Halted
<1>4. Continues(Head(io_)) /\ Delivered \in Seq(Byte)
  BY <1>1, <1>2, <1>3 DEF GoesOn
<1>5. BufferRests /\ UNCHANGED original_size
  BY DEF Task
<1> QED
  BY <1>1, <1>3, <1>4, <1>5 DEF Waits

\* A chunk of a stream is given to the user as it is, or with success.
LEMMA ChunkGiven ==
  ASSUME Setting, GivenInv, NEW t, t.task \in ChunkTasks, Continues(t), NEW ec,
         ec = t.ec \/ (ec = "success" /\ t.data # <<>>),
         ec = "end_of_file" => t.task = "answer",
         t.n = Len(got) + 1, Give(t, ec), UNCHANGED Everything, ~StoppedBy(Len(got)),
         Delivered \in Seq(Byte)
  PROVE  /\ GivenInv' /\ Delivered' = HaveRead(reader) /\ Delivered' \in Seq(Byte)
         /\ ~StoppedBy(Len(got))'
<1>1. /\ Fits(t.data) /\ Delivered \o t.data = HaveRead(reader) /\ t.data \in Seq(Byte)
      /\ t.ec \in {"success", "end_of_file"} /\ (t.ec = "success" => t.data # <<>>)
      /\ t.task = "answer" /\ t.ec = "end_of_file" => HaveRead(reader) = Everything
  BY DEF Continues, Fits
<1>2. Delivered = Everything => t.data = <<>>
  BY <1>1, Complete
<1>3. /\ IsList(got) /\ ec # "stopped" /\ (ec = "success" => t.data # <<>>)
      /\ ec = "end_of_file" => Delivered \o t.data = Everything
  BY <1>1, SettingHas
<1> QED
  BY <1>1, <1>2, <1>3, GivenMore

\* The handler of the first stream.
LEMMA OfFileOnCourse ==
  ASSUME Setting, Exact, OnCourse, ~Halted, OfFile
  PROVE  OnCourse'
<1> DEFINE h == Head(io_)
           q == Tail(io_)
<1>1. Task("of_file") /\ "of_file" \in ReaderTasks
  BY DEF OfFile, ReaderTasks
<1>2. /\ h.task = "of_file" /\ Continues(h)
      /\ h.n = Len(got) + 1 /\ BufferRests /\ UNCHANGED original_size
      /\ IsList(q) /\ NoTask(q)
      /\ ~StoppedBy(Len(got)) /\ Delivered \in Seq(Byte) /\ GivenInv /\ Streaming(reader)
  BY <1>1, TurnGoesOn
<1>3. /\ UNCHANGED <<FirstPart, SecondPart, LastPart, Everything>>
      /\ HaveRead(reader)' = ReadOf(reader', FirstPart, SecondPart, LastPart)
      /\ Streaming(reader)' <=>
           /\ reader'.class = "cache" => reader'.file = None /\ reader'.tmp_file = None
           /\ reader'.file # None => reader'.tmp_file = None /\ reader'.file.bytes = FirstPart
           /\ reader'.tmp_file # None => reader'.tmp_file.bytes = SecondPart
      /\ MoreInFile(reader)' <=> (reader'.file # None => Reached(reader'.file) < Len(FirstPart))
  BY <1>2, RestKeeps
<1>4. h.data # <<>> /\ (IF h.ec = "success" THEN MoreInFile(reader) ELSE HaveRead(reader) = FirstPart)
      /\ h.ec \in {"success", "end_of_file"} /\ h.task \in ChunkTasks
  BY <1>2 DEF Continues, ChunkTasks
<1>5. reader.file # None /\ reader \in Readers /\ Holds(reader)
  <2>1. Waits(h)
    BY <1>1, TurnWaits DEF Setting
  <2> QED
    BY <1>2, <2>1, SettingHas DEF Waits
<1>6. h.ec # "end_of_file" =>
        Give(h, h.ec) /\ io_' = q /\ UNCHANGED reader
  BY DEF OfFile
<1>7. h.ec = "end_of_file" =>
        /\ reader' = [reader EXCEPT !.file = None, !.tmp_file = Open(tmp)]
        /\ Give(h, "success") /\ io_' = q
  BY <1>4 DEF OfFile
<1> HIDE DEF h, q
<1>8. CASE h.ec # "end_of_file"
  <2>1. h.ec = "success"
    BY <1>4, <1>8
  <2>2. /\ GivenInv' /\ Delivered' = HaveRead(reader) /\ Delivered' \in Seq(Byte)
        /\ ~StoppedBy(Len(got))'
    BY <1>2, <1>3, <1>4, <1>6, <1>8, <2>1, ChunkGiven
  <2>3. UNCHANGED reader
    BY <1>6, <1>8
  <2>4. HaveRead(reader)' = HaveRead(reader) /\ Streaming(reader)' /\ MoreInFile(reader)'
    BY <1>2, <1>3, <1>4, <2>1, <2>3 DEF HaveRead, Streaming, MoreInFile
  <2>5. ~Halted' /\ GoesOn'
    BY <1>2, <1>6, <1>8, <2>2, <2>4, OneContinues
  <2> QED
    BY <2>2, <2>4, <2>5 DEF OnCourse
<1>9. CASE h.ec = "end_of_file"
  <2>1. /\ GivenInv' /\ Delivered' = HaveRead(reader) /\ Delivered' \in Seq(Byte)
        /\ ~StoppedBy(Len(got))'
    BY <1>2, <1>3, <1>4, <1>7, <1>9, ChunkGiven
  <2>2. HaveRead(reader) = FirstPart
    BY <1>4, <1>9
  <2>3. reader'.file = None /\ reader'.tmp_file = Open(tmp) /\ reader'.class = reader.class
    BY <1>5, <1>7, <1>9 DEF Readers
  <2>4. Open(tmp).bytes = SecondPart /\ Reached(Open(tmp)) = 0 /\ Open(tmp) # None
    <3>1. isOnDisk
      BY <1>5 DEF Holds
    <3>2. tmp \in Pieces
      <4>1. ~SaveBegun
        BY SettingHas DEF AtPeace, Saving, SaveBegun
      <4> QED
        BY <3>1, <4>1 DEF Setting, FilesThere, PiecesInv
    <3>3. Open(tmp) # None
      BY <3>2, OpenStream DEF Setting, ReaderInv
    <3>4. 0 * chunk_size = 0
      BY BufferReadersAssumption
    <3> QED
      BY <3>1, <3>3, <3>4 DEF Open, SecondPart, Reached
  <2>5. HaveRead(reader)' = FirstPart
    <3>1. HaveRead(reader)' = FirstPart \o FirstBytes(SecondPart, 0)
      BY <1>3, <2>3, <2>4 DEF ReadOf
    <3>2. FirstBytes(SecondPart, 0) = <<>> /\ FirstPart \o <<>> = FirstPart
      BY SettingHas, FirstBytesAre, ConcatEmptySeq
    <3> QED
      BY <3>1, <3>2
  <2>6. Streaming(reader)' /\ MoreInFile(reader)'
    <3>1. reader.class # "cache"
      BY <1>2, <1>5 DEF Streaming
    <3> QED
      BY <1>3, <2>3, <2>4, <3>1
  <2>7. ~Halted' /\ GoesOn'
    BY <1>2, <1>7, <1>9, <2>1, <2>2, <2>5, <2>6, OneContinues
  <2> QED
    BY <2>1, <2>6, <2>7 DEF OnCourse
<1> QED
  BY <1>8, <1>9

\* The handler of the last stream.
LEMMA OfTmpFileOnCourse ==
  ASSUME Setting, Exact, OnCourse, ~Halted, OfTmpFile
  PROVE  OnCourse'
<1> DEFINE h == Head(io_)
           q == Tail(io_)
<1>1. Task("of_tmp_file") /\ "of_tmp_file" \in ReaderTasks
  BY DEF OfTmpFile, ReaderTasks
<1>2. /\ h.task = "of_tmp_file" /\ Continues(h)
      /\ h.n = Len(got) + 1 /\ BufferRests /\ UNCHANGED original_size
      /\ IsList(q) /\ NoTask(q)
      /\ ~StoppedBy(Len(got)) /\ Delivered \in Seq(Byte) /\ GivenInv /\ Streaming(reader)
  BY <1>1, TurnGoesOn
<1>3. /\ UNCHANGED <<FirstPart, SecondPart, LastPart, Everything>>
      /\ HaveRead(reader)' = ReadOf(reader', FirstPart, SecondPart, LastPart)
      /\ Streaming(reader)' <=>
           /\ reader'.class = "cache" => reader'.file = None /\ reader'.tmp_file = None
           /\ reader'.file # None => reader'.tmp_file = None /\ reader'.file.bytes = FirstPart
           /\ reader'.tmp_file # None => reader'.tmp_file.bytes = SecondPart
      /\ MoreInFile(reader)' <=> (reader'.file # None => Reached(reader'.file) < Len(FirstPart))
  BY <1>2, RestKeeps
<1>4. /\ reader.file = None /\ h.ec \in {"success", "end_of_file"} /\ h.task \in ChunkTasks
      /\ h.ec = "success" => h.data # <<>>
      /\ Fits(h.data) /\ Delivered \o h.data = HaveRead(reader)
      /\ h.ec = "end_of_file" => HaveRead(reader) = FirstPart \o SecondPart
  BY <1>2 DEF Continues, ChunkTasks
<1>5. reader \in Readers
  BY SettingHas
<1>6. h.ec # "end_of_file" =>
        Give(h, h.ec) /\ io_' = q /\ UNCHANGED reader
  BY DEF OfTmpFile
<1>7. h.ec = "end_of_file" =>
        /\ reader' = [reader EXCEPT !.tmp_file = None, !.pos = 0]
        /\ EndOfTmpFile(h)
  BY <1>4 DEF OfTmpFile
<1>q. q = Tail(io_)
  OBVIOUS
<1> HIDE DEF h, q
<1>8. CASE h.ec # "end_of_file"
  <2>1. h.ec = "success"
    BY <1>4, <1>8
  <2>2. /\ GivenInv' /\ Delivered' = HaveRead(reader) /\ Delivered' \in Seq(Byte)
        /\ ~StoppedBy(Len(got))'
    BY <1>2, <1>3, <1>4, <1>6, <1>8, <2>1, ChunkGiven
  <2>3. UNCHANGED reader
    BY <1>6, <1>8
  <2>4. HaveRead(reader)' = HaveRead(reader) /\ Streaming(reader)' /\ MoreInFile(reader)'
    BY <1>2, <1>3, <1>4, <2>3 DEF HaveRead, Streaming
  <2>5. ~Halted' /\ GoesOn'
    BY <1>2, <1>6, <1>8, <2>2, <2>4, OneContinues
  <2> QED
    BY <2>2, <2>4, <2>5 DEF OnCourse
<1>9. CASE h.ec = "end_of_file"
  <2>1. /\ reader'.file = None /\ reader'.tmp_file = None /\ reader'.class = reader.class
        /\ reader'.pos = 0
    BY <1>4, <1>5, <1>7, <1>9 DEF Readers
  <2>2. HaveRead(reader)' = HaveRead(reader)
    <3>1. HaveRead(reader)' = (FirstPart \o SecondPart) \o FirstBytes(LastPart, 0)
      BY <1>3, <2>1 DEF ReadOf
    <3>2. FirstBytes(LastPart, 0) = <<>> /\ (FirstPart \o SecondPart) \o <<>> = FirstPart \o SecondPart
      BY SettingHas, FirstBytesAre, ConcatEmptySeq
    <3> QED
      BY <1>4, <1>9, <3>1, <3>2
  <2>3. Streaming(reader)' /\ MoreInFile(reader)'
    BY <1>3, <2>1
  <2>4. CASE h.data = <<>>
    <3>1. io_' = Append(q, Posted("cached", h.n)) /\ UNCHANGED got
      BY <1>7, <1>9, <1>q, <2>4 DEF EndOfTmpFile
    <3>2. PICK t : io_' = Append(q, t) /\ t.task = "cached"
      BY <3>1 DEF Posted
    <3>3. /\ GivenInv' /\ Delivered' = Delivered
          /\ ~StoppedBy(Len(got))'
      BY <1>2, <1>3, <3>1, GivenSame
    <3>4. Delivered = HaveRead(reader)
      BY <1>2, <1>4, <2>4, ConcatEmptySeq
    <3>5. t.task \in ReaderTasks /\ Continues(t)'
      BY <2>1, <2>2, <3>2, <3>3, <3>4 DEF Continues, ChunkTasks, ReaderTasks
    <3>6. ~Halted' /\ GoesOn'
      BY <1>2, <3>2, <3>3, <3>5, OneContinues
    <3> QED
      BY <2>3, <3>3, <3>6 DEF OnCourse
  <2>5. CASE h.data # <<>> /\ reader.class = "append"
    <3>1. Give(h, "success") /\ io_' = q
      BY <1>7, <1>9, <1>q, <2>5 DEF EndOfTmpFile
    <3>2. /\ GivenInv' /\ Delivered' = HaveRead(reader) /\ Delivered' \in Seq(Byte)
          /\ ~StoppedBy(Len(got))'
      BY <1>2, <1>3, <1>4, <2>5, <3>1, ChunkGiven
    <3>3. ~Halted' /\ GoesOn'
      BY <1>2, <2>2, <2>3, <3>1, <3>2, OneContinues
    <3> QED
      BY <2>3, <3>2, <3>3 DEF OnCourse
  <2>6. CASE h.data # <<>> /\ reader.class # "append"
    <3>1. io_' = Append(q, PostedAnswer(h.n, "success", h.data)) /\ UNCHANGED got
      BY <1>7, <1>9, <1>q, <2>6 DEF EndOfTmpFile
    <3>2. PICK t : /\ io_' = Append(q, t)
                   /\ t.task = "answer" /\ t.ec = "success" /\ t.data = h.data
      BY <3>1 DEF PostedAnswer
    <3>3. /\ GivenInv' /\ Delivered' = Delivered
          /\ ~StoppedBy(Len(got))'
      BY <1>2, <1>3, <3>1, GivenSame
    <3>4. t.task \in ReaderTasks /\ Continues(t)'
      BY <1>4, <2>1, <2>2, <2>6, <3>2, <3>3 DEF Continues, ChunkTasks, ReaderTasks, Fits
    <3>5. ~Halted' /\ GoesOn'
      BY <1>2, <3>2, <3>3, <3>4, OneContinues
    <3> QED
      BY <2>3, <3>3, <3>5 DEF OnCourse
  <2> QED
    BY <2>4, <2>5, <2>6
<1> QED
  BY <1>8, <1>9

\* An answer that was posted reaches the user.
LEMMA DeliverOnCourse ==
  ASSUME Setting, OnCourse, ~Halted, Deliver
  PROVE  OnCourse'
<1> DEFINE h == Head(io_)
           q == Tail(io_)
<1>1. Task("answer") /\ "answer" \in ReaderTasks
  BY DEF Deliver, ReaderTasks
<1>2. /\ h.task = "answer" /\ Continues(h)
      /\ h.n = Len(got) + 1 /\ BufferRests /\ UNCHANGED original_size
      /\ IsList(q) /\ NoTask(q)
      /\ ~StoppedBy(Len(got)) /\ Delivered \in Seq(Byte) /\ GivenInv /\ Streaming(reader)
  BY <1>1, TurnGoesOn
<1>3. /\ UNCHANGED <<FirstPart, SecondPart, LastPart, Everything>>
      /\ HaveRead(reader)' = ReadOf(reader', FirstPart, SecondPart, LastPart)
      /\ Streaming(reader)' <=>
           /\ reader'.class = "cache" => reader'.file = None /\ reader'.tmp_file = None
           /\ reader'.file # None => reader'.tmp_file = None /\ reader'.file.bytes = FirstPart
           /\ reader'.tmp_file # None => reader'.tmp_file.bytes = SecondPart
      /\ MoreInFile(reader)' <=> (reader'.file # None => Reached(reader'.file) < Len(FirstPart))
  BY <1>2, RestKeeps
<1>4. reader.file = None /\ h.task \in ChunkTasks
  BY <1>2 DEF Continues, ChunkTasks
<1>5. Give(h, h.ec) /\ io_' = q /\ UNCHANGED reader
  BY DEF Deliver
<1> HIDE DEF h, q
<1>6. /\ GivenInv' /\ Delivered' = HaveRead(reader) /\ Delivered' \in Seq(Byte)
      /\ ~StoppedBy(Len(got))'
  BY <1>2, <1>3, <1>4, <1>5, ChunkGiven
<1>7. HaveRead(reader)' = HaveRead(reader) /\ Streaming(reader)' /\ MoreInFile(reader)'
  BY <1>2, <1>3, <1>4, <1>5 DEF HaveRead, Streaming
<1>8. ~Halted' /\ GoesOn'
  BY <1>2, <1>5, <1>6, <1>7, OneContinues
<1> QED
  BY <1>6, <1>7, <1>8 DEF OnCourse

\* A reader without streams reads on in memory, or is stopped there.
LEMMA CacheOnCourse ==
  ASSUME Setting, OnCourse, ~Halted, BufferRests, UNCHANGED <<original_size, stopReading, got>>,
         NEW q, IsList(q), NoTask(q), NEW n, CacheNext(q, n),
         reader.file = None, reader.tmp_file = None, Delivered = HaveRead(reader)
  PROVE  OnCourse'
<1>1. GivenInv /\ Streaming(reader) /\ ~StoppedBy(Len(got))
  BY DEF OnCourse, Halted
<1>2. /\ UNCHANGED <<FirstPart, SecondPart, LastPart, Everything>>
      /\ HaveRead(reader)' = ReadOf(reader', FirstPart, SecondPart, LastPart)
      /\ Streaming(reader)' <=>
           /\ reader'.class = "cache" => reader'.file = None /\ reader'.tmp_file = None
           /\ reader'.file # None => reader'.tmp_file = None /\ reader'.file.bytes = FirstPart
           /\ reader'.tmp_file # None => reader'.tmp_file.bytes = SecondPart
      /\ MoreInFile(reader)' <=> (reader'.file # None => Reached(reader'.file) < Len(FirstPart))
  BY RestKeeps
<1>3. /\ reader \in Readers /\ reader.pos # None /\ reader.pos \in Nat
      /\ FirstPart \o SecondPart \in Seq(Byte) /\ LastPart \in Seq(Byte)
      /\ HaveRead(reader) \in Seq(Byte)
  BY SettingHas DEF Holds, Readers
<1>4. PICK t : /\ io_' = Append(q, t) /\ t.task = "answer" /\ t.n = n
               /\ CacheGiven(t, reader.pos, reader'.pos)
               /\ reader' \in Readers
               /\ reader'.file = reader.file /\ reader'.tmp_file = reader.tmp_file
  BY <1>3, CacheGives
<1>5. reader'.file = None /\ reader'.tmp_file = None /\ Streaming(reader)' /\ MoreInFile(reader)'
  BY <1>2, <1>4
<1>6. /\ GivenInv' /\ Delivered' = Delivered
      /\ ~StoppedBy(Len(got))'
  BY <1>1, <1>2, GivenSame
<1>7. CASE t.ec = "stopped"
  <2>1. stopReading /\ t.data = <<>>
    BY <1>4, <1>7 DEF CacheGiven
  <2>2. Nothing(t)'
    BY <1>4, <1>7, <2>1 DEF Nothing
  <2>3. IsPrefix(Delivered, Everything)'
    <3>1. HaveRead(reader) \o <<>> = HaveRead(reader) /\ <<>> \in Seq(Byte)
      BY <1>3, ConcatEmptySeq, EmptySeq
    <3>2. IsPrefix(HaveRead(reader), Everything)
      BY <1>3, <3>1, Complete
    <3>3. IsPrefix(Delivered, Everything)
      BY <3>2
    <3>4. IsPrefix(Delivered, Everything)' <=> IsPrefix(Delivered', Everything')
      BY DEF IsPrefix
    <3> QED
      BY <1>2, <1>6, <3>3, <3>4
  <2>4. (stopReading /\ reader.file = None /\ reader.tmp_file = None)'
    BY <1>5, <2>1
  <2>5. Halted' /\ StopsThere'
    BY <1>4, <1>7, <2>2, <2>3, <2>4, OneStops
  <2> QED
    BY <1>5, <1>6, <2>5 DEF OnCourse
<1>8. CASE t.ec # "stopped"
  <2> DEFINE A == FirstPart \o SecondPart
             x == FirstBytes(LastPart, reader.pos)
             y == FirstBytes(LastPart, reader'.pos)
  <2>1. /\ Fits(t.data) /\ t.ec \in {"success", "end_of_file"}
        /\ t.ec = "success" => t.data # <<>>
        /\ x \o t.data = y
        /\ t.ec = "end_of_file" => y = LastPart
    BY <1>4, <1>8 DEF CacheGiven
  <2>2. HaveRead(reader) = A \o x /\ HaveRead(reader)' = A \o y
    BY <1>2, <1>5 DEF HaveRead, ReadOf
  <2>3. Everything = A \o LastPart
    BY DEF Everything
  <2>4. A \in Seq(Byte) /\ x \in Seq(Byte) /\ t.data \in Seq(Byte)
    BY <1>3, <2>1, FirstBytesAre DEF Fits
  <2> HIDE DEF A, x, y
  <2>5. Delivered \o t.data = A \o y
    <3>1. (A \o x) \o t.data = A \o (x \o t.data)
      BY <2>4, BytesThree
    <3> QED
      BY <2>1, <2>2, <3>1
  <2>6. t.task \in ReaderTasks /\ Continues(t)'
    <3>1. (Delivered \o t.data = HaveRead(reader))'
      BY <1>6, <2>2, <2>5
    <3>2. t.ec = "end_of_file" => (HaveRead(reader) = Everything)'
      BY <1>2, <2>1, <2>2, <2>3
    <3>3. Fits(t.data)' <=> Fits(t.data)
      BY DEF Fits
    <3> QED
      BY <1>4, <1>5, <2>1, <3>1, <3>2, <3>3 DEF Continues, ChunkTasks, ReaderTasks
  <2>7. Delivered' \in Seq(Byte)
    BY <1>3, <1>6
  <2>8. ~Halted' /\ GoesOn'
    BY <1>4, <1>6, <2>6, <2>7, OneContinues
  <2> QED
    BY <1>5, <1>6, <2>8 DEF OnCourse
<1> QED
  BY <1>7, <1>8

\* The reader of what is cached is called, behind the streams.
LEMMA CachedOnCourse ==
  ASSUME Setting, OnCourse, ~Halted, Cached
  PROVE  OnCourse'
<1>1. Task("cached") /\ "cached" \in ReaderTasks
  BY DEF Cached, ReaderTasks
<1>2. /\ Head(io_).task = "cached" /\ Continues(Head(io_))
      /\ IsList(Tail(io_)) /\ NoTask(Tail(io_))
  BY <1>1, TurnGoesOn
<1>3. Delivered = HaveRead(reader) /\ reader.file = None /\ reader.tmp_file = None
  BY <1>2 DEF Continues
<1>4. /\ BufferRests /\ UNCHANGED <<original_size, stopReading, got>>
      /\ CacheNext(Tail(io_), Head(io_).n)
  BY DEF Cached, Task
<1> QED
  BY <1>2, <1>3, <1>4, CacheOnCourse

\* When the user asks, nothing is on its way.
LEMMA AskAlone ==
  ASSUME Setting, Ask
  PROVE  /\ IsList(io_) /\ NoTask(io_)
         /\ BufferRests /\ UNCHANGED <<original_size, stopReading, got>>
<1>1. Len(got) = reads /\ reads \in Nat
  BY DEF Ask, Setting, ReaderInv
<1>2. NoTask(io_)
  <2>1. reads # Len(got) + 1
    BY <1>1
  <2> QED
    BY <2>1 DEF NoTask, Setting, TaskInv, Waits
<1> QED
  BY <1>2 DEF Ask, Setting, TokenInv, Lists

\* A stream is asked for its next chunk.
LEMMA StreamOnCourse ==
  ASSUME Setting, OnCourse, ~Halted, BufferRests, UNCHANGED <<original_size, stopReading, got>>,
         NoTask(io_), IsList(io_), NEW s \in {"file", "tmp_file"}, reader[s] # None,
         s = "tmp_file" => reader.file = None,
         NEW n, AskStream(io_, s, IF s = "file" THEN "of_file" ELSE "of_tmp_file", n)
  PROVE  OnCourse'
<1>1. /\ GivenInv /\ Streaming(reader) /\ ~StoppedBy(Len(got))
      /\ Delivered = HaveRead(reader) /\ MoreInFile(reader)
  BY DEF OnCourse, Halted, GoesOn, NoTask
<1>2. /\ UNCHANGED <<FirstPart, SecondPart, LastPart, Everything>>
      /\ HaveRead(reader)' = ReadOf(reader', FirstPart, SecondPart, LastPart)
      /\ Streaming(reader)' <=>
           /\ reader'.class = "cache" => reader'.file = None /\ reader'.tmp_file = None
           /\ reader'.file # None => reader'.tmp_file = None /\ reader'.file.bytes = FirstPart
           /\ reader'.tmp_file # None => reader'.tmp_file.bytes = SecondPart
      /\ MoreInFile(reader)' <=> (reader'.file # None => Reached(reader'.file) < Len(FirstPart))
  BY RestKeeps
<1>3. /\ reader \in Readers /\ HaveRead(reader) \in Seq(Byte)
      /\ FirstPart \in Seq(Byte) /\ SecondPart \in Seq(Byte)
  BY SettingHas
<1>4. PICK t, x : /\ io_' = Append(io_, t)
                  /\ t.task = (IF s = "file" THEN "of_file" ELSE "of_tmp_file")
                  /\ IsChunk(reader[s].bytes, reader[s].asked, t.ec, t.data)
                  /\ x \in Streams /\ x # None /\ reader' \in Readers
                  /\ x.bytes = reader[s].bytes /\ x.asked = reader[s].asked + 1
                  /\ s = "file" => reader'.file = x /\ reader'.tmp_file = reader.tmp_file
                  /\ s = "tmp_file" => reader'.tmp_file = x /\ reader'.file = reader.file
  BY <1>3, StreamGives
<1>5. /\ GivenInv' /\ Delivered' = Delivered
      /\ ~StoppedBy(Len(got))'
  BY <1>1, <1>2, GivenSame
<1>6. reader'.class = reader.class
  BY <1>3 DEF AskStream, Readers
<1> DEFINE y == reader[s].bytes
           a == reader[s].asked
<1>7. y \in Seq(Byte) /\ a \in Nat
  BY <1>3 DEF Readers, Streams
<1>8. /\ Fits(t.data) /\ t.ec \in {"success", "end_of_file"}
      /\ t.ec = "success" => t.data # <<>> /\ (a + 1) * chunk_size < Len(y)
      /\ t.ec = "end_of_file" => FirstBytes(y, (a + 1) * chunk_size) = y
      /\ a * chunk_size < Len(y) => t.data # <<>>
      /\ FirstBytes(y, a * chunk_size) \o t.data = FirstBytes(y, (a + 1) * chunk_size)
  BY <1>4, <1>7, ChunkIs
<1>9. Reached(reader[s]) = a * chunk_size /\ Reached(x) = (a + 1) * chunk_size
  BY <1>4 DEF Reached
<1>f. Fits(t.data)' <=> Fits(t.data)
  BY DEF Fits
<1>10. CASE s = "file"
  <2>1. y = FirstPart /\ reader.file # None /\ Reached(reader.file) < Len(FirstPart)
    BY <1>1, <1>10 DEF Streaming, MoreInFile
  <2>2. reader'.file = x /\ x # None /\ reader'.tmp_file = reader.tmp_file
    BY <1>4, <1>10
  <2>3. /\ HaveRead(reader) = FirstBytes(y, a * chunk_size)
        /\ HaveRead(reader)' = FirstBytes(y, (a + 1) * chunk_size)
    BY <1>2, <1>9, <1>10, <2>1, <2>2 DEF HaveRead, ReadOf
  <2>4. Streaming(reader)'
    BY <1>1, <1>2, <1>4, <1>6, <2>1, <2>2 DEF Streaming
  <2>5. t.ec = "success" => MoreInFile(reader)'
    BY <1>2, <1>8, <1>9, <2>1, <2>2
  <2>6. t.data # <<>>
    BY <1>8, <1>9, <1>10, <2>1
  <2> HIDE DEF y, a
  <2>7. t.task \in ReaderTasks /\ Continues(t)'
    <3>1. t.task = "of_file"
      BY <1>4, <1>10
    <3>2. (Delivered \o t.data = HaveRead(reader))'
      BY <1>1, <1>5, <1>8, <2>3
    <3>3. t.ec = "end_of_file" => (HaveRead(reader) = FirstPart)'
      BY <1>2, <1>8, <2>1, <2>3
    <3> QED
      BY <1>f, <1>8, <2>5, <2>6, <3>1, <3>2, <3>3 DEF Continues, ChunkTasks, ReaderTasks
  <2>8. ~Halted' /\ GoesOn'
    BY <1>1, <1>3, <1>4, <1>5, <2>7, OneContinues
  <2> QED
    BY <1>5, <2>4, <2>8 DEF OnCourse
<1>11. CASE s = "tmp_file"
  <2>1. y = SecondPart /\ reader.tmp_file # None /\ reader.file = None
    BY <1>1, <1>11 DEF Streaming
  <2>2. reader'.tmp_file = x /\ x # None /\ reader'.file = None
    BY <1>4, <1>11, <2>1
  <2> DEFINE F == FirstBytes(y, a * chunk_size)
             G == FirstBytes(y, (a + 1) * chunk_size)
  <2>3. HaveRead(reader) = FirstPart \o F /\ HaveRead(reader)' = FirstPart \o G
    BY <1>2, <1>9, <1>11, <2>1, <2>2 DEF HaveRead, ReadOf
  <2>4. Streaming(reader)' /\ MoreInFile(reader)'
    BY <1>1, <1>2, <1>4, <1>6, <2>1, <2>2 DEF Streaming
  <2>5. F \in Seq(Byte) /\ t.data \in Seq(Byte)
    BY <1>7, <1>8, Places, FirstBytesAre DEF Fits
  <2>6. F \o t.data = G /\ (t.ec = "end_of_file" => G = y)
    BY <1>8
  <2> HIDE DEF y, a, F, G
  <2>7. t.task \in ReaderTasks /\ Continues(t)'
    <3>1. t.task = "of_tmp_file"
      BY <1>4, <1>11
    <3>2. (Delivered \o t.data = HaveRead(reader))'
      <4>1. (FirstPart \o F) \o t.data = FirstPart \o (F \o t.data)
        BY <1>3, <2>5, BytesThree
      <4> QED
        BY <1>1, <1>5, <2>3, <2>6, <4>1
    <3>3. t.ec = "end_of_file" => (HaveRead(reader) = FirstPart \o SecondPart)'
      BY <1>2, <2>1, <2>3, <2>6
    <3>4. reader'.file = None
      BY <2>2
    <3> QED
      BY <1>f, <1>8, <3>1, <3>2, <3>3, <3>4 DEF Continues, ChunkTasks, ReaderTasks
  <2>8. ~Halted' /\ GoesOn'
    BY <1>1, <1>3, <1>4, <1>5, <2>7, OneContinues
  <2> QED
    BY <1>5, <2>4, <2>8 DEF OnCourse
<1> QED
  BY <1>10, <1>11

\* The user asks for the next chunk.
LEMMA AskOnCourse ==
  ASSUME Setting, OnCourse, ~Halted, Ask
  PROVE  OnCourse'
<1>1. /\ IsList(io_) /\ NoTask(io_)
      /\ BufferRests /\ UNCHANGED <<original_size, stopReading, got>>
  BY AskAlone
<1>2. Streaming(reader) /\ Delivered = HaveRead(reader) /\ Delivered \in Seq(Byte) /\ MoreInFile(reader)
      /\ GivenInv /\ ~StoppedBy(Len(got))
  BY <1>1 DEF OnCourse, GoesOn, NoTask, Halted
<1>a. \/ reader.class = "cache" /\ CacheNext(io_, reads')
      \/ reader.file # None /\ AskStream(io_, "file", "of_file", reads')
      \/ reader.tmp_file # None /\ AskStream(io_, "tmp_file", "of_tmp_file", reads')
      \/ /\ reader.class # "cache" /\ reader.file = None /\ reader.tmp_file = None
         /\ io_' = Append(io_, Posted("cached", reads')) /\ UNCHANGED reader
  <2> DEFINE A == CacheNext(io_, reads')
             B == AskStream(io_, "file", "of_file", reads')
             C == AskStream(io_, "tmp_file", "of_tmp_file", reads')
             D == io_' = Append(io_, Posted("cached", reads')) /\ UNCHANGED reader
             c == reader.class
             f == reader.file
             g == reader.tmp_file
  <2>1. (CASE c = "cache" -> A [] f # None -> B [] g # None -> C [] OTHER -> D)
    BY Zenon DEF Ask
  <2>b. A \in BOOLEAN /\ B \in BOOLEAN /\ C \in BOOLEAN /\ D \in BOOLEAN
    BY DEF CacheNext, AskStream
  <2> HIDE DEF A, B, C, D, c, f, g
  <2>3. \/ c = "cache" /\ A
        \/ f # None /\ B
        \/ g # None /\ C
        \/ c # "cache" /\ f = None /\ g = None /\ D
    BY <2>1, <2>b
  <2> QED
    BY <2>3 DEF A, B, C, D, c, f, g
<1>b. /\ reader.class = "cache" => reader.file = None /\ reader.tmp_file = None
      /\ reader.file # None => reader.tmp_file = None
  BY <1>2 DEF Streaming
<1>3. CASE reader.class = "cache"
  <2>1. CacheNext(io_, reads')
    BY <1>3, <1>a, <1>b
  <2>2. reader.file = None /\ reader.tmp_file = None
    BY <1>2, <1>3 DEF Streaming
  <2> QED
    BY <1>1, <1>2, <2>1, <2>2, CacheOnCourse
<1>4. CASE reader.class # "cache" /\ reader.file # None
  <2>1. AskStream(io_, "file", "of_file", reads')
    BY <1>4, <1>a, <1>b
  <2>2. reader["file"] # None
    BY <1>4
  <2> QED
    BY <1>1, <2>1, <2>2, StreamOnCourse
<1>5. CASE reader.class # "cache" /\ reader.file = None /\ reader.tmp_file # None
  <2>1. AskStream(io_, "tmp_file", "of_tmp_file", reads')
    BY <1>5, <1>a, <1>b
  <2>2. reader["tmp_file"] # None
    BY <1>5
  <2> QED
    BY <1>1, <1>5, <2>1, <2>2, StreamOnCourse
<1>6. CASE reader.class # "cache" /\ reader.file = None /\ reader.tmp_file = None
  <2>1. io_' = Append(io_, Posted("cached", reads')) /\ UNCHANGED reader
    BY <1>6, <1>a, <1>b
  <2>2. PICK t : io_' = Append(io_, t) /\ t.task = "cached"
    BY <2>1 DEF Posted
  <2>3. /\ UNCHANGED <<FirstPart, SecondPart, LastPart, Everything>>
        /\ HaveRead(reader)' = ReadOf(reader', FirstPart, SecondPart, LastPart)
    BY <1>1, RestKeeps
  <2>4. HaveRead(reader)' = HaveRead(reader) /\ Streaming(reader)'
    BY <1>2, <2>1, <2>3 DEF HaveRead, Streaming
  <2>5. /\ GivenInv' /\ Delivered' = Delivered
        /\ ~StoppedBy(Len(got))'
    BY <1>1, <1>2, <2>3, GivenSame
  <2>6. t.task \in ReaderTasks /\ Continues(t)'
    BY <1>2, <1>6, <2>1, <2>2, <2>4, <2>5 DEF Continues, ChunkTasks, ReaderTasks
  <2>7. ~Halted' /\ GoesOn'
    BY <1>1, <1>2, <2>2, <2>5, <2>6, OneContinues
  <2> QED
    BY <2>4, <2>5, <2>7 DEF OnCourse
<1> QED
  BY <1>3, <1>4, <1>5, <1>6

\* The buffer and what is read of it rest while the reader is called.
LEMMA RestsHere ==
  ASSUME BufferRests, UNCHANGED original_size,
         (reader.file = None /\ reader.tmp_file = None)'
  PROVE  UNCHANGED Everything /\ Streaming(reader)'
<1>1. /\ UNCHANGED <<FirstPart, SecondPart, LastPart, Everything>>
      /\ Streaming(reader)' <=>
           /\ reader'.class = "cache" => reader'.file = None /\ reader'.tmp_file = None
           /\ reader'.file # None => reader'.tmp_file = None /\ reader'.file.bytes = FirstPart
           /\ reader'.tmp_file # None => reader'.tmp_file.bytes = SecondPart
  BY RestKeeps
<1> QED
  BY <1>1

\* What is known once the reading is stopped.
LEMMA HaltedHas ==
  ASSUME OnCourse, Halted
  PROVE  /\ StopsThere /\ GivenInv /\ stopReading /\ reader.file = None /\ reader.tmp_file = None
         /\ IsPrefix(Delivered, Everything)
BY DEF OnCourse, StopsThere

\* The task that is run, once the reading is stopped.
LEMMA TurnStops ==
  ASSUME Setting, OnCourse, Halted, NEW task \in ReaderTasks, Task(task)
  PROVE  /\ io_ # <<>> /\ Head(io_).task = task /\ Nothing(Head(io_))
         /\ Head(io_).n = Len(got) + 1
         /\ BufferRests /\ UNCHANGED <<original_size, stopReading>>
         /\ IsList(Tail(io_)) /\ NoTask(Tail(io_))
         /\ StoppedBy(Len(got)) \/ (task = "answer" /\ Head(io_).ec = "stopped")
<1>1. /\ io_ # <<>> /\ Waits(Head(io_)) /\ Head(io_).task = task
      /\ IsList(Tail(io_)) /\ NoTask(Tail(io_))
  BY TurnWaits DEF Setting
<1>2. /\ Head(io_) \in Elements(io_)
      /\ Elements(io_) \subseteq Elements(Tail(io_)) \cup {Head(io_)}
  BY <1>1, IoSets DEF Setting
<1>3. Nothing(Head(io_))
  BY <1>1, <1>2, HaltedHas DEF StopsThere
<1>4. Stopping => task = "answer" /\ Head(io_).ec = "stopped"
  BY <1>1, <1>2 DEF Stopping, NoTask, ReaderTasks
<1>5. BufferRests /\ UNCHANGED <<original_size, stopReading>>
  BY DEF Task
<1> QED
  BY <1>1, <1>3, <1>4, <1>5 DEF Waits, Halted

\* A delivery that ends where it did stays the beginning of all there is.
LEMMA StillPrefix ==
  ASSUME IsPrefix(Delivered, Everything), UNCHANGED <<Delivered, Everything>>
  PROVE  IsPrefix(Delivered, Everything)'
<1>1. IsPrefix(Delivered, Everything)' <=> IsPrefix(Delivered', Everything')
  BY DEF IsPrefix
<1> QED
  BY <1>1

\* A reader of what is cached that has been stopped gives nothing any more.
LEMMA CacheStops ==
  ASSUME Setting, OnCourse, Halted, StoppedBy(Len(got)), BufferRests,
         UNCHANGED <<original_size, stopReading, got>>,
         NEW q, IsList(q), NoTask(q), NEW n, CacheNext(q, n)
  PROVE  OnCourse'
<1>1. /\ StopsThere /\ GivenInv /\ stopReading /\ reader.file = None /\ reader.tmp_file = None
      /\ IsPrefix(Delivered, Everything)
  BY HaltedHas
<1>2. reader \in Readers /\ reader.pos # None /\ LastPart \in Seq(Byte)
  BY <1>1, SettingHas DEF Holds
<1>3. PICK t : /\ io_' = Append(q, t) /\ t.task = "answer" /\ t.n = n
               /\ CacheGiven(t, reader.pos, reader'.pos)
               /\ reader' \in Readers
               /\ reader'.file = reader.file /\ reader'.tmp_file = reader.tmp_file
  BY <1>2, CacheGives
<1>4. reader'.file = None /\ reader'.tmp_file = None
  BY <1>1, <1>3
<1>5. UNCHANGED Everything /\ Streaming(reader)'
  BY <1>4, RestsHere
<1>6. /\ GivenInv' /\ Delivered' = Delivered
      /\ StoppedBy(Len(got))'
  BY <1>1, <1>5, GivenSame
<1>7. t.data = <<>> /\ t.ec \in {"stopped", "end_of_file"}
  BY <1>1, <1>3 DEF CacheGiven
<1>8. Nothing(t)'
  BY <1>3, <1>6, <1>7 DEF Nothing
<1>9. IsPrefix(Delivered, Everything)'
  BY <1>1, <1>5, <1>6, StillPrefix
<1>10. Halted' /\ StopsThere'
  BY <1>1, <1>3, <1>4, <1>6, <1>8, <1>9, OneStops
<1> QED
  BY <1>5, <1>6, <1>10 DEF OnCourse

\* The tasks of a reader that has been stopped.
LEMMA TasksStop ==
  ASSUME Setting, OnCourse, Halted, OfFile \/ PassOn \/ OfTmpFile \/ Cached \/ Deliver
  PROVE  OnCourse'
<1>1. /\ StopsThere /\ GivenInv /\ stopReading /\ reader.file = None /\ reader.tmp_file = None
      /\ IsPrefix(Delivered, Everything)
  BY HaltedHas
<1>2. CASE OfFile \/ PassOn \/ OfTmpFile
  <2>1. PICK task \in {"of_file", "pass_on", "of_tmp_file"} : Task(task)
    BY <1>2 DEF OfFile, PassOn, OfTmpFile
  <2>2. Head(io_).task = task /\ Nothing(Head(io_))
    BY <2>1, TurnStops DEF ReaderTasks
  <2> QED
    BY <2>1, <2>2 DEF Nothing
<1>3. CASE Cached
  <2>1. Task("cached") /\ "cached" \in ReaderTasks /\ CacheNext(Tail(io_), Head(io_).n) /\ UNCHANGED got
    BY <1>3 DEF Cached, ReaderTasks
  <2>2. /\ BufferRests /\ UNCHANGED <<original_size, stopReading>>
        /\ IsList(Tail(io_)) /\ NoTask(Tail(io_))
        /\ StoppedBy(Len(got))
    BY <2>1, TurnStops
  <2> QED
    BY <2>1, <2>2, CacheStops
<1>4. CASE Deliver
  <2> DEFINE h == Head(io_)
             q == Tail(io_)
  <2>1. Task("answer") /\ "answer" \in ReaderTasks /\ Give(h, h.ec) /\ io_' = q /\ UNCHANGED reader
    BY <1>4 DEF Deliver, ReaderTasks
  <2>2. /\ h.task = "answer" /\ Nothing(h)
        /\ h.n = Len(got) + 1
        /\ BufferRests /\ UNCHANGED <<original_size, stopReading>>
        /\ IsList(q) /\ NoTask(q)
        /\ StoppedBy(Len(got)) \/ h.ec = "stopped"
    BY <2>1, TurnStops
  <2> HIDE DEF h, q
  <2>3. /\ h.data = <<>> /\ h.ec \in {"stopped", "end_of_file"}
        /\ h.ec = "end_of_file" => StoppedBy(Len(got))
    BY <2>2 DEF Nothing
  <2>4. Fits(h.data)
    BY <2>3, EmptySeq, BufferReadersAssumption DEF Fits
  <2>5. UNCHANGED Everything /\ Streaming(reader)'
    <3>1. (reader.file = None /\ reader.tmp_file = None)'
      BY <1>1, <2>1
    <3> QED
      BY <2>2, <3>1, RestsHere
  <2>6. /\ GivenInv' /\ Delivered \in Seq(Byte)
        /\ Delivered' = Delivered \o h.data
        /\ StoppedBy(Len(got))'
    <3>1. IsList(got)
      BY SettingHas
    <3> QED
      BY <1>1, <2>1, <2>2, <2>3, <2>4, <2>5, <3>1, GivenMore
  <2>7. Delivered' = Delivered
    BY <2>3, <2>6, ConcatEmptySeq
  <2>8. IsPrefix(Delivered, Everything)'
    BY <1>1, <2>5, <2>7, StillPrefix
  <2>9. (stopReading /\ reader.file = None /\ reader.tmp_file = None)'
    BY <1>1, <2>1, <2>2
  <2>10. Halted' /\ StopsThere'
    BY <2>1, <2>2, <2>6, <2>8, <2>9, OneStops
  <2> QED
    BY <2>5, <2>6, <2>10 DEF OnCourse
<1> QED
  BY <1>2, <1>3, <1>4

\* A reader that has been stopped is asked all the same.
LEMMA AskStops ==
  ASSUME Setting, OnCourse, Halted, Ask
  PROVE  OnCourse'
<1>1. /\ IsList(io_) /\ NoTask(io_)
      /\ BufferRests /\ UNCHANGED <<original_size, stopReading, got>>
  BY AskAlone
<1>2. /\ StopsThere /\ GivenInv /\ stopReading /\ reader.file = None /\ reader.tmp_file = None
      /\ IsPrefix(Delivered, Everything)
  BY HaltedHas
<1>3. StoppedBy(Len(got))
  BY <1>1 DEF Halted, Stopping, NoTask, ReaderTasks
<1>4. \/ CacheNext(io_, reads')
      \/ io_' = Append(io_, Posted("cached", reads')) /\ UNCHANGED reader
  BY <1>2 DEF Ask
<1>5. CASE CacheNext(io_, reads')
  BY <1>1, <1>3, <1>5, CacheStops
<1>6. CASE io_' = Append(io_, Posted("cached", reads')) /\ UNCHANGED reader
  <2>1. PICK t : io_' = Append(io_, t) /\ t.task = "cached"
    BY <1>6 DEF Posted
  <2>2. (stopReading /\ reader.file = None /\ reader.tmp_file = None)'
    BY <1>1, <1>2, <1>6
  <2>3. UNCHANGED Everything /\ Streaming(reader)'
    BY <1>1, <2>2, RestsHere
  <2>4. /\ GivenInv' /\ Delivered' = Delivered
        /\ StoppedBy(Len(got))'
    BY <1>1, <1>2, <1>3, <2>3, GivenSame
  <2>5. IsPrefix(Delivered, Everything)'
    BY <1>2, <2>3, <2>4, StillPrefix
  <2>6. Nothing(t)'
    BY <2>1 DEF Nothing
  <2>7. Halted' /\ StopsThere'
    BY <1>1, <2>1, <2>2, <2>4, <2>5, <2>6, OneStops
  <2> QED
    BY <2>3, <2>4, <2>7 DEF OnCourse
<1> QED
  BY <1>4, <1>5, <1>6

\* What concerns the reader keeps it on its course.
LEMMA ReaderOnCourse ==
  ASSUME Setting, Exact, OnCourse,
         OfFile \/ PassOn \/ OfTmpFile \/ Cached \/ Deliver \/ Ask
  PROVE  OnCourse'
<1>1. CASE Halted
  BY <1>1, TasksStop, AskStops
<1>2. CASE ~Halted
  <2>1. ~PassOn
    <3>1. PassOn => Task("pass_on") /\ "pass_on" \in ReaderTasks
      BY DEF PassOn, ReaderTasks
    <3>2. PassOn => Head(io_).task = "pass_on" /\ Continues(Head(io_))
      BY <1>2, <3>1, TurnGoesOn
    <3> QED
      BY <3>2 DEF Continues
  <2> QED
    BY <1>2, <2>1, OfFileOnCourse, OfTmpFileOnCourse, CachedOnCourse, DeliverOnCourse, AskOnCourse
<1> QED
  BY <1>1, <1>2

\* What runs in the buffer leaves what concerns the reader where it is.
LEMMA ReadersTasksKept ==
  ASSUME TokenInv, SwapInv, Run \/ Handle \/ CallbackReturns \/ Worker
  PROVE  \A t : t.task \in ReaderTasks => (t \in Elements(io_') <=> t \in Elements(io_))
<1>0. IsList(io_) /\ IsList(callbacks)
  BY DEF TokenInv, Lists
<1>1. \A t \in Elements(io_') : t \in Elements(io_) \/ t.task \notin ReaderTasks
  <2>1. \A t : t.task \in {"cleared", "handler", "operation"} => t.task \notin ReaderTasks
    BY DEF ReaderTasks
  <2> QED
    BY <2>1, BufferTasks
<1>2. CASE Run \/ Handle
  <2>1. /\ io_ # <<>> /\ Head(io_).task \in {"operation", "cleared", "handler"}
        /\ io_' = Tail(io_) \/ \E t : io_' = Append(Tail(io_), t)
    BY <1>2, TakesTurn
  <2>2. Head(io_).task \notin ReaderTasks
    BY <2>1 DEF ReaderTasks
  <2>3. /\ Elements(io_) \subseteq Elements(Tail(io_)) \cup {Head(io_)}
        /\ IsList(Tail(io_))
    BY <2>1, IoSets
  <2>4. \A t : Elements(Append(Tail(io_), t)) = Elements(Tail(io_)) \cup {t}
    BY <2>3, AppendList
  <2>5. Elements(Tail(io_)) \subseteq Elements(io_')
    BY <2>1, <2>4
  <2> QED
    BY <1>1, <2>2, <2>3, <2>5
<1>3. CASE CallbackReturns
  <2>1. io_' = io_ \o Tasks(callbacks)
    BY <1>3 DEF CallbackReturns, Post
  <2>2. Elements(io_') = Elements(io_) \cup OperationsOf(callbacks)
    BY <1>0, <2>1, PostList
  <2> QED
    BY <1>1, <2>2
<1>4. CASE Worker
  <2>1. PICK t : t.task = "handler" /\ io_' = Append(io_, t)
    BY <1>4 DEF Worker, PerformRequest, FailRequest, Handler
  <2>2. Elements(io_) \subseteq Elements(io_')
    BY <1>0, <2>1, AppendList
  <2> QED
    BY <1>1, <2>2
<1> QED
  BY <1>2, <1>3, <1>4

\* Where nothing of the reader, and nothing it reads, changes it stays on its course.
LEMMA CourseKept ==
  ASSUME UNCHANGED <<kind, isOnDisk, dest, tmp, bufs, currentBuffer, calls, original_size, reader, got>>,
         stopReading => stopReading', OnCourse,
         \A t : t.task \in ReaderTasks => (t \in Elements(io_') <=> t \in Elements(io_))
  PROVE  OnCourse'
<1>1. UNCHANGED <<FirstPart, SecondPart, LastPart, Everything>>
  BY PartsKept
<1>2. Streaming(reader)' <=> Streaming(reader)
  BY <1>1 DEF Streaming
<1>3. HaveRead(reader)' = HaveRead(reader) /\ (MoreInFile(reader)' <=> MoreInFile(reader))
  <2>1. HaveRead(reader)' = ReadOf(reader', FirstPart', SecondPart', LastPart')
    BY DEF HaveRead
  <2>2. HaveRead(reader) = ReadOf(reader, FirstPart, SecondPart, LastPart)
    BY DEF HaveRead
  <2>3. MoreInFile(reader)' <=> MoreInFile(reader)
    BY <1>1 DEF MoreInFile, Reached
  <2> QED
    BY <1>1, <2>1, <2>2, <2>3
<1>4. /\ GivenInv' /\ Delivered' = Delivered
      /\ StoppedBy(Len(got))' <=> StoppedBy(Len(got))
  BY <1>1, GivenSame DEF OnCourse
<1>5. Stopping' <=> Stopping
  BY DEF Stopping, ReaderTasks
<1>6. Halted' <=> Halted
  BY <1>4, <1>5 DEF Halted
<1>7. ASSUME NEW t
      PROVE  /\ Continues(t)' <=> Continues(t)
             /\ Nothing(t)' <=> Nothing(t)
  <2>1. Fits(t.data)' <=> Fits(t.data)
    BY DEF Fits
  <2>2. Continues(t)' <=> Continues(t)
    BY <1>1, <1>3, <1>4, <2>1 DEF Continues
  <2>3. Nothing(t)' <=> Nothing(t)
    BY <1>4 DEF Nothing
  <2> QED
    BY <2>2, <2>3
<1>8. CASE Halted
  <2>1. IsPrefix(Delivered, Everything)'
    BY <1>1, <1>4, <1>8, HaltedHas, StillPrefix
  <2>2. StopsThere'
    BY <1>7, <1>8, <2>1, HaltedHas DEF StopsThere
  <2> QED
    BY <1>2, <1>4, <1>6, <1>8, <2>2 DEF OnCourse
<1>9. CASE ~Halted
  <2>1. GoesOn
    BY <1>9 DEF OnCourse
  <2>2. GoesOn'
    BY <1>3, <1>4, <1>7, <2>1 DEF GoesOn
  <2> QED
    BY <1>2, <1>4, <1>6, <1>9, <2>2 DEF OnCourse
<1> QED
  BY <1>8, <1>9

\* A new reader begins at the beginning.
LEMMA CourseBegins ==
  TokenInv /\ SizeInv /\ PiecesInv /\ SwapInv /\ FilesThere /\ TypesInv /\ original_size \in Nat
    /\ AtPeace /\ reader = NewReader /\ got = <<>> /\ NoTask(io_) /\ Exact
  => OnCourse
<1> SUFFICES ASSUME TokenInv, SizeInv, PiecesInv, SwapInv, FilesThere, TypesInv, original_size \in Nat,
                    AtPeace, reader = NewReader, got = <<>>, NoTask(io_), Exact
             PROVE  OnCourse
  OBVIOUS
<1>1. FirstPart \in Seq(Byte) /\ SecondPart \in Seq(Byte) /\ LastPart \in Seq(Byte)
  BY PartsAre
<1>2. ~SaveBegun
  BY DEF AtPeace, Saving, SaveBegun
<1>3. /\ kind \in {"Append", "Overwrite"} /\ isOnDisk \in BOOLEAN /\ dest = <<0>>
      /\ dest \in Pieces /\ (isOnDisk => tmp \in Pieces)
  BY <1>2 DEF FilesThere, TypesInv, ScalarTypes, PiecesInv
<1>4. Open(dest) # None /\ (isOnDisk => Open(tmp) # None)
  BY <1>3, Opens
<1>5. Streaming(reader) /\ HaveRead(reader) = <<>> /\ MoreInFile(reader)
  BY <1>1, <1>3, <1>4, NewReaderStarts
<1>6. Len(got) = 0
  BY EmptyList
<1>7. GivenInv /\ ~StoppedBy(Len(got))
  BY <1>6 DEF GivenInv, StoppedBy
<1>8. ~Halted
  BY <1>7 DEF Halted, Stopping, NoTask, ReaderTasks
<1>9. Delivered = <<>> /\ <<>> \in Seq(Byte)
  <2>1. <<>> \in Seq(Seq(Byte)) /\ <<>> \in Seq(Byte)
    BY EmptySeq
  <2>2. [i \in 1..Len(got) |-> got[i].data] = <<>>
    BY <1>6
  <2> QED
    BY <2>1, <2>2, FlattenAppend DEF Delivered
<1>10. GoesOn
  BY <1>5, <1>9 DEF GoesOn, NoTask
<1> QED
  BY <1>5, <1>7, <1>8, <1>10 DEF OnCourse

\* The same of the state behind a step.
LEMMA CourseBeginsNext ==
  (TokenInv /\ SizeInv /\ PiecesInv /\ SwapInv /\ FilesThere /\ TypesInv /\ original_size \in Nat
    /\ AtPeace /\ reader = NewReader /\ got = <<>> /\ NoTask(io_) /\ Exact
  => OnCourse)'
BY CourseBegins, PTL

\* The calls on the buffer: no reader is there, or is about to be.
LEMMA CallsProgress ==
  ASSUME TokenInv, KindInv, OverlapInv, SwapInv, SwapsAwaited, StreamAwaited, ProgressInv,
         AppCall \/ Enqueue("make_chunked_stream"), reader = None, UNCHANGED readerVars
  PROVE  ProgressInv'
<1>1. Made = {}
  BY CallAllowed, MadeAlone
<1>2. \A t \in Elements(io_') : t \in Elements(io_) \/ t.task = "operation"
  BY CallAdds
<1>3. Made' = {}
  BY <1>1, <1>2 DEF Made
<1>4. UNCHANGED <<reader, got>>
  BY DEF readerVars
<1> QED
  BY <1>3, <1>4 DEF ProgressInv

\* What runs in the buffer.
LEMMA BufferProgress ==
  ASSUME TokenInv, RequestInv, KindInv, SwapInv, FileInv, ReaderInv, ProgressInv,
         Run \/ Handle \/ CallbackReturns \/ Worker, UNCHANGED readerVars
  PROVE  ProgressInv'
<1>1. UNCHANGED <<reader, original_size, stopReading, got>>
  BY DEF readerVars
<1>2. Made' \subseteq Made
  BY BufferTasks DEF Made
<1>3. CASE Made = {} /\ reader = None
  BY <1>1, <1>2, <1>3 DEF ProgressInv
<1>4. CASE Made # {} \/ reader # None
  <2>1. AtPeace
    BY <1>4 DEF ReaderInv, AtPeace
  <2>2. UNCHANGED <<kind, isOnDisk, dest, tmp, bufs, currentBuffer, calls, original_size>>
    BY <1>1, <2>1, PeaceKept
  <2>3. UNCHANGED NewReader /\ (Exact' <=> Exact)
    BY <2>2, PartsKept
  <2>4. \A t \in Made' : t.reader = NewReader'
    BY <1>2, <2>3 DEF ProgressInv
  <2>5. reader' # None /\ Exact' => OnCourse'
    <3>1. SUFFICES ASSUME reader' # None, Exact'
                   PROVE  OnCourse'
      OBVIOUS
    <3>2. OnCourse
      BY <1>1, <2>3, <3>1 DEF ProgressInv
    <3>3. \A t : t.task \in ReaderTasks => (t \in Elements(io_') <=> t \in Elements(io_))
      BY ReadersTasksKept
    <3> QED
      BY <1>1, <2>2, <3>2, <3>3, CourseKept
  <2> QED
    BY <1>1, <2>4, <2>5 DEF ProgressInv
<1> QED
  BY <1>3, <1>4

\* A reader is made of what the buffer is, and begins at the beginning.
LEMMA MakingProgress ==
  ASSUME SizesInv, SizesInv', TypesInv', ReadingInv, ReadingInv', ProgressInv,
         SwapsAwaited, ReadsAlone, StreamAwaited, RunMake \/ MakeFails \/ RunMade
  PROVE  ProgressInv'
<1>0. /\ TokenInv /\ KindInv /\ OverlapInv /\ SwapInv /\ OrderInv /\ ReaderInv /\ TaskInv
      /\ TokenInv' /\ FilesThere' /\ SizeInv' /\ SwapInv' /\ PiecesInv' /\ ReaderInv'
  BY DEF SizesInv, IInv, CallInv, ReadingInv
<1>1. io_ # <<>> /\ Own(Head(io_)) /\ Head(io_) \in Elements(io_)
  <2>1. io_ # <<>> /\ Own(Head(io_))
    BY DEF RunMake, MakeFails, RunMade, Running, Own
  <2> QED
    BY <1>0, <2>1, HeadOfIo
<1>2. Elements(Tail(io_)) \subseteq Elements(io_) /\ IsList(Tail(io_))
  BY <1>0, <1>1, IoSets
<1>3. CASE RunMake
  <2>1. AtPeace' /\ Queued # {} /\ UNCHANGED isOnDisk
    BY <1>0, <1>3, MakeAlone
  <2>2. Made = {} /\ reader = None
    BY <1>0, <2>1 DEF ReaderInv
  <2>3. UNCHANGED <<reader, got>>
    BY <1>3 DEF RunMake
  <2> DEFINE t == [task |-> "made", call |-> Turn, reader |-> NewReader']
  <2>4. t.task = "made" /\ t.reader = NewReader' /\ io_' = Append(Tail(io_), t)
    BY <1>3 DEF RunMake
  <2> HIDE DEF t
  <2>5. Elements(io_') = Elements(Tail(io_)) \cup {t}
    BY <1>2, <2>4, AppendList
  <2>6. Made' \subseteq {t}
    BY <1>2, <2>2, <2>4, <2>5 DEF Made
  <2> QED
    BY <2>2, <2>3, <2>4, <2>6 DEF ProgressInv
<1>4. CASE MakeFails
  <2>1. io_' = Tail(io_) /\ UNCHANGED readerVars /\ Head(io_).task = "operation"
    BY <1>4 DEF MakeFails, Running
  <2>2. Head(io_).call \in Queued
    BY <1>1, <2>1 DEF Queued, PostedOperations
  <2>3. Made = {} /\ reader = None
    BY <1>0, <2>2 DEF ReaderInv
  <2>4. UNCHANGED <<reader, got>>
    BY <2>1 DEF readerVars
  <2>5. Made' = {}
    BY <1>2, <2>1, <2>3 DEF Made
  <2> QED
    BY <2>3, <2>4, <2>5 DEF ProgressInv
<1>5. CASE RunMade
  <2>1. /\ Head(io_).task = "made" /\ io_' = Tail(io_) /\ reader' = Head(io_).reader
        /\ UNCHANGED <<kind, isOnDisk, dest, tmp, bufs, currentBuffer, calls, swapping, original_size, got>>
    BY <1>5 DEF RunMade, flagVars, bufferVars, fileVars
  <2>2. Head(io_) \in Made
    BY <1>1, <2>1 DEF Made
  <2>3. /\ AtPeace /\ reader = None /\ Holds(Head(io_).reader)
        /\ Head(io_).reader = NewReader /\ got = <<>>
    BY <1>0, <2>2 DEF ReaderInv, AtPeace, ProgressInv
  <2>4. reader' # None /\ got' = <<>>
    BY <2>1, <2>3, BufferReadersAssumption DEF Holds
  <2>5. Made' = {} /\ AtPeace' /\ original_size' \in Nat
    BY <1>0, <2>4 DEF ReaderInv, AtPeace
  <2>6. NewReader' = NewReader
    BY <2>1, PartsKept
  <2>7. NoTask(io_)'
    <3>1. NoTask(io_)
      BY <1>0, <2>3 DEF NoTask, TaskInv, Waits
    <3> QED
      BY <1>2, <2>1, <3>1 DEF NoTask, ReaderTasks
  <2>8. (reader = NewReader)'
    BY <2>1, <2>3, <2>6
  <2>9. Exact' => OnCourse'
    BY <1>0, <2>4, <2>5, <2>7, <2>8, CourseBeginsNext
  <2> QED
    BY <2>4, <2>5, <2>9 DEF ProgressInv
<1> QED
  BY <1>3, <1>4, <1>5

\* What concerns the reader.
LEMMA ReadingProgress ==
  ASSUME SizesInv, ReadingInv, ReadingInv', ProgressInv, SwapsAwaited, ReadsAlone,
         OfFile \/ PassOn \/ OfTmpFile \/ Cached \/ Deliver \/ Ask
  PROVE  ProgressInv'
<1>0. /\ TokenInv /\ SizeInv /\ PiecesInv /\ SwapInv /\ FilesThere /\ ReaderInv /\ TaskInv /\ ReaderInv'
  BY DEF SizesInv, IInv, CallInv, ReadingInv
<1>1. reader # None
  <2>1. CASE OfFile \/ PassOn \/ OfTmpFile \/ Cached \/ Deliver
    <3>1. PICK task \in ReaderTasks : Task(task)
      BY <2>1 DEF OfFile, PassOn, OfTmpFile, Cached, Deliver, ReaderTasks
    <3> QED
      BY <1>0, <3>1, TurnWaits DEF Waits
  <2>2. CASE Ask
    BY <2>2 DEF Ask
  <2> QED
    BY <2>1, <2>2
<1>2. Setting
  BY <1>0, <1>1 DEF Setting
<1>3. reader' # None
  BY <1>0, OfFileKeeps, OfTmpFileKeeps, PassedOnKeeps, AskKeeps
<1>4. BufferRests /\ UNCHANGED original_size
  BY DEF OfFile, PassOn, OfTmpFile, Cached, Deliver, Ask, Task
<1>5. Exact' <=> Exact
  BY <1>4, RestKeeps
<1>6. Exact' => OnCourse'
  BY <1>1, <1>2, <1>5, ReaderOnCourse DEF ProgressInv
<1>7. Made' = {}
  BY <1>0, <1>3 DEF ReaderInv
<1> QED
  BY <1>3, <1>6, <1>7 DEF ProgressInv

\* Every step preserves ProgressInv.
LEMMA ProgressStep ==
  ASSUME SizesInv, SizesInv', TypesInv', ReadingInv, ReadingInv', ProgressInv,
         SwapsAwaited, ReadsAlone, StreamAwaited, [ReadersStep]_allVars
  PROVE  ProgressInv'
<1>0. /\ TokenInv /\ RequestInv /\ KindInv /\ OverlapInv /\ SwapInv /\ FileInv /\ ReaderInv
  BY DEF SizesInv, IInv, CallInv, ReadingInv
<1>1. ASSUME UNCHANGED <<vars, original_size, reader, got>>, stopReading => stopReading'
      PROVE  ProgressInv'
  <2>1. UNCHANGED <<kind, isOnDisk, dest, tmp, bufs, currentBuffer, calls, io_>>
    BY <1>1 DEF vars, queueVars, flagVars, bufferVars, fileVars
  <2>2. UNCHANGED NewReader /\ (Exact' <=> Exact)
    BY <1>1, <2>1, PartsKept
  <2>3. OnCourse => OnCourse'
    BY <1>1, <2>1, CourseKept
  <2> QED
    BY <1>1, <2>1, <2>2, <2>3 DEF ProgressInv, Made
<1>2. CASE UNCHANGED allVars
  BY <1>1, <1>2 DEF allVars, readerVars
<1>3. CASE Stop
  BY <1>1, <1>3 DEF Stop
<1>4. CASE ReadersStep
  <2>1. \/ (AppCall \/ Enqueue("make_chunked_stream")) /\ reader = None /\ UNCHANGED readerVars
        \/ (Run \/ Handle \/ CallbackReturns \/ Worker) /\ UNCHANGED readerVars
        \/ RunMake \/ MakeFails \/ RunMade
        \/ OfFile \/ PassOn \/ OfTmpFile \/ Cached \/ Deliver \/ Ask
        \/ Stop
    BY <1>4 DEF ReadersStep, MakeChunkedStream, ReaderRuns
  <2>2. CASE (AppCall \/ Enqueue("make_chunked_stream")) /\ reader = None /\ UNCHANGED readerVars
    BY <1>0, <2>2, CallsProgress
  <2>3. CASE (Run \/ Handle \/ CallbackReturns \/ Worker) /\ UNCHANGED readerVars
    BY <1>0, <2>3, BufferProgress
  <2>4. CASE RunMake \/ MakeFails \/ RunMade
    BY <2>4, MakingProgress
  <2>5. CASE OfFile \/ PassOn \/ OfTmpFile \/ Cached \/ Deliver \/ Ask
    BY <2>5, ReadingProgress
  <2> QED
    BY <1>3, <2>1, <2>2, <2>3, <2>4, <2>5
<1> QED
  BY <1>2, <1>4

\* It holds in every state until an exception gets out.
LEMMA ProgressAlways ==
  ASSUME SwapsAwaited, ReadsAlone, StreamAwaited
  PROVE  ReadersSpec => [](Alive => ProgressInv)
<1>1. ReadersInit => ProgressInv
  <2> SUFFICES ASSUME ReadersInit
               PROVE  ProgressInv
    OBVIOUS
  <2>1. io_ = <<>> /\ reader = None /\ got = <<>>
    BY DEF ReadersInit, Init
  <2>2. Elements(io_) = {}
    BY <2>1, EmptyList
  <2> QED
    BY <2>1, <2>2 DEF ProgressInv, Made
<1>2. /\ Alive => SizesInv /\ ReadingInv /\ ProgressInv
      /\ (Alive => SizesInv /\ TypesInv /\ ReadingInv)'
      /\ [ReadersNext]_allVars
      => (Alive => ProgressInv)'
  BY UntilThrown, ProgressStep
<1> QED
  BY <1>1, <1>2, TypesAlways, SizesAlways, ReadingAlways, PTL DEF ReadersSpec

\* What is delivered is the beginning of all there is.
LEMMA CoursePrefix ==
  ASSUME Setting, OnCourse
  PROVE  IsPrefix(Delivered, Everything)
<1>1. CASE Halted
  BY <1>1, HaltedHas
<1>2. CASE ~Halted
  <2>1. GoesOn
    BY <1>2 DEF OnCourse
  <2>2. Delivered \in Seq(Byte) /\ <<>> \in Seq(Byte) /\ Delivered \o <<>> = Delivered
    BY <2>1, EmptySeq, ConcatEmptySeq DEF GoesOn
  <2>3. CASE Delivered = HaveRead(reader)
    BY <2>2, <2>3, Complete
  <2>4. CASE Delivered # HaveRead(reader)
    <3>1. PICK t \in Elements(io_) : t.task \in ReaderTasks
      BY <2>1, <2>4 DEF GoesOn
    <3>2. Continues(t)
      BY <2>1, <3>1 DEF GoesOn
    <3>3. t.task \in ChunkTasks
      BY <2>4, <3>1, <3>2 DEF Continues, ReaderTasks, ChunkTasks
    <3>4. t.data \in Seq(Byte) /\ Delivered \o t.data = HaveRead(reader)
      BY <3>2, <3>3 DEF Continues, Fits
    <3> QED
      BY <2>2, <3>4, Complete
  <2> QED
    BY <2>3, <2>4
<1> QED
  BY <1>1, <1>2

\* Before there is a reader nothing is delivered.
LEMMA NothingYet ==
  ASSUME TokenInv, SizeInv, kind \in {"Append", "Overwrite"}, original_size \in Nat, got = <<>>
  PROVE  WholeStream
<1>1. Len(got) = 0
  BY EmptyList
<1>2. Delivered = <<>> /\ <<>> \in Seq(Byte)
  <2>1. <<>> \in Seq(Seq(Byte)) /\ <<>> \in Seq(Byte)
    BY EmptySeq
  <2>2. [i \in 1..Len(got) |-> got[i].data] = <<>>
    BY <1>1
  <2> QED
    BY <2>1, <2>2, FlattenAppend DEF Delivered
<1>3. Whole \in Seq(Byte)
  <2>1. logical \in Pieces
    <3>1. IsList(logical) /\ Elements(logical) \subseteq 1..Len(calls) /\ Len(calls) \in Nat
      BY DEF SizeInv, TokenInv, Lists, IsList
    <3>2. \A i \in 1..Len(logical) : logical[i] \in 0..Len(calls)
      BY <3>1 DEF Elements
    <3> QED
      BY <3>1, <3>2 DEF IsList, Pieces
  <2>2. Original \in Pieces
    <3>1. Len(calls) \in Nat
      BY DEF TokenInv, Lists, IsList
    <3>2. <<0>> \in Pieces /\ <<>> \in Pieces
      BY <3>1, EmptySeq DEF Pieces
    <3> QED
      BY <3>2 DEF Original
  <2>3. Original \o logical \in Pieces
    BY <2>1, <2>2, ConcatProperties DEF Pieces
  <2> QED
    BY <2>3, OpenStream DEF Whole
<1>4. IsPrefix(Delivered, Whole)
  <2>1. <<>> \o Whole = Whole
    BY <1>3, ConcatEmptySeq
  <2> QED
    BY <1>2, <1>3, <2>1, Begins
<1> QED
  BY <1>1, <1>4 DEF WholeStream

\* Across all seams the chunks of a reader are the content of its buffer, in order and
\* without gap or repetition, whatever the file held, was appended and was moved to the
\* temporary file, and wherever it is stopped: the three next_chunk and the readers
\* make_chunked_stream gives.
THEOREM StreamExactAlways ==
  ASSUME SwapsAwaited, ReadsAlone, StreamAwaited
  PROVE  ReadersSpec => []StreamExact
<1>1. SizesInv /\ TypesInv /\ ReadingInv /\ ProgressInv => StreamExact
  <2> SUFFICES ASSUME SizesInv, TypesInv, ReadingInv, ProgressInv, Exact
               PROVE  WholeStream
    BY DEF StreamExact, Exact
  <2>0. /\ TokenInv /\ SizeInv /\ PiecesInv /\ SwapInv /\ FileInv /\ DataInv /\ FilesThere
        /\ ReaderInv /\ TaskInv
    BY DEF SizesInv, IInv, CallInv, ReadingInv
  <2>1. CASE reader = None
    <3>1. got = <<>> /\ original_size \in Nat /\ kind \in {"Append", "Overwrite"}
      BY <2>0, <2>1 DEF ProgressInv, ReaderInv, FilesThere
    <3> QED
      BY <2>0, <3>1, NothingYet
  <2>2. CASE reader # None
    <3>1. Setting /\ OnCourse
      BY <2>0, <2>2 DEF Setting, ProgressInv
    <3> SUFFICES ASSUME ~error
                 PROVE  /\ IsPrefix(Delivered, Whole)
                        /\ \A i \in 1..Len(got) :
                             /\ got[i].call = i
                             /\ Len(got[i].data) <= chunk_size
                             /\ got[i].ec = "success" => got[i].data # <<>>
                             /\ got[i].ec = "end_of_file" =>
                                  Delivered = Whole \/ \E j \in 1..i : got[j].ec = "stopped"
      BY DEF WholeStream
    <3>2. Everything = Whole
      <4>1. AtPeace /\ original_size \in Nat
        BY <2>0, <2>2 DEF ReaderInv, AtPeace
      <4> QED
        BY <2>0, <4>1, PartsWhole
    <3>3. IsPrefix(Delivered, Everything)
      BY <3>1, CoursePrefix
    <3>4. GivenInv
      BY <3>1 DEF OnCourse
    <3> QED
      BY <3>2, <3>3, <3>4 DEF GivenInv, Fits, StoppedBy
  <2> QED
    BY <2>1, <2>2
<1>2. ReadersInit => Alive
  BY DEF ReadersInit, Init, Alive
<1>3. StreamExact /\ [ReadersNext]_allVars /\ ~Alive' => StreamExact'
  <2> SUFFICES ASSUME StreamExact, [ReadersNext]_allVars, ~Alive'
               PROVE  StreamExact'
    OBVIOUS
  <2>1. UNCHANGED <<kind, isOnDisk, error, calls, logical, original_size, got>>
    <3>1. CASE ReadersThrow
      BY <3>1, ThrowEnds
    <3>2. CASE UNCHANGED allVars
      BY <3>2 DEF allVars, readerVars, vars, flagVars
    <3>3. CASE ReadersStep
      BY <3>3, StepAlive
    <3> QED
      BY <3>1, <3>2, <3>3 DEF ReadersNext
  <2>2. Delivered' = Delivered
    BY <2>1 DEF Delivered
  <2>3. Whole' = Whole
    <3>1. \A c : BytesOf(c)' = BytesOf(c)
      BY <2>1 DEF BytesOf, Piece
    <3>2. (Original \o logical)' = Original \o logical
      BY <2>1 DEF Original
    <3> QED
      BY <3>1, <3>2 DEF Whole
  <2>4. WholeStream' <=> WholeStream
    BY <2>1, <2>2, <2>3 DEF WholeStream
  <2> QED
    BY <2>1, <2>4 DEF StreamExact
<1> QED
  BY <1>1, <1>2, <1>3, ProgressAlways, TypesAlways, SizesAlways, ReadingAlways, PTL DEF ReadersSpec
=============================================================================

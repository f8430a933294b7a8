----------------------- MODULE FilesystemManagerProofs -----------------------
(* Theorems about FilesystemManager, for every set of requests, threads and *)
(* paths.                                                                    *)
EXTENDS FilesystemManagerRefinement, TLAPS

-----------------------------------------------------------------------------
(* What the file helpers return.                                            *)

\* A helper that looks at its file first answers with what it may do or an error.
LEMMA AdmittedType ==
  ASSUME NEW f \in File, NEW admitted, NEW continue \in SUBSET Outcome
  PROVE  check_path_admitted(f, admitted, continue) \subseteq Outcome
<1>1. <<>> \in Contents
  BY DEF Contents
<1> QED
  BY <1>1 DEF check_path_admitted, Outcome, Thrown, ErrorCode

\* readFile returns outcomes: readFile(Path) of fs_manager.cpp.
LEMMA ReadFileType ==
  ASSUME NEW f \in File
  PROVE  readFile(f) \subseteq Outcome
<1> DEFINE continue == {Returned(f, f.data)}
             \cup {Thrown(f, code) : code \in IF Faults THEN {"open_failure", "read_failure"}
                                                        ELSE {}}
<1>1. f.data \in Contents /\ <<>> \in Contents
  BY DEF File, Contents
<1>2. continue \subseteq Outcome
  BY <1>1 DEF Outcome, Returned, Thrown, ErrorCode
<1> QED
  BY <1>2, AdmittedType DEF readFile

\* A transfer reads some of the pieces asked for that the file holds, and all of
\* them where none may fail.
LEMMA TransferredRange ==
  ASSUME NEW f, f.data \in Seq(Pieces \cup {Padding}), NEW n \in Nat,
         NEW k \in Transferred(f, n)
  PROVE  /\ k \in 0..n /\ k <= Len(f.data)
         /\ Faults \/ k = n \/ k = Len(f.data)
<1>1. Len(f.data) \in Nat
  OBVIOUS
<1> QED
  BY <1>1, FileOpsAssumption DEF Transferred

\* fdReadFile returns outcomes: readFile(unique_ptr<ifstream>).
LEMMA FdReadFileType ==
  ASSUME NEW f \in File, NEW n \in Nat
  PROVE  fdReadFile(f, n) \subseteq Outcome
<1>1. f.data \in Seq(Pieces \cup {Padding})
  BY DEF File, Contents
<1>2. ASSUME NEW k \in Transferred(f, n)
      PROVE  Returned(f, [i \in 1..n |-> IF i <= k THEN f.data[i] ELSE Padding]) \in Outcome
  <2> DEFINE data == [i \in 1..n |-> IF i <= k THEN f.data[i] ELSE Padding]
  <2>1. k \in Nat /\ k <= Len(f.data)
    BY <1>1, TransferredRange
  <2>2. \A i \in 1..n : data[i] \in Pieces \cup {Padding}
    BY <1>1, <2>1
  <2>3. data \in Contents
    BY <2>2 DEF Contents
  <2> QED
    BY <2>3 DEF Returned, Outcome, ErrorCode
<1> QED
  BY <1>2 DEF fdReadFile

\* writeFile returns outcomes.
LEMMA WriteFileType ==
  ASSUME NEW f \in File, NEW bytes \in Contents
  PROVE  writeFile(f, bytes) \subseteq Outcome
<1> DEFINE continue == {Returned(RegularFile(bytes), <<>>)}
                         \cup IF Faults
                              THEN {Thrown(f, "open_failure"),
                                    Thrown(RegularFile(<<>>), "write_failure"),
                                    Returned(RegularFile(<<>>), <<>>)}
                              ELSE {}
<1>1. <<>> \in Contents
  BY DEF Contents
<1>2. RegularFile(bytes) \in File /\ RegularFile(<<>>) \in File
  BY <1>1 DEF RegularFile, File, FileType
<1>3. continue \subseteq Outcome
  BY <1>1, <1>2 DEF Outcome, Returned, Thrown, ErrorCode
<1> QED
  BY <1>3, AdmittedType DEF writeFile

\* appendToFile returns outcomes.
LEMMA AppendToFileType ==
  ASSUME NEW f \in File, NEW bytes \in Contents
  PROVE  appendToFile(f, bytes) \subseteq Outcome
<1> DEFINE continue == {Returned(RegularFile(f.data \o bytes), <<>>)}
                         \cup IF Faults
                              THEN {Thrown(f, "open_failure"),
                                    Thrown(RegularFile(f.data), "append_failure"),
                                    Returned(RegularFile(f.data), <<>>)}
                              ELSE {}
<1>1. <<>> \in Contents /\ f.data \in Contents /\ f.data \o bytes \in Contents
  BY DEF Contents, File
<1>2. RegularFile(f.data) \in File /\ RegularFile(f.data \o bytes) \in File
  BY <1>1 DEF RegularFile, File, FileType
<1>3. continue \subseteq Outcome
  BY <1>1, <1>2 DEF Outcome, Returned, Thrown, ErrorCode
<1> QED
  BY <1>3, AdmittedType DEF appendToFile

\* A request names one piece, which is a content.
LEMMA BytesType == \A r \in Requests : <<r>> \in Contents
BY FilesystemManagerAssumption DEF Contents

\* An element appended to a sequence comes last and moves nothing.
LEMMA AppendIndices ==
  ASSUME NEW S, NEW s \in Seq(S), NEW e \in S
  PROVE  /\ Len(Append(s, e)) = Len(s) + 1
         /\ \A i \in 1..Len(s) : Append(s, e)[i] = s[i] /\ s[i] \in S
         /\ Append(s, e)[Len(s) + 1] = e
OBVIOUS

\* Taking the first element off a sequence moves each other one to the front.
LEMMA TailIndices ==
  ASSUME NEW S, NEW s \in Seq(S), s # <<>>
  PROVE  /\ Len(Tail(s)) = Len(s) - 1 /\ Len(Tail(s)) \in Nat
         /\ Head(s) = s[1] /\ 1 \in 1..Len(s) /\ s[1] \in S
         /\ \A i \in 1..Len(Tail(s)) : i + 1 \in 1..Len(s) /\ Tail(s)[i] = s[i + 1]
OBVIOUS

\* The queue of arguments of a code is one of the four.
LEMMA DataQueueType == \A code \in OperationCode : DataQueue(code) \in DataQueues
BY DEF OperationCode, DataQueue, DataQueues

-----------------------------------------------------------------------------
(* Each part of the inductive invariant is kept by every step.              *)

\* While the worker holds an operation, its arguments are those of a request.
LEMMA HeldIsRequest ==
  ASSUME TypeOK, Pairing, wpc \in {"execute", "post"}
  PROVE  /\ cur.handler \in Requests /\ cur.data \in Requests
         /\ cur.code \in OperationCode /\ PathOf[cur.data] \in Paths
         /\ files[PathOf[cur.data]] \in File
BY FilesystemManagerAssumption DEF Pairing, TypeOK

\* The worker pops from queues that are not empty, and what it pops is a request.
LEMMA PopType ==
  ASSUME TypeOK, QueueInv, wpc = "pop"
  PROVE  /\ q_operations # <<>> /\ Head(q_operations) \in Operation
         /\ LET d == DataQueue(Head(q_operations).code) IN
              /\ d \in DataQueues
              /\ q_data[d] # <<>>
              /\ Head(q_data[d]) \in Requests
<1>1. q_operations # <<>> /\ 1 \in 1..Len(q_operations)
      /\ Head(q_operations) = q_operations[1]
  BY DEF QueueInv, TypeOK
<1>2. Head(q_operations) \in Operation
  BY <1>1 DEF TypeOK
<1> DEFINE d == DataQueue(Head(q_operations).code)
<1>3. d \in DataQueues
  BY <1>2, DataQueueType DEF Operation
<1>4. \E k \in 1..Len(q_data[d]) : q_data[d][k] = q_operations[1].handler
  BY <1>1 DEF QueueInv, HandlersHaveData, DataOf
<1>5. q_data[d] \in Seq(Requests)
  BY <1>3 DEF TypeOK
<1>6. q_data[d] # <<>>
  BY <1>4, <1>5
<1>7. Head(q_data[d]) \in Requests
  BY <1>5, <1>6
<1> QED
  BY <1>1, <1>2, <1>3, <1>6, <1>7

\* The variables keep their types through a push.
LEMMA PushType ==
  ASSUME TypeOK, NEW code \in OperationCode, NEW h \in Requests,
         NEW args \in Requests, push(code, h, args), Log(h)
  PROVE  /\ q_operations' \in Seq(Operation)
         /\ q_data' \in [DataQueues -> Seq(Requests)]
         /\ issued' \in SUBSET Requests
         /\ ahead' \in [Requests -> SUBSET Requests]
<1>1. q_operations' \in Seq(Operation)
  BY DEF push, TypeOK, Operation
<1>2. q_data' \in [DataQueues -> Seq(Requests)]
  BY DataQueueType DEF push, TypeOK
<1>3. issued' \in SUBSET Requests /\ ahead' \in [Requests -> SUBSET Requests]
  BY DEF Log, TypeOK
<1> QED
  BY <1>1, <1>2, <1>3

\* The variables keep their types when an operation ends.
LEMMA ConcludeType ==
  ASSUME IInv, wpc = "execute", NEW o \in Outcome, NEW b \in Contents, Conclude(o, b)
  PROVE  TypeOK'
<1>1. files' \in [Paths -> File] /\ buf' \in [Requests -> Contents]
  BY DEF IInv, TypeOK, Conclude, Outcome
<1>2. cur' \in Cur
  BY DEF IInv, TypeOK, Conclude, Cur, Outcome
<1>3. wpc' \in WorkerPC
  BY DEF Conclude, WorkerPC
<1> QED
  BY <1>1, <1>2, <1>3
  DEF IInv, TypeOK, Conclude, queueVars, eventVars, handlerVars, historyVars

\* Every step keeps every variable in its type.
LEMMA TypeStep == IInv /\ [Next]_vars => TypeOK'
<1> SUFFICES ASSUME IInv, [Next]_vars PROVE TypeOK'
  OBVIOUS
<1> USE DEF queueVars, workerVars, eventVars, handlerVars, fileVars, historyVars
<1>1. ASSUME NEW t \in Threads, NEW r \in Requests, Submit(t, r) PROVE TypeOK'
  <2>1. Code[r] \in OperationCode /\ PathOf[r] \in Paths
    BY FilesystemManagerAssumption
  <2>2. /\ q_operations' \in Seq(Operation)
        /\ q_data' \in [DataQueues -> Seq(Requests)]
        /\ issued' \in SUBSET Requests
        /\ ahead' \in [Requests -> SUBSET Requests]
    BY <1>1, <2>1, PushType DEF Submit, IInv
  <2>3. calling' \in [Threads -> Requests \cup {None}]
    BY <1>1 DEF Submit, IInv, TypeOK
  <2>4. Len(files[PathOf[r]].data) \in Nat
    BY <2>1 DEF IInv, TypeOK, File, Contents
  <2>5. length' \in [Requests -> Nat \cup {NotOpen}]
    <3>1. PICK n \in Nat \cup {NotOpen} :
            length' = [length EXCEPT ![r] = IF Code[r] = "fd_async_read" THEN n ELSE 0]
      BY <1>1, <2>4 DEF Submit
    <3> QED
      BY <3>1 DEF IInv, TypeOK
  <2> QED
    BY <1>1, <2>2, <2>3, <2>5 DEF Submit, IInv, TypeOK
<1>2. ASSUME NEW t \in Threads, SetEvent(t) PROVE TypeOK'
  BY <1>2 DEF SetEvent, IInv, TypeOK
<1>3. CASE Destroy
  BY <1>3 DEF Destroy, IInv, TypeOK
<1>4. CASE DestroyNotify
  BY <1>4 DEF DestroyNotify, IInv, TypeOK
<1>5. CASE DestroyJoin
  BY <1>5 DEF DestroyJoin, IInv, TypeOK
<1>6. CASE CheckDone
  BY <1>6 DEF CheckDone, IInv, TypeOK, WorkerPC
<1>7. CASE WaitEvent
  BY <1>7 DEF WaitEvent, IInv, TypeOK, WorkerPC
<1>8. CASE ResetEvent
  BY <1>8 DEF ResetEvent, IInv, TypeOK, WorkerPC
<1>9. CASE CheckEmpty
  BY <1>9 DEF CheckEmpty, IInv, TypeOK, WorkerPC
<1>10. CASE Pop
  <2> DEFINE d == DataQueue(Head(q_operations).code)
  <2>1. /\ q_operations # <<>> /\ Head(q_operations) \in Operation
        /\ d \in DataQueues /\ q_data[d] # <<>> /\ Head(q_data[d]) \in Requests
    BY <1>10, PopType DEF IInv, Pop
  <2>2. cur' \in Cur
    BY <1>10, <2>1 DEF Pop, pop, Cur, Operation
  <2>3. q_operations' \in Seq(Operation)
    BY <1>10, <2>1 DEF Pop, pop, IInv, TypeOK
  <2>4. q_data[d] \in Seq(Requests)
    BY <2>1 DEF IInv, TypeOK
  <2>5. Tail(q_data[d]) \in Seq(Requests)
    BY <2>1, <2>4
  <2>6. q_data' \in [DataQueues -> Seq(Requests)]
    BY <1>10, <2>1, <2>5 DEF Pop, pop, IInv, TypeOK
  <2> QED
    BY <1>10, <2>2, <2>3, <2>6 DEF Pop, IInv, TypeOK, WorkerPC
<1>11. ASSUME Execute, ~RequeueChunk, ~ExecuteChunk PROVE TypeOK'
  <2>1. wpc = "execute"
    BY <1>11 DEF Execute, ExecuteRead, ExecuteFdRead, ExecuteWrite, ExecuteAppend, Executing
  <2>2. cur.data \in Requests /\ files[PathOf[cur.data]] \in File
    BY <2>1, HeldIsRequest DEF IInv, HeldInv
  <2>3. buf[cur.data] \in Contents /\ length[cur.data] \in Nat \cup {NotOpen}
        /\ <<cur.data>> \in Contents
    BY <2>2, BytesType DEF IInv, TypeOK
  <2>4. \A o \in Outcome : Filled(o) \in Contents
    BY <2>3 DEF Filled, Outcome
  <2>5. CASE ExecuteRead
    BY <2>1, <2>2, <2>4, <2>5, ReadFileType, ConcludeType DEF ExecuteRead
  <2>6. CASE ExecuteFdRead
    BY <2>1, <2>2, <2>3, <2>4, <2>6, FdReadFileType, ConcludeType DEF ExecuteFdRead
  <2>7. CASE ExecuteWrite
    BY <2>1, <2>2, <2>3, <2>7, WriteFileType, ConcludeType DEF ExecuteWrite
  <2>8. CASE ExecuteAppend
    BY <2>1, <2>2, <2>3, <2>8, AppendToFileType, ConcludeType DEF ExecuteAppend
  <2> QED
    BY <1>11, <2>5, <2>6, <2>7, <2>8 DEF Execute
<1>12. CASE RequeueChunk
  <2>1. cur.code \in OperationCode /\ cur.handler \in Requests /\ cur.data \in Requests
    BY <1>12, HeldIsRequest DEF RequeueChunk, Executing, IInv, HeldInv
  <2>2. /\ q_operations' \in Seq(Operation)
        /\ q_data' \in [DataQueues -> Seq(Requests)]
        /\ issued' \in SUBSET Requests
        /\ ahead' \in [Requests -> SUBSET Requests]
    BY <1>12, <2>1, PushType DEF RequeueChunk, IInv
  <2>3. cur' \in Cur /\ wpc' \in WorkerPC
    BY <1>12 DEF RequeueChunk, Idle, Cur, WorkerPC
  <2> QED
    BY <1>12, <2>2, <2>3 DEF RequeueChunk, IInv, TypeOK
<1>13. CASE ExecuteChunk
  <2>1. ChunkOutcome(reader[cur.data]) \subseteq ErrorCode
    BY DEF ChunkOutcome, ErrorCode
  <2>2. PICK code \in ErrorCode : cur' = [cur EXCEPT !.ec = code]
    BY <1>13, <2>1 DEF ExecuteChunk
  <2>3. cur' \in Cur /\ wpc' \in WorkerPC
    BY <1>13, <2>2 DEF ExecuteChunk, IInv, TypeOK, Cur, WorkerPC
  <2> QED
    BY <1>13, <2>3 DEF ExecuteChunk, IInv, TypeOK
<1>14. CASE Post
  <2>1. cur.handler \in Requests /\ cur.ec \in ErrorCode
    BY <1>14, HeldIsRequest DEF Post, IInv, HeldInv, TypeOK, Cur
  <2>2. io_' \in Seq(Requests) /\ bound' \in [Requests -> ErrorCode \cup {None}]
    BY <1>14, <2>1 DEF Post, IInv, TypeOK
  <2>3. cur' \in Cur /\ wpc' \in WorkerPC
    BY <1>14 DEF Post, Idle, Cur, WorkerPC
  <2> QED
    BY <1>14, <2>2, <2>3 DEF Post, IInv, TypeOK
<1>15. CASE RunHandler
  <2>1. io_' \in Seq(Requests) /\ runs' \in [Requests -> Nat]
    BY <1>15 DEF RunHandler, IInv, TypeOK
  <2> QED
    BY <1>15, <2>1 DEF RunHandler, IInv, TypeOK
<1>16. ASSUME NEW r \in ChunkReads, ReaderReady(r) \/ ReaderStop(r) PROVE TypeOK'
  BY <1>16 DEF ReaderReady, ReaderStop, IInv, TypeOK
<1>17. CASE Terminate
  BY <1>17 DEF Terminate, IInv, TypeOK, WorkerPC
<1>18. CASE UNCHANGED vars
  BY <1>18 DEF vars, IInv, TypeOK
<1> QED
  BY <1>1, <1>2, <1>3, <1>4, <1>5, <1>6, <1>7, <1>8, <1>9, <1>10, <1>11, <1>12, <1>13,
     <1>14, <1>15, <1>16, <1>17, <1>18
  DEF Next, Destructor, Worker, Execute

\* The steps of the worker that perform an operation and do not push.
Performing == ExecuteRead \/ ExecuteFdRead \/ ExecuteWrite \/ ExecuteAppend \/ ExecuteChunk

\* What every step that performs an operation does to the rest of the state.
LEMMA PerformingFrame ==
  ASSUME TypeOK, Pairing, Performing
  PROVE  /\ wpc = "execute" /\ wpc' = "post"
         /\ cur' = [cur EXCEPT !.ec = cur'.ec]
         /\ cur'.code = cur.code /\ cur'.handler = cur.handler /\ cur'.data = cur.data
         /\ cur'.ec \in ErrorCode
         /\ UNCHANGED <<queueVars, eventVars, handlerVars, historyVars, calling,
                        length, reader>>
<1>1. wpc = "execute"
  BY DEF Performing, ExecuteRead, ExecuteFdRead, ExecuteWrite, ExecuteAppend,
         ExecuteChunk, Executing
<1>2. /\ cur.data \in Requests /\ files[PathOf[cur.data]] \in File
      /\ length[cur.data] \in Nat \cup {NotOpen} /\ <<cur.data>> \in Contents
  BY <1>1, HeldIsRequest, BytesType DEF TypeOK
<1>3. ASSUME NEW o \in Outcome, NEW b, Conclude(o, b)
      PROVE  /\ \E ec \in ErrorCode : cur' = [cur EXCEPT !.ec = ec]
             /\ wpc' = "post"
             /\ UNCHANGED <<queueVars, eventVars, handlerVars, historyVars, calling,
                            length, reader>>
  BY <1>3 DEF Conclude, Outcome
<1>4. /\ \E ec \in ErrorCode : cur' = [cur EXCEPT !.ec = ec]
      /\ wpc' = "post"
      /\ UNCHANGED <<queueVars, eventVars, handlerVars, historyVars, calling,
                     length, reader>>
  <2>1. CASE ExecuteRead
    BY <1>2, <1>3, <2>1, ReadFileType DEF ExecuteRead
  <2>2. CASE ExecuteFdRead
    BY <1>2, <1>3, <2>2, FdReadFileType DEF ExecuteFdRead
  <2>3. CASE ExecuteWrite
    BY <1>2, <1>3, <2>3, WriteFileType DEF ExecuteWrite
  <2>4. CASE ExecuteAppend
    BY <1>2, <1>3, <2>4, AppendToFileType DEF ExecuteAppend
  <2>5. CASE ExecuteChunk
    <3>1. ChunkOutcome(reader[cur.data]) \subseteq ErrorCode
      BY DEF ChunkOutcome, ErrorCode
    <3> QED
      BY <2>5, <3>1 DEF ExecuteChunk
  <2> QED
    BY <2>1, <2>2, <2>3, <2>4, <2>5 DEF Performing
<1>5. PICK ec \in ErrorCode : cur' = [cur EXCEPT !.ec = ec]
  BY <1>4
<1>6. cur \in Cur
  BY DEF TypeOK
<1>7. /\ cur'.ec = ec /\ cur'.code = cur.code
      /\ cur'.handler = cur.handler /\ cur'.data = cur.data
  BY <1>5, <1>6 DEF Cur
<1> QED
  BY <1>1, <1>4, <1>5, <1>7

\* No step puts the worker to sleep on work, or on a destructor.
LEMMA WakeupStep == IInv /\ [Next]_vars => NoLostWakeup'
<1> SUFFICES ASSUME IInv, [Next]_vars PROVE NoLostWakeup'
  OBVIOUS
<1> USE DEF queueVars, workerVars, eventVars, handlerVars, fileVars, historyVars
<1>1. NoLostWakeup /\ TypeOK /\ Pairing
  BY DEF IInv, HeldInv
<1>2. ASSUME NEW t \in Threads, NEW r \in Requests, Submit(t, r) PROVE NoLostWakeup'
  <2>1. calling'[t] = r /\ r # None
    BY <1>1, <1>2, FilesystemManagerAssumption DEF Submit, TypeOK
  <2> QED
    BY <1>1, <1>2, <2>1 DEF Submit, NoLostWakeup
<1>3. ASSUME NEW t \in Threads, SetEvent(t) PROVE NoLostWakeup'
  BY <1>1, <1>3 DEF SetEvent, NoLostWakeup
<1>4. CASE Destroy
  BY <1>1, <1>4 DEF Destroy, NoLostWakeup
<1>5. CASE DestroyNotify
  BY <1>1, <1>5 DEF DestroyNotify, NoLostWakeup
<1>6. CASE DestroyJoin
  BY <1>1, <1>6 DEF DestroyJoin, NoLostWakeup
<1>7. CASE CheckDone
  BY <1>1, <1>7 DEF CheckDone, NoLostWakeup
<1>8. CASE WaitEvent \/ ResetEvent
  BY <1>1, <1>8 DEF WaitEvent, ResetEvent, NoLostWakeup
<1>9. CASE CheckEmpty
  BY <1>1, <1>9 DEF CheckEmpty, NoLostWakeup
<1>10. CASE Pop \/ RequeueChunk \/ Post
  BY <1>1, <1>10 DEF Pop, RequeueChunk, Post, NoLostWakeup
<1>11. CASE Performing
  BY <1>1, <1>11, PerformingFrame DEF NoLostWakeup
<1>12. CASE RunHandler
  BY <1>1, <1>12 DEF RunHandler, NoLostWakeup
<1>13. ASSUME NEW r \in ChunkReads, ReaderReady(r) \/ ReaderStop(r) PROVE NoLostWakeup'
  BY <1>1, <1>13 DEF ReaderReady, ReaderStop, NoLostWakeup
<1>15. CASE Terminate
  BY <1>1, <1>15 DEF Terminate, NoLostWakeup
<1>14. CASE UNCHANGED vars
  BY <1>1, <1>14 DEF vars, NoLostWakeup
<1> QED
  BY <1>2, <1>3, <1>4, <1>5, <1>6, <1>7, <1>8, <1>9, <1>10, <1>11, <1>12, <1>13, <1>14, <1>15
  DEF Next, Destructor, Worker, Execute, Performing

\* A push keeps the order strict, and within what has been issued.
LEMMA LogAhead ==
  ASSUME TypeOK, AheadInv, NEW r \in Requests, Log(r)
  PROVE  AheadInv'
BY DEF Log, AheadInv, TypeOK

\* A push puts what it pushes behind everything else and moves nothing else.
LEMMA LogOrder ==
  ASSUME TypeOK, AheadInv, NEW r \in Requests, Log(r)
  PROVE  /\ issued' = issued \cup {r}
         /\ \A a \in issued : a # r => a \in ahead'[r]
         /\ \A a, b \in Requests : a # r /\ a \in ahead[b] => a \in ahead'[b]
BY DEF Log, AheadInv, TypeOK

\* The steps that leave the operations queue and its history alone.
LEMMA QuietSteps ==
  ASSUME IInv, [Next]_vars,
         \A t \in Threads, r \in Requests : ~Submit(t, r), ~Pop, ~RequeueChunk
  PROVE  UNCHANGED <<q_operations, q_data, issued, ahead>>
<1>1. TypeOK /\ Pairing
  BY DEF IInv, HeldInv
<1>2. CASE Performing
  BY <1>1, <1>2, PerformingFrame DEF queueVars, historyVars
<1> QED
  BY <1>2
  DEF Next, Destructor, Worker, Execute, Performing, vars, queueVars, historyVars,
      SetEvent, Destroy, DestroyNotify, DestroyJoin, CheckDone, WaitEvent, ResetEvent,
      CheckEmpty, Post, Terminate, RunHandler, ReaderReady, ReaderStop

\* The order of the pushes stays strict.
LEMMA AheadStep == IInv /\ [Next]_vars => AheadInv'
<1> SUFFICES ASSUME IInv, [Next]_vars PROVE AheadInv'
  OBVIOUS
<1>1. AheadInv /\ TypeOK /\ Pairing
  BY DEF IInv, HeldInv
<1>2. ASSUME NEW t \in Threads, NEW r \in Requests, Submit(t, r) PROVE AheadInv'
  BY <1>1, <1>2, LogAhead DEF Submit
<1>3. CASE RequeueChunk
  <2>1. cur.handler \in Requests
    BY <1>1, <1>3, HeldIsRequest DEF RequeueChunk, Executing
  <2> QED
    BY <1>1, <1>3, <2>1, LogAhead DEF RequeueChunk
<1>4. CASE Pop
  BY <1>1, <1>4 DEF Pop, historyVars, AheadInv
<1> QED
  BY <1>1, <1>2, <1>3, <1>4, QuietSteps DEF AheadInv

\* A request that is not queued may be pushed: the queues stay in line and in
\* step with each other.
LEMMA PushQueue ==
  ASSUME TypeOK, AheadInv, QueueInv, Queued \subseteq issued,
         NEW h \in Requests, h \notin Queued, push(Code[h], h, h), Log(h)
  PROVE  QueueInv'
<1> DEFINE n == Len(q_operations)
           c == DataQueue(Code[h])
<1>1. Code[h] \in OperationCode /\ c \in DataQueues
  BY DataQueueType, FilesystemManagerAssumption
<1>2. /\ q_operations \in Seq(Operation) /\ n \in Nat
      /\ q_data \in [DataQueues -> Seq(Requests)]
  BY DEF TypeOK
<1>3. /\ Len(q_operations') = n + 1
      /\ \A i \in 1..n : q_operations'[i] = q_operations[i]
      /\ q_operations'[n + 1] = [code |-> Code[h], handler |-> h]
      /\ \A i \in 1..n : q_operations[i] \in Operation
  <2>1. [code |-> Code[h], handler |-> h] \in Operation
    BY <1>1 DEF Operation
  <2>2. q_operations' = Append(q_operations, [code |-> Code[h], handler |-> h])
    BY DEF push
  <2> QED
    BY <1>2, <2>1, <2>2, AppendIndices
<1>4. /\ Len(q_data'[c]) = Len(q_data[c]) + 1
      /\ \A k \in 1..Len(q_data[c]) : q_data'[c][k] = q_data[c][k]
      /\ q_data'[c][Len(q_data[c]) + 1] = h
      /\ \A d \in DataQueues : d # c => q_data'[d] = q_data[d]
      /\ \A d \in DataQueues : Len(q_data[d]) \in Nat
  BY <1>1, <1>2 DEF push
<1>5. \A i \in 1..n : /\ q_operations[i].handler \in Requests
                      /\ q_operations[i].handler \in issued
                      /\ q_operations[i].handler # h
  BY <1>3 DEF Queued, Operation
<1>6. /\ \A a \in issued : a # h => a \in ahead'[h]
      /\ \A a, b \in Requests : a # h /\ a \in ahead[b] => a \in ahead'[b]
  BY LogOrder
<1>7. \A i \in 1..n + 1 : i = n + 1 \/ i \in 1..n
  BY <1>2
<1>8. OperationsInLine'
  <2> SUFFICES ASSUME NEW i \in 1..n + 1, NEW j \in 1..n + 1, i < j
               PROVE  q_operations'[i].handler \in ahead'[q_operations'[j].handler]
    BY <1>3 DEF OperationsInLine
  <2>1. i \in 1..n
    BY <1>2
  <2>2. CASE j \in 1..n
    BY <1>3, <1>5, <1>6, <2>1, <2>2 DEF QueueInv, OperationsInLine
  <2>3. CASE j = n + 1
    BY <1>3, <1>5, <1>6, <2>1, <2>3
  <2> QED
    BY <1>7, <2>2, <2>3
<1>9. DataInLine'
  <2>1. \A d \in DataQueues : \A k \in 1..Len(q_data[d]) :
          q_data[d][k] \in issued /\ q_data[d][k] # h /\ q_data[d][k] \in Requests
    BY <1>2, <1>5 DEF QueueInv, DataHaveHandlers
  <2> SUFFICES ASSUME NEW d \in DataQueues,
                      NEW i \in 1..Len(q_data'[d]), NEW j \in 1..Len(q_data'[d]), i < j
               PROVE  q_data'[d][i] \in ahead'[q_data'[d][j]]
    BY DEF DataInLine, InLine
  <2>2. CASE d # c \/ j \in 1..Len(q_data[d])
    <3>1. i \in 1..Len(q_data[d]) /\ j \in 1..Len(q_data[d])
      BY <1>4, <2>2
    <3>2. q_data[d][i] \in ahead[q_data[d][j]]
      BY <3>1 DEF QueueInv, DataInLine, InLine
    <3>3. q_data'[d][i] = q_data[d][i] /\ q_data'[d][j] = q_data[d][j]
      BY <1>4, <3>1
    <3> QED
      BY <1>6, <2>1, <3>1, <3>2, <3>3
  <2>3. CASE d = c /\ j \notin 1..Len(q_data[d])
    <3>1. j = Len(q_data[c]) + 1 /\ i \in 1..Len(q_data[c])
      BY <1>4, <2>3
    <3> QED
      BY <1>1, <1>4, <1>6, <2>1, <2>3, <3>1
  <2> QED
    BY <2>2, <2>3
<1>10. HandlersHaveData'
  <2> SUFFICES ASSUME NEW i \in 1..n + 1
               PROVE  LET d == DataQueue(q_operations'[i].code) IN
                        \E k \in 1..Len(q_data'[d]) : q_data'[d][k] = q_operations'[i].handler
    BY <1>3 DEF HandlersHaveData, DataOf
  <2>1. CASE i \in 1..n
    <3> DEFINE d == DataQueue(q_operations[i].code)
    <3>1. d \in DataQueues
      BY <1>3, <2>1, DataQueueType DEF Operation
    <3>2. PICK k \in 1..Len(q_data[d]) : q_data[d][k] = q_operations[i].handler
      BY <2>1 DEF QueueInv, HandlersHaveData, DataOf
    <3>3. k \in 1..Len(q_data'[d]) /\ q_data'[d][k] = q_data[d][k]
      BY <1>4, <3>1
    <3> QED
      BY <1>3, <2>1, <3>2, <3>3
  <2>2. CASE i = n + 1
    <3>1. Len(q_data[c]) + 1 \in 1..Len(q_data'[c])
      BY <1>1, <1>4
    <3> QED
      BY <1>3, <1>4, <2>2, <3>1
  <2> QED
    BY <1>7, <2>1, <2>2
<1>11. DataHaveHandlers'
  <2> SUFFICES ASSUME NEW d \in DataQueues, NEW k \in 1..Len(q_data'[d])
               PROVE  \E i \in 1..n + 1 : /\ DataQueue(q_operations'[i].code) = d
                                          /\ q_operations'[i].handler = q_data'[d][k]
    BY <1>3 DEF DataHaveHandlers, DataOf
  <2>1. CASE d # c \/ k \in 1..Len(q_data[d])
    <3>1. k \in 1..Len(q_data[d]) /\ q_data'[d][k] = q_data[d][k]
      BY <1>4, <2>1
    <3>2. PICK i \in 1..n : /\ DataQueue(q_operations[i].code) = d
                            /\ q_operations[i].handler = q_data[d][k]
      BY <3>1 DEF QueueInv, DataHaveHandlers, DataOf
    <3>3. i \in 1..n + 1 /\ q_operations'[i] = q_operations[i]
      BY <1>2, <1>3
    <3> QED
      BY <3>1, <3>2, <3>3
  <2>2. CASE d = c /\ k \notin 1..Len(q_data[d])
    <3>1. k = Len(q_data[c]) + 1
      BY <1>4, <2>2
    <3> QED
      BY <1>2, <1>3, <1>4, <2>2, <3>1
  <2> QED
    BY <2>1, <2>2
<1>12. \A i \in 1..n + 1 :
         q_operations'[i].code = Code[q_operations'[i].handler]
  BY <1>3, <1>7 DEF QueueInv
<1>13. q_operations' # <<>>
  BY <1>2, <1>3
<1> QED
  BY <1>3, <1>8, <1>9, <1>10, <1>11, <1>12, <1>13 DEF QueueInv

\* Handler and arguments in front belong to one request, because both queues
\* follow the order of the pushes.
LEMMA FrontsMatch ==
  ASSUME TypeOK, AheadInv, QueueInv, wpc = "pop"
  PROVE  /\ Head(q_operations) \in Operation
         /\ Head(q_operations).code = Code[Head(q_operations).handler]
         /\ LET d == DataQueue(Head(q_operations).code) IN
              Head(q_data[d]) = Head(q_operations).handler
<1> DEFINE d == DataQueue(Head(q_operations).code)
           h == Head(q_operations).handler
<1>1. /\ q_operations # <<>> /\ Head(q_operations) \in Operation
      /\ d \in DataQueues /\ q_data[d] # <<>>
  BY PopType
<1>2. /\ Head(q_operations) = q_operations[1] /\ 1 \in 1..Len(q_operations)
      /\ q_data[d] \in Seq(Requests)
      /\ Head(q_data[d]) = q_data[d][1] /\ 1 \in 1..Len(q_data[d])
  BY <1>1, TailIndices DEF TypeOK
<1>3. PICK k \in 1..Len(q_data[d]) : q_data[d][k] = h
  BY <1>2 DEF QueueInv, HandlersHaveData, DataOf
<1>4. PICK i \in 1..Len(q_operations) : q_operations[i].handler = q_data[d][1]
  BY <1>1, <1>2 DEF QueueInv, DataHaveHandlers
<1>5. k = 1 \/ q_data[d][1] \in ahead[h]
  BY <1>1, <1>2, <1>3 DEF QueueInv, DataInLine, InLine
<1>6. i = 1 \/ h \in ahead[q_data[d][1]]
  BY <1>2, <1>4 DEF QueueInv, OperationsInLine
<1>7. h \in Requests /\ q_data[d][1] \in Requests
  BY <1>1, <1>2 DEF Operation
<1>8. q_data[d][1] = h
  BY <1>2, <1>3, <1>4, <1>5, <1>6, <1>7 DEF AheadInv
<1> QED
  BY <1>1, <1>2, <1>8 DEF QueueInv

\* A pop leaves the queues in line and in step with each other.
LEMMA PopQueue ==
  ASSUME TypeOK, AheadInv, QueueInv, wpc = "pop", pop, wpc' # "pop", UNCHANGED ahead
  PROVE  QueueInv'
<1> DEFINE d == DataQueue(Head(q_operations).code)
           h == Head(q_operations).handler
           n == Len(q_operations)
<1>1. /\ q_operations # <<>> /\ Head(q_operations) \in Operation
      /\ d \in DataQueues /\ q_data[d] # <<>> /\ Head(q_data[d]) = h
      /\ q_operations \in Seq(Operation) /\ q_data \in [DataQueues -> Seq(Requests)]
      /\ n \in Nat /\ h \in Requests
  <2>1. /\ q_operations # <<>> /\ Head(q_operations) \in Operation
        /\ d \in DataQueues /\ q_data[d] # <<>>
    BY PopType
  <2>2. Head(q_data[d]) = h
    BY FrontsMatch
  <2> QED
    BY <2>1, <2>2 DEF TypeOK, Operation
<1>2. q_operations' = Tail(q_operations) /\ q_data' = [q_data EXCEPT ![d] = Tail(@)]
  BY DEF pop
<1>3. /\ Len(q_operations') = n - 1 /\ 1 \in 1..n /\ q_operations[1] = Head(q_operations)
      /\ \A i \in 1..Len(q_operations') :
           i + 1 \in 1..n /\ q_operations'[i] = q_operations[i + 1]
  BY <1>1, <1>2, TailIndices
<1>4. /\ q_data'[d] = Tail(q_data[d])
      /\ \A e \in DataQueues : e # d => q_data'[e] = q_data[e]
      /\ \A e \in DataQueues : Len(q_data[e]) \in Nat /\ q_data[e] \in Seq(Requests)
  BY <1>1, <1>2
<1>5. /\ Len(q_data'[d]) = Len(q_data[d]) - 1 /\ 1 \in 1..Len(q_data[d])
      /\ q_data[d][1] = h
      /\ \A k \in 1..Len(q_data'[d]) :
           k + 1 \in 1..Len(q_data[d]) /\ q_data'[d][k] = q_data[d][k + 1]
  BY <1>1, <1>4, TailIndices
<1>6. \A i \in 2..n : q_operations[i].handler # h
  <2> SUFFICES ASSUME NEW i \in 2..n, q_operations[i].handler = h PROVE FALSE
    OBVIOUS
  <2>1. q_operations[1].handler \in ahead[q_operations[i].handler]
    BY <1>3 DEF QueueInv, OperationsInLine
  <2> QED
    BY <1>1, <1>3, <2>1 DEF AheadInv
<1>7. \A k \in 2..Len(q_data[d]) : q_data[d][k] # h
  <2> SUFFICES ASSUME NEW k \in 2..Len(q_data[d]), q_data[d][k] = h PROVE FALSE
    OBVIOUS
  <2>1. q_data[d][1] \in ahead[q_data[d][k]]
    BY <1>1, <1>4, <1>5 DEF QueueInv, DataInLine, InLine
  <2> QED
    BY <1>1, <1>5, <2>1 DEF AheadInv
<1>8. OperationsInLine'
  <2> SUFFICES ASSUME NEW i \in 1..Len(q_operations'), NEW j \in 1..Len(q_operations'),
                      i < j
               PROVE  q_operations'[i].handler \in ahead[q_operations'[j].handler]
    BY DEF OperationsInLine
  <2>1. q_operations[i + 1].handler \in ahead[q_operations[j + 1].handler]
    BY <1>3 DEF QueueInv, OperationsInLine
  <2> QED
    BY <1>3, <2>1
<1>9. DataInLine'
  <2> SUFFICES ASSUME NEW e \in DataQueues,
                      NEW i \in 1..Len(q_data'[e]), NEW j \in 1..Len(q_data'[e]), i < j
               PROVE  q_data'[e][i] \in ahead[q_data'[e][j]]
    BY DEF DataInLine, InLine
  <2>1. CASE e = d
    <3>1. q_data[d][i + 1] \in ahead[q_data[d][j + 1]]
      BY <1>1, <1>5, <2>1 DEF QueueInv, DataInLine, InLine
    <3> QED
      BY <1>5, <2>1, <3>1
  <2>2. CASE e # d
    BY <1>4, <2>2 DEF QueueInv, DataInLine, InLine
  <2> QED
    BY <2>1, <2>2
<1>10. HandlersHaveData'
  <2> SUFFICES ASSUME NEW i \in 1..Len(q_operations')
               PROVE  LET e == DataQueue(q_operations'[i].code) IN
                        \E k \in 1..Len(q_data'[e]) : q_data'[e][k] = q_operations'[i].handler
    BY DEF HandlersHaveData, DataOf
  <2> DEFINE e == DataQueue(q_operations[i + 1].code)
  <2>1. i + 1 \in 2..n /\ q_operations'[i] = q_operations[i + 1]
        /\ q_operations[i + 1] \in Operation
    BY <1>1, <1>3
  <2>2. e \in DataQueues
    BY <2>1, DataQueueType DEF Operation
  <2>3. PICK k \in 1..Len(q_data[e]) : q_data[e][k] = q_operations[i + 1].handler
    BY <1>3 DEF QueueInv, HandlersHaveData, DataOf
  <2>4. CASE e = d
    <3>1. k # 1
      BY <1>5, <1>6, <2>1, <2>3, <2>4
    <3>2. k - 1 \in 1..Len(q_data'[d]) /\ q_data'[d][k - 1] = q_data[d][k]
      BY <1>1, <1>4, <1>5, <2>4, <3>1
    <3> QED
      BY <2>1, <2>3, <2>4, <3>2
  <2>5. CASE e # d
    BY <1>4, <2>1, <2>2, <2>3, <2>5
  <2> QED
    BY <2>4, <2>5
<1>11. DataHaveHandlers'
  <2> SUFFICES ASSUME NEW e \in DataQueues, NEW k \in 1..Len(q_data'[e])
               PROVE  \E i \in 1..Len(q_operations') :
                        /\ DataQueue(q_operations'[i].code) = e
                        /\ q_operations'[i].handler = q_data'[e][k]
    BY DEF DataHaveHandlers, DataOf
  <2>1. \E i \in 2..n : /\ DataQueue(q_operations[i].code) = e
                        /\ q_operations[i].handler = q_data'[e][k]
    <3>1. CASE e = d
      <4>1. k + 1 \in 2..Len(q_data[d]) /\ q_data'[d][k] = q_data[d][k + 1]
        BY <1>1, <1>4, <1>5, <3>1
      <4>2. PICK i \in 1..n : /\ DataQueue(q_operations[i].code) = d
                              /\ q_operations[i].handler = q_data[d][k + 1]
        BY <1>1, <1>5, <3>1 DEF QueueInv, DataHaveHandlers, DataOf
      <4>3. i # 1
        BY <1>3, <1>7, <4>1, <4>2
      <4> QED
        BY <1>1, <3>1, <4>1, <4>2, <4>3
    <3>2. CASE e # d
      <4>1. PICK i \in 1..n : /\ DataQueue(q_operations[i].code) = e
                              /\ q_operations[i].handler = q_data[e][k]
        BY <1>4, <3>2 DEF QueueInv, DataHaveHandlers, DataOf
      <4>2. i # 1
        BY <1>3, <3>2, <4>1
      <4> QED
        BY <1>1, <1>4, <3>2, <4>1, <4>2
    <3> QED
      BY <3>1, <3>2
  <2>2. PICK i \in 2..n : /\ DataQueue(q_operations[i].code) = e
                          /\ q_operations[i].handler = q_data'[e][k]
    BY <2>1
  <2>3. i - 1 \in 1..Len(q_operations') /\ q_operations'[i - 1] = q_operations[i]
    BY <1>1, <1>3
  <2> QED
    BY <2>2, <2>3
<1>12. \A i \in 1..Len(q_operations') :
         q_operations'[i].code = Code[q_operations'[i].handler]
  BY <1>3 DEF QueueInv
<1> QED
  BY <1>8, <1>9, <1>10, <1>11, <1>12 DEF QueueInv

\* What the worker holds is not queued.
LEMMA HeldNotQueued ==
  ASSUME TypeOK, AheadInv, StageInv, NEW h \in Held, h \in Requests
  PROVE  h \notin Queued
BY DEF StageInv, AheadInv

\* Every step keeps the queues in line and in step with each other.
LEMMA QueueStep == IInv /\ [Next]_vars => QueueInv'
<1> SUFFICES ASSUME IInv, [Next]_vars PROVE QueueInv'
  OBVIOUS
<1>1. TypeOK /\ AheadInv /\ QueueInv /\ Pairing /\ Queued \subseteq issued
  BY DEF IInv, HeldInv, StageInv
<1>2. ASSUME NEW t \in Threads, NEW r \in Requests, Submit(t, r) PROVE QueueInv'
  BY <1>1, <1>2, PushQueue DEF Submit
<1>3. CASE RequeueChunk
  <2>1. cur.handler \in Requests /\ cur.data = cur.handler /\ cur.code = Code[cur.handler]
    BY <1>1, <1>3 DEF RequeueChunk, Executing, Pairing
  <2>2. cur.handler \in Held
    BY <2>1, FilesystemManagerAssumption DEF Held
  <2>3. cur.handler \notin Queued
    BY <2>1, <2>2, HeldNotQueued DEF IInv
  <2>4. push(Code[cur.handler], cur.handler, cur.handler) /\ Log(cur.handler)
    BY <1>3, <2>1 DEF RequeueChunk
  <2> QED
    BY <1>1, <2>1, <2>3, <2>4, PushQueue
<1>4. CASE Pop
  BY <1>1, <1>4, PopQueue DEF Pop, historyVars
<1>5. CASE CheckEmpty
  <2>1. UNCHANGED <<q_operations, q_data, ahead>>
    BY <1>5 DEF CheckEmpty, queueVars, historyVars
  <2>2. wpc' = "pop" => q_operations' # <<>>
    BY <1>5, <2>1 DEF CheckEmpty
  <2> QED
    BY <1>1, <2>1, <2>2
    DEF QueueInv, OperationsInLine, DataInLine, InLine, HandlersHaveData, DataHaveHandlers,
        DataOf
<1>6. ASSUME \A t \in Threads, r \in Requests : ~Submit(t, r),
             ~RequeueChunk, ~Pop, ~CheckEmpty
      PROVE  QueueInv'
  <2>1. UNCHANGED <<q_operations, q_data, ahead>>
    BY <1>6, QuietSteps
  <2>2. wpc' = "pop" => wpc = "pop"
    <3>1. CASE Performing
      BY <1>1, <3>1, PerformingFrame
    <3> QED
      BY <1>6, <3>1
      DEF Next, Destructor, Worker, Execute, Performing, vars, workerVars,
          SetEvent, Destroy, DestroyNotify, DestroyJoin, CheckDone, WaitEvent,
          ResetEvent, Post, Terminate, RunHandler, ReaderReady, ReaderStop
  <2> QED
    BY <1>1, <2>1, <2>2
    DEF QueueInv, OperationsInLine, DataInLine, InLine, HandlersHaveData, DataHaveHandlers,
        DataOf
<1> QED
  BY <1>2, <1>3, <1>4, <1>5, <1>6

\* What the worker holds stays the call it popped, with an outcome once posted.
LEMMA HeldStep == IInv /\ [Next]_vars => HeldInv'
<1> SUFFICES ASSUME IInv, [Next]_vars PROVE HeldInv'
  OBVIOUS
<1>1. TypeOK /\ AheadInv /\ QueueInv /\ HeldInv /\ Pairing
  BY DEF IInv, HeldInv
<1>2. CASE Pop
  <2>1. /\ Head(q_operations) \in Operation
        /\ Head(q_operations).code = Code[Head(q_operations).handler]
        /\ LET d == DataQueue(Head(q_operations).code) IN
             Head(q_data[d]) = Head(q_operations).handler
    BY <1>1, <1>2, FrontsMatch DEF Pop
  <2> QED
    BY <1>2, <2>1 DEF Pop, pop, HeldInv, Pairing, Operation
<1>3. CASE Performing
  <2>1. /\ wpc = "execute" /\ wpc' = "post"
        /\ cur'.code = cur.code /\ cur'.handler = cur.handler /\ cur'.data = cur.data
        /\ cur'.ec \in ErrorCode
    BY <1>1, <1>3, PerformingFrame
  <2>2. cur'.ec # None
    BY <2>1, FilesystemManagerAssumption
  <2> QED
    BY <1>1, <2>1, <2>2 DEF HeldInv, Pairing
<1>4. CASE RequeueChunk \/ Post
  BY <1>4 DEF RequeueChunk, Post, Idle, HeldInv, Pairing
<1>5. CASE CheckDone \/ WaitEvent \/ ResetEvent \/ CheckEmpty
  BY <1>1, <1>5
  DEF CheckDone, WaitEvent, ResetEvent, CheckEmpty, HeldInv, Pairing
<1>6. ASSUME ~Worker PROVE HeldInv'
  <2>1. UNCHANGED <<wpc, cur>>
    BY <1>6
    DEF Next, Destructor, vars, workerVars, Submit, SetEvent, Destroy, DestroyNotify,
        DestroyJoin, RunHandler, ReaderReady, ReaderStop
  <2> QED
    BY <1>1, <2>1 DEF HeldInv, Pairing
<1>7. CASE Terminate
  BY <1>1, <1>7 DEF Terminate, HeldInv, Pairing
<1> QED
  BY <1>2, <1>3, <1>4, <1>5, <1>6, <1>7 DEF Worker, Execute, Performing

\* The stages depend on nothing but the queues, what is held and the counts.
LEMMA StageFrame ==
  ASSUME StageInv, UNCHANGED <<q_operations, io_, runs, issued, ahead>>,
         cur'.handler = cur.handler
  PROVE  StageInv'
BY DEF StageInv, Queued, Held, Posted, Answered, InLine

\* Every step keeps the stages in line.
LEMMA StageStep == IInv /\ [Next]_vars => StageInv'
<1> SUFFICES ASSUME IInv, [Next]_vars PROVE StageInv'
  OBVIOUS
<1>1. TypeOK /\ AheadInv /\ QueueInv /\ HeldInv /\ Pairing /\ StageInv
  BY DEF IInv, HeldInv
<1>2. /\ q_operations \in Seq(Operation) /\ io_ \in Seq(Requests)
      /\ runs \in [Requests -> Nat] /\ cur \in Cur
      /\ Answered \subseteq Requests /\ Posted \subseteq Requests
      /\ Held \subseteq Requests /\ Queued \subseteq Requests
  <2>0. \A i \in 1..Len(q_operations) : q_operations[i] \in Operation
    BY <1>1 DEF TypeOK
  <2>1. \A i \in 1..Len(q_operations) : q_operations[i].handler \in Requests
    BY <2>0 DEF Operation
  <2>2. \A i \in 1..Len(io_) : io_[i] \in Requests
    BY <1>1 DEF TypeOK
  <2>3. cur.handler \in Requests \cup {None}
    BY <1>1 DEF TypeOK, Cur
  <2>4. Held \subseteq Requests
    BY <2>3 DEF Held
  <2>5. Posted \subseteq Requests
    BY <2>2 DEF Posted
  <2>6. Queued \subseteq Requests
    BY <2>1 DEF Queued
  <2> QED
    BY <1>1, <2>4, <2>5, <2>6 DEF TypeOK, Answered
<1>3. ASSUME NEW r \in Requests, push(Code[r], r, r), Log(r),
             r \notin Answered \cup Posted \cup Queued,
             issued' = issued \cup {r}, UNCHANGED <<io_, runs>>,
             \/ Held' = Held /\ r \notin Held
             \/ Held' = {} /\ Held = {r}
      PROVE  StageInv'
  <2>1. [code |-> Code[r], handler |-> r] \in Operation
    BY FilesystemManagerAssumption DEF Operation
  <2>2. Queued' = Queued \cup {r}
    <3>1. /\ Len(q_operations') = Len(q_operations) + 1
          /\ \A i \in 1..Len(q_operations) : q_operations'[i] = q_operations[i]
          /\ q_operations'[Len(q_operations) + 1] = [code |-> Code[r], handler |-> r]
      BY <1>2, <1>3, <2>1, AppendIndices DEF push
    <3>2. Len(q_operations) \in Nat
      BY <1>2
    <3> QED
      BY <3>1, <3>2 DEF Queued
  <2>3. Posted' = Posted /\ Answered' = Answered
    BY <1>3 DEF Posted, Answered
  <2>4. /\ \A a \in issued : a # r => a \in ahead'[r]
        /\ \A a, b \in Requests : a # r /\ a \in ahead[b] => a \in ahead'[b]
    BY <1>1, <1>3, LogOrder
  <2>5. InLine(io_)'
    <3>1. \A i \in 1..Len(io_) : io_[i] \in Posted /\ io_[i] # r
      BY <1>3 DEF Posted
    <3> QED
      BY <1>1, <1>2, <1>3, <2>4, <3>1 DEF StageInv, InLine
  <2>6. issued' = Answered' \cup Posted' \cup Held' \cup Queued'
    BY <1>1, <1>3, <2>2, <2>3 DEF StageInv
  <2>7. \A a \in Answered' : \A b \in Posted' \cup Held' \cup Queued' : a \in ahead'[b]
    BY <1>1, <1>2, <1>3, <2>2, <2>3, <2>4 DEF StageInv
  <2>8. \A a \in Posted' : \A b \in Held' \cup Queued' : a \in ahead'[b]
    BY <1>1, <1>2, <1>3, <2>2, <2>3, <2>4 DEF StageInv
  <2>9. \A a \in Held' : \A b \in Queued' : a \in ahead'[b]
    BY <1>1, <1>2, <1>3, <2>2, <2>3, <2>4 DEF StageInv
  <2> QED
    BY <1>1, <1>3, <2>5, <2>6, <2>7, <2>8, <2>9 DEF StageInv
<1>4. ASSUME NEW t \in Threads, NEW r \in Requests, Submit(t, r) PROVE StageInv'
  <2>1. push(Code[r], r, r) /\ Log(r) /\ UNCHANGED <<io_, runs, cur>> /\ r \notin issued
    BY <1>4 DEF Submit, handlerVars, workerVars
  <2>2. issued' = issued \cup {r}
    BY <2>1 DEF Log
  <2>3. Held' = Held
    BY <2>1 DEF Held
  <2>4. r \notin Answered \cup Posted \cup Held \cup Queued
    BY <1>1, <2>1 DEF StageInv
  <2> QED
    BY <1>3, <2>1, <2>2, <2>3, <2>4
<1>5. CASE RequeueChunk
  <2> DEFINE r == cur.handler
  <2>1. r \in Requests /\ cur.data = r /\ cur.code = Code[r] /\ r # None
    BY <1>1, <1>5, FilesystemManagerAssumption DEF RequeueChunk, Executing, Pairing
  <2>2. push(Code[r], r, r) /\ Log(r) /\ UNCHANGED <<io_, runs>>
    BY <1>5, <2>1 DEF RequeueChunk, handlerVars
  <2>3. Held = {r} /\ Held' = {}
    BY <1>5, <2>1 DEF RequeueChunk, Held, Idle
  <2>4. r \notin Answered \cup Posted \cup Queued
    BY <1>1, <2>1, <2>3 DEF StageInv, AheadInv
  <2>5. issued' = issued \cup {r}
    BY <2>2 DEF Log
  <2> QED
    BY <1>3, <2>1, <2>2, <2>3, <2>4, <2>5
<1>6. CASE Pop
  <2> DEFINE h == Head(q_operations).handler
  <2>1. q_operations # <<>> /\ q_operations' = Tail(q_operations)
    BY <1>1, <1>6 DEF Pop, pop, QueueInv
  <2>2. /\ Len(q_operations') = Len(q_operations) - 1 /\ 1 \in 1..Len(q_operations)
        /\ Head(q_operations) = q_operations[1] /\ q_operations[1] \in Operation
        /\ \A i \in 1..Len(q_operations') :
             i + 1 \in 1..Len(q_operations) /\ q_operations'[i] = q_operations[i + 1]
    BY <1>2, <2>1, TailIndices
  <2>3. h \in Requests /\ h # None /\ h \in Queued
    BY <2>2, FilesystemManagerAssumption DEF Operation, Queued
  <2>4. Queued = Queued' \cup {h} /\ \A b \in Queued' : h \in ahead[b]
    <3>1. Queued \subseteq Queued' \cup {h}
      <4> SUFFICES ASSUME NEW i \in 1..Len(q_operations), i # 1
                   PROVE  q_operations[i].handler \in Queued'
        BY <2>2 DEF Queued
      <4>1. i - 1 \in 1..Len(q_operations') /\ q_operations'[i - 1] = q_operations[i]
        BY <1>2, <2>2
      <4> QED
        BY <4>1 DEF Queued
    <3>2. Queued' \subseteq Queued
      BY <2>2 DEF Queued
    <3>3. \A i \in 1..Len(q_operations') : h \in ahead[q_operations'[i].handler]
      BY <1>1, <1>2, <2>2 DEF QueueInv, OperationsInLine
    <3> QED
      BY <2>3, <3>1, <3>2, <3>3 DEF Queued
  <2>5. Held = {} /\ Held' = {h}
    <3>1. cur.handler = None
      BY <1>1, <1>6 DEF Pop, HeldInv
    <3>2. cur'.handler = h
      BY <1>6 DEF Pop, pop
    <3> QED
      BY <2>3, <3>1, <3>2 DEF Held
  <2>6. UNCHANGED <<io_, runs, issued, ahead>>
    BY <1>6 DEF Pop, handlerVars, historyVars
  <2>7. Posted' = Posted /\ Answered' = Answered /\ (InLine(io_)' <=> InLine(io_))
    BY <2>6 DEF Posted, Answered, InLine
  <2> QED
    BY <1>1, <2>3, <2>4, <2>5, <2>6, <2>7 DEF StageInv
<1>7. CASE Post
  <2> DEFINE h == cur.handler
  <2>1. h \in Requests /\ h # None
    BY <1>1, <1>7, FilesystemManagerAssumption DEF Post, Pairing
  <2>2. io_' = Append(io_, h) /\ UNCHANGED <<q_operations, runs, issued, ahead>>
    BY <1>7 DEF Post, queueVars, historyVars
  <2>3. /\ Len(io_') = Len(io_) + 1 /\ Len(io_) \in Nat
        /\ \A i \in 1..Len(io_) : io_'[i] = io_[i]
        /\ io_'[Len(io_) + 1] = h
    BY <1>2, <2>1, <2>2, AppendIndices
  <2>4. Posted' = Posted \cup {h} /\ Queued' = Queued /\ Answered' = Answered
    BY <2>2, <2>3 DEF Posted, Queued, Answered
  <2>5. Held = {h} /\ Held' = {}
    BY <1>7, <2>1 DEF Post, Idle, Held
  <2>6. InLine(io_)'
    <3> SUFFICES ASSUME NEW i \in 1..Len(io_'), NEW j \in 1..Len(io_'), i < j
                 PROVE  io_'[i] \in ahead[io_'[j]]
      BY <2>2 DEF InLine
    <3>1. i \in 1..Len(io_) /\ io_'[i] \in Posted
      BY <2>3 DEF Posted
    <3>2. CASE j \in 1..Len(io_)
      BY <1>1, <2>3, <3>1, <3>2 DEF StageInv, InLine
    <3>3. CASE j = Len(io_) + 1
      BY <1>1, <2>3, <2>5, <3>1, <3>3 DEF StageInv
    <3> QED
      BY <2>3, <3>2, <3>3
  <2> QED
    BY <1>1, <2>2, <2>4, <2>5, <2>6 DEF StageInv
<1>8. CASE RunHandler
  <2> DEFINE h == Head(io_)
  <2>1. /\ io_ # <<>> /\ io_' = Tail(io_) /\ runs' = [runs EXCEPT ![h] = @ + 1]
        /\ UNCHANGED <<q_operations, cur, issued, ahead>>
    BY <1>8 DEF RunHandler, queueVars, workerVars, historyVars
  <2>2. /\ Len(io_') = Len(io_) - 1 /\ 1 \in 1..Len(io_)
        /\ h = io_[1] /\ io_[1] \in Requests
        /\ \A i \in 1..Len(io_') : i + 1 \in 1..Len(io_) /\ io_'[i] = io_[i + 1]
    BY <1>2, <2>1, TailIndices
  <2>3. Posted = Posted' \cup {h} /\ \A b \in Posted' : h \in ahead[b]
    <3>1. Posted \subseteq Posted' \cup {h}
      <4> SUFFICES ASSUME NEW i \in 1..Len(io_), i # 1 PROVE io_[i] \in Posted'
        BY <2>2 DEF Posted
      <4>1. i - 1 \in 1..Len(io_') /\ io_'[i - 1] = io_[i]
        BY <1>2, <2>2
      <4> QED
        BY <4>1 DEF Posted
    <3>2. Posted' \subseteq Posted /\ h \in Posted
      BY <2>2 DEF Posted
    <3>3. \A i \in 1..Len(io_') : h \in ahead[io_'[i]]
      BY <1>1, <1>2, <2>2 DEF StageInv, InLine
    <3> QED
      BY <3>1, <3>2, <3>3 DEF Posted
  <2>4. h \notin Answered /\ h \in Requests
    BY <1>1, <2>2, <2>3 DEF StageInv, AheadInv
  <2>5. runs[h] = 0
    BY <1>2, <2>4 DEF Answered
  <2>6. Answered' = Answered \cup {h} /\ \A r \in Requests : runs'[r] <= 1
    BY <1>1, <1>2, <2>1, <2>4, <2>5 DEF Answered, StageInv
  <2>7. Held' = Held /\ Queued' = Queued
    BY <2>1 DEF Held, Queued
  <2>8. InLine(io_)'
    BY <1>1, <1>2, <2>1, <2>2 DEF StageInv, InLine
  <2> QED
    BY <1>1, <2>1, <2>3, <2>6, <2>7, <2>8 DEF StageInv
<1>9. CASE Performing
  BY <1>1, <1>9, PerformingFrame, StageFrame DEF queueVars, handlerVars, historyVars
<1>10. ASSUME \A t \in Threads, r \in Requests : ~Submit(t, r),
              ~RequeueChunk, ~Pop, ~Post, ~RunHandler, ~Performing
       PROVE  StageInv'
  <2>1. UNCHANGED <<q_operations, issued, ahead>>
    BY <1>10, QuietSteps
  <2>2. UNCHANGED <<io_, runs, cur>>
    BY <1>10
    DEF Next, Destructor, Worker, Execute, Performing, vars, workerVars, handlerVars,
        SetEvent, Destroy, DestroyNotify, DestroyJoin, CheckDone, WaitEvent,
        ResetEvent, CheckEmpty, Terminate, ReaderReady, ReaderStop
  <2> QED
    BY <1>1, <2>1, <2>2, StageFrame
<1> QED
  BY <1>4, <1>5, <1>6, <1>7, <1>8, <1>9, <1>10

\* A post adds the handler it holds to those posted.
LEMMA PostEffect ==
  ASSUME TypeOK, HeldInv, Post
  PROVE  /\ cur.handler \in Requests /\ cur.ec # None
         /\ Posted' = Posted \cup {cur.handler}
         /\ bound' = [bound EXCEPT ![cur.handler] = cur.ec]
         /\ Answered' = Answered
<1>1. cur.handler \in Requests /\ cur.ec # None
  BY DEF Post, HeldInv, Pairing
<1>2. /\ Len(io_') = Len(io_) + 1 /\ Len(io_) \in Nat
      /\ \A i \in 1..Len(io_) : io_'[i] = io_[i]
      /\ io_'[Len(io_) + 1] = cur.handler
  BY <1>1, AppendIndices DEF Post, TypeOK
<1> QED
  BY <1>1, <1>2 DEF Post, Posted, Answered

\* The handler that runs passes from those posted to those answered.
LEMMA RunEffect ==
  ASSUME TypeOK, AheadInv, StageInv, RunHandler
  PROVE  /\ Head(io_) \in Requests /\ Head(io_) \in Posted /\ Head(io_) \notin Answered
         /\ Posted = Posted' \cup {Head(io_)}
         /\ Answered' = Answered \cup {Head(io_)}
<1> DEFINE h == Head(io_)
<1>1. io_ # <<>> /\ io_' = Tail(io_) /\ runs' = [runs EXCEPT ![h] = @ + 1]
  BY DEF RunHandler
<1>2. io_ \in Seq(Requests) /\ runs \in [Requests -> Nat]
  BY DEF TypeOK
<1>3. /\ Len(io_') = Len(io_) - 1 /\ 1 \in 1..Len(io_) /\ Len(io_) \in Nat
      /\ h = io_[1] /\ io_[1] \in Requests
      /\ \A i \in 1..Len(io_') : i + 1 \in 1..Len(io_) /\ io_'[i] = io_[i + 1]
  BY <1>1, <1>2, TailIndices
<1>4. Posted \subseteq Posted' \cup {h}
  <2> SUFFICES ASSUME NEW i \in 1..Len(io_), i # 1 PROVE io_[i] \in Posted'
    BY <1>3 DEF Posted
  <2>1. i - 1 \in 1..Len(io_') /\ io_'[i - 1] = io_[i]
    BY <1>3
  <2> QED
    BY <2>1 DEF Posted
<1>5. Posted' \subseteq Posted /\ h \in Posted
  BY <1>3 DEF Posted
<1>6. h \notin Answered
  BY <1>3, <1>5 DEF StageInv, AheadInv
<1>7. Answered' = Answered \cup {h}
  BY <1>1, <1>2, <1>3 DEF Answered
<1> QED
  BY <1>3, <1>4, <1>5, <1>6, <1>7

\* Every step binds a code to a handler exactly when it posts it.
LEMMA BoundStep == IInv /\ [Next]_vars => BoundInv'
<1> SUFFICES ASSUME IInv, [Next]_vars PROVE BoundInv'
  OBVIOUS
<1>1. TypeOK /\ AheadInv /\ HeldInv /\ Pairing /\ StageInv /\ BoundInv
  BY DEF IInv, HeldInv
<1>2. CASE Post
  <2>1. bound \in [Requests -> ErrorCode \cup {None}]
    BY <1>1 DEF TypeOK
  <2> QED
    BY <1>1, <1>2, <2>1, PostEffect DEF BoundInv
<1>3. CASE RunHandler
  <2>1. bound' = bound
    BY <1>3 DEF RunHandler
  <2> QED
    BY <1>1, <1>3, <2>1, RunEffect DEF BoundInv
<1>4. ASSUME ~Post, ~RunHandler PROVE BoundInv'
  <2>1. CASE Performing
    BY <1>1, <2>1, PerformingFrame DEF handlerVars, BoundInv, Posted, Answered
  <2>2. ASSUME ~Performing PROVE UNCHANGED <<io_, runs, bound>>
    BY <1>4, <2>2
    DEF Next, Destructor, Worker, Execute, Performing, vars, handlerVars, Submit, Pop,
        SetEvent, Destroy, DestroyNotify, DestroyJoin, CheckDone, WaitEvent, RequeueChunk,
        ResetEvent, CheckEmpty, Terminate, ReaderReady, ReaderStop
  <2> QED
    BY <1>1, <2>1, <2>2 DEF BoundInv, Posted, Answered
<1> QED
  BY <1>2, <1>3, <1>4

-----------------------------------------------------------------------------
(* The invariant holds from the start, and what it implies.                 *)

\* A new manager satisfies the invariant.
LEMMA InitInv == Init => IInv
<1> SUFFICES ASSUME Init PROVE IInv
  OBVIOUS
<1>1. TypeOK
  <2>1. cur \in Cur /\ wpc \in WorkerPC
    BY DEF Init, Idle, Cur, WorkerPC
  <2>2. <<>> \in Contents
    BY DEF Contents
  <2>3. files \in [Paths -> File]
    BY FilesystemManagerAssumption DEF Init
  <2>4. /\ q_operations \in Seq(Operation) /\ io_ \in Seq(Requests)
        /\ q_data \in [DataQueues -> Seq(Requests)]
    BY DEF Init
  <2>5. /\ calling \in [Threads -> Requests \cup {None}]
        /\ bound \in [Requests -> ErrorCode \cup {None}]
        /\ runs \in [Requests -> Nat] /\ length \in [Requests -> Nat \cup {NotOpen}]
        /\ reader \in [Requests -> {"not_ready", "ready", "stopped"}]
    BY DEF Init
  <2>6. /\ issued \in SUBSET Requests /\ ahead \in [Requests -> SUBSET Requests]
        /\ buf \in [Requests -> Contents]
    BY <2>2 DEF Init
  <2>7. available_ \in BOOLEAN /\ done_ \in BOOLEAN
        /\ dtor \in {"alive", "notify", "join", "destroyed"}
    BY DEF Init
  <2> QED
    BY <2>1, <2>3, <2>4, <2>5, <2>6, <2>7 DEF TypeOK
<1>2. NoLostWakeup /\ AheadInv
  BY DEF Init, NoLostWakeup, AheadInv
<1>3. QueueInv
  BY DEF Init, QueueInv, OperationsInLine, DataInLine, InLine, HandlersHaveData,
         DataHaveHandlers
<1>4. HeldInv
  BY DEF Init, HeldInv, Pairing, Idle
<1>5. StageInv
  <2>1. Answered = {} /\ Posted = {} /\ Held = {} /\ Queued = {}
    BY DEF Init, Answered, Posted, Held, Queued, Idle
  <2> QED
    BY <2>1 DEF Init, StageInv, InLine
<1>6. BoundInv
  BY DEF Init, BoundInv, Posted, Answered
<1> QED
  BY <1>1, <1>2, <1>3, <1>4, <1>5, <1>6 DEF IInv

\* The inductive invariant: in every state the queues follow the order of the
\* pushes and the worker is awake, or about to be woken, while they hold work.
THEOREM Invariance == Spec => []IInv
<1>1. IInv /\ [Next]_vars => IInv'
  BY TypeStep, WakeupStep, AheadStep, QueueStep, HeldStep, StageStep, BoundStep DEF IInv
<1> QED
  BY InitInv, <1>1, PTL DEF Spec

\* Type correctness of FilesystemManager.
THEOREM TypeCorrect == Spec => []TypeOK
<1>1. IInv => TypeOK
  BY DEF IInv
<1> QED
  BY Invariance, <1>1, PTL

\* A request that was pushed never waits for a worker asleep: async_* and the
\* destructor against process_queue.
THEOREM WakeupIsNeverLost == Spec => []NoLostWakeup
<1>1. IInv => NoLostWakeup
  BY DEF IInv
<1> QED
  BY Invariance, <1>1, PTL

\* perform_next_operation always pairs a handler with the arguments of its own
\* call, though they wait in separate queues.
THEOREM HandlersGetTheirArguments == Spec => []Pairing
<1>1. IInv => Pairing
  BY DEF IInv, HeldInv
<1> QED
  BY Invariance, <1>1, PTL

\* No completion handler runs twice.
THEOREM HandlersRunAtMostOnce == Spec => []AtMostOnce
<1>1. IInv => AtMostOnce
  <2> SUFFICES ASSUME IInv PROVE AtMostOnce
    OBVIOUS
  <2>1. \A r \in Answered : r \notin ahead[r]
    BY DEF IInv, AheadInv, Answered
  <2>2. \A r \in Answered : r \notin Posted \cup Held \cup Queued
    BY <2>1 DEF IInv, StageInv
  <2>3. \A r \in Requests : runs[r] <= 1
    BY DEF IInv, StageInv
  <2> QED
    BY <2>2, <2>3 DEF AtMostOnce
<1> QED
  BY Invariance, <1>1, PTL

\* Handlers run in the order of submission, over all threads and in spite of the
\* chunk reads that go round the queue.
THEOREM HandlersRunInOrder == Spec => []NoOvertaking
<1>1. IInv => NoOvertaking
  <2> SUFFICES ASSUME IInv, NEW a \in Ordered, NEW b \in Ordered,
                      a \in ahead[b], b \in Answered
               PROVE  a \in Answered
    BY DEF NoOvertaking
  <2>1. a \in Requests /\ b \in Requests
    BY DEF Ordered
  <2>2. a \in issued /\ b \notin ahead[a]
    BY <2>1 DEF IInv, AheadInv, TypeOK
  <2>3. a \notin Posted \cup Held \cup Queued
    BY <2>2 DEF IInv, StageInv
  <2> QED
    BY <2>2, <2>3 DEF IInv, StageInv
<1> QED
  BY Invariance, <1>1, PTL

-----------------------------------------------------------------------------
(* The refinement: the FilesystemManager implements SerialFs.  Every step of *)
(* it is a step of the serial file service or changes nothing it shows.      *)

\* What the service shows of the manager.
Shown ==
  <<issued \cap Ordered, [r \in Ordered |-> ahead[r] \cap Ordered],
    [r \in Ordered |-> Result(r)], {r \in Ordered : runs[r] > 0}, files,
    [r \in Ordered |-> buf[r]], [r \in Ordered |-> length[r]]>>

\* A step that touches none of the shown variables is a stutter.
LEMMA Unshown ==
  ASSUME UNCHANGED <<issued, ahead, bound, runs, files, buf, length>>,
         \A r \in Ordered : Result(r)' = Result(r)
  PROVE  UNCHANGED Shown
BY DEF Shown

-----------------------------------------------------------------------------
\* A manager starts as a service does.
LEMMA InitRefines == Init => Serial!Init
<1> SUFFICES ASSUME Init PROVE Serial!Init
  OBVIOUS
<1>1. \A r \in Ordered : r \in Requests /\ Result(r) = None
  BY DEF Init, Result, Ordered
<1> QED
  BY <1>1 DEF Init, Serial!Init

\* The push of a request that is no chunk read submits it to the service.
LEMMA SubmitRefines ==
  ASSUME IInv, NEW t \in Threads, NEW r \in Requests, Submit(t, r)
  PROVE  [Serial!Next]_Shown
<1>1. TypeOK /\ AheadInv
  BY DEF IInv
<1>2. /\ r \notin issued /\ issued' = issued \cup {r}
      /\ ahead' = [b \in Requests |-> IF b = r THEN issued \ {r} ELSE ahead[b] \ {r}]
      /\ UNCHANGED <<wpc, cur, bound, runs, files, buf>>
  BY DEF Submit, Log, workerVars, handlerVars, fileVars
<1>9. PICK n \in {Len(files[PathOf[r]].data)} \cup IF Faults THEN {NotOpen} ELSE {} :
        length' = [length EXCEPT ![r] = IF Code[r] = "fd_async_read" THEN n ELSE 0]
  BY DEF Submit
<1>3. \A b \in Requests : r \notin ahead[b]
  BY <1>1, <1>2 DEF AheadInv
<1>4. \A b \in Requests : ahead'[b] = IF b = r THEN issued ELSE ahead[b]
  BY <1>2, <1>3
<1>5. \A b \in Ordered : b \in Requests /\ Result(b)' = Result(b)
  BY <1>2 DEF Result, Ordered
<1>6. \A b \in Requests : b # r => length'[b] = length[b]
  BY <1>1, <1>9 DEF TypeOK
<1>7. CASE r \in Ordered
  <2>1. issued' \cap Ordered = (issued \cap Ordered) \cup {r}
    BY <1>2, <1>7
  <2>2. [b \in Ordered |-> ahead'[b] \cap Ordered]
          = [[b \in Ordered |-> ahead[b] \cap Ordered] EXCEPT ![r] = issued \cap Ordered]
    BY <1>4, <1>5, <1>7
  <2>3. [b \in Ordered |-> length'[b]]
          = [[b \in Ordered |-> length[b]] EXCEPT
               ![r] = IF [b \in Ordered |-> Code[b]][r] = "fd_async_read" THEN n ELSE 0]
    <3>1. length'[r] = IF Code[r] = "fd_async_read" THEN n ELSE 0
      BY <1>1, <1>9 DEF TypeOK
    <3>2. [b \in Ordered |-> Code[b]][r] = Code[r]
      BY <1>7
    <3> QED
      BY <1>5, <1>6, <1>7, <3>1, <3>2
  <2>4. n \in {Len(files[[b \in Ordered |-> PathOf[b]][r]].data)}
             \cup IF Faults THEN {Serial!NotOpen} ELSE {}
    BY <1>7, <1>9 DEF NotOpen, Serial!NotOpen
  <2>5. Serial!Submit(r)
    BY <1>2, <1>5, <1>7, <2>1, <2>2, <2>3, <2>4 DEF Serial!Submit
  <2> QED
    BY <1>7, <2>5 DEF Serial!Next
<1>8. CASE r \notin Ordered
  BY <1>2, <1>4, <1>5, <1>6, <1>8 DEF Shown
<1> QED
  BY <1>7, <1>8

\* A chunk read that goes back to the queue is none of the service's business.
LEMMA RequeueRefines ==
  ASSUME IInv, RequeueChunk
  PROVE  UNCHANGED Shown
<1> DEFINE h == cur.handler
<1>1. TypeOK /\ AheadInv /\ Pairing /\ StageInv
  BY DEF IInv, HeldInv
<1>2. h \in Requests /\ Code[h] = "async_read_chunk"
  BY <1>1 DEF RequeueChunk, Executing, Pairing
<1>3. h \notin Ordered
  BY <1>2 DEF Ordered, ChunkReads
<1>4. h \in issued
  BY <1>1, <1>2, FilesystemManagerAssumption DEF StageInv, Held
<1>5. issued' = issued /\ \A b \in Ordered : ahead'[b] \cap Ordered = ahead[b] \cap Ordered
  BY <1>1, <1>2, <1>3, <1>4 DEF RequeueChunk, Log, Ordered, TypeOK
<1>6. \A r \in Ordered : Result(r)' = Result(r)
  BY DEF RequeueChunk, Executing, Result, handlerVars, Idle
<1> QED
  BY <1>5, <1>6 DEF RequeueChunk, handlerVars, fileVars, Shown

\* What the worker performs next is the first request not performed yet.
LEMMA HeldIsNext ==
  ASSUME IInv, wpc = "execute"
  PROVE  /\ cur.handler \in issued /\ bound[cur.handler] = None
         /\ \A a \in Requests : a \in ahead[cur.handler] => bound[a] # None
<1> DEFINE h == cur.handler
<1>1. TypeOK /\ AheadInv /\ Pairing /\ StageInv /\ BoundInv
  BY DEF IInv, HeldInv
<1>2. h \in Requests /\ h \in Held
  BY <1>1, FilesystemManagerAssumption DEF Pairing, Held
<1>3. h \in issued /\ h \notin Posted \cup Answered
  BY <1>1, <1>2 DEF StageInv, AheadInv, Answered
<1>4. ASSUME NEW a \in Requests, a \in ahead[h] PROVE a \in Posted \cup Answered
  <2>1. a \in issued /\ a # h /\ h \notin ahead[a]
    BY <1>1, <1>2, <1>4 DEF AheadInv
  <2>2. a \notin Held /\ a \notin Queued
    BY <1>1, <1>2, <2>1 DEF StageInv, Held
  <2> QED
    BY <1>1, <2>1, <2>2 DEF StageInv
<1> QED
  BY <1>1, <1>2, <1>3, <1>4 DEF BoundInv

\* What the service promises of an outcome o of request h that leaves buffer b.
Promised(h, o, b) ==
  LET f == files[PathOf[h]] IN
  \/ /\ Code[h] = "async_read"
     /\ o.file = f
     /\ Serial!ReadPath(f, buf[h], b, o.ec)
  \/ /\ Code[h] = "fd_async_read"
     /\ o.file = f
     /\ Serial!ReadStream(f, length[h], b, o.ec)
  \/ /\ Code[h] = "async_write"
     /\ b = buf[h]
     /\ Serial!Write(f, o.file, <<h>>, <<>>, "write_failure", o.ec)
  \/ /\ Code[h] = "async_append"
     /\ b = buf[h]
     /\ Serial!Write(f, o.file, Append(f.data, h), f.data, "append_failure", o.ec)

\* readFile(Path) keeps what the service promises of the read of a path.
LEMMA ReadKeepsPromise ==
  ASSUME NEW f \in File, NEW o \in readFile(f), NEW old, NEW new,
         new = IF o.ec = "success" THEN o.data ELSE old
  PROVE  o.file = f /\ Serial!ReadPath(f, old, new, o.ec)
BY DEF readFile, check_path_admitted, Returned, Thrown, Serial!ReadPath,
       Serial!Readable, Serial!Refused

\* readFile(unique_ptr<ifstream>) keeps what it promises of the read of a stream.
LEMMA FdReadKeepsPromise ==
  ASSUME NEW f \in File, NEW n \in Nat, NEW o \in fdReadFile(f, n)
  PROVE  o.file = f /\ o.ec = "success" /\ Serial!ReadStream(f, n, o.data, o.ec)
<1>1. f.data \in Seq(Pieces \cup {Padding})
  BY DEF File, Contents
<1>2. PICK k \in Transferred(f, n) :
        o = Returned(f, [i \in 1..n |-> IF i <= k THEN f.data[i] ELSE Padding])
  BY DEF fdReadFile
<1>3. o.file = f /\ o.ec = "success"
      /\ o.data = [i \in 1..n |-> IF i <= k THEN f.data[i] ELSE Padding]
  BY <1>2 DEF Returned
<1>4. /\ k \in 0..n /\ k <= Len(f.data)
      /\ Faults \/ k = n \/ k = Len(f.data)
  BY <1>1, TransferredRange
<1>5. Len(o.data) = n /\ n # Serial!NotOpen
  BY <1>3 DEF Serial!NotOpen
<1>6. \A i \in 1..n : o.data[i] = IF i <= k THEN f.data[i] ELSE Padding
  BY <1>3
<1> QED
  BY <1>3, <1>4, <1>5, <1>6 DEF Serial!ReadStream

\* writeFile keeps what it promises of a write.
LEMMA WriteKeepsPromise ==
  ASSUME NEW f \in File, NEW bytes, NEW o \in writeFile(f, bytes)
  PROVE  Serial!Write(f, o.file, bytes, <<>>, "write_failure", o.ec)
BY DEF writeFile, check_path_admitted, Returned, Thrown, RegularFile, Serial!Write,
       Serial!Writable, Serial!Refused

\* appendToFile keeps what it promises of an append.
LEMMA AppendKeepsPromise ==
  ASSUME NEW f \in File, NEW h, NEW o \in appendToFile(f, <<h>>)
  PROVE  Serial!Write(f, o.file, Append(f.data, h), f.data, "append_failure", o.ec)
<1>1. f.data \o <<h>> = Append(f.data, h)
  BY DEF File, Contents
<1> QED
  BY <1>1 DEF appendToFile, check_path_admitted, Returned, Thrown, RegularFile,
              Serial!Write, Serial!Writable, Serial!Refused

\* A file operation of the worker performs its request for the service.
LEMMA ConcludeRefines ==
  ASSUME IInv, wpc = "execute", NEW h, h = cur.handler, Code[h] # "async_read_chunk",
         NEW o \in Outcome, NEW b, Conclude(o, b), Promised(h, o, b)
  PROVE  Serial!Next
<1>1. TypeOK /\ Pairing
  BY DEF IInv, HeldInv
<1>2. h \in Requests /\ cur.data = h /\ h \in Ordered /\ PathOf[h] \in Paths
  BY <1>1, FilesystemManagerAssumption DEF Pairing, Ordered, ChunkReads
<1>3. /\ files' = [files EXCEPT ![PathOf[h]] = o.file]
      /\ buf' = [buf EXCEPT ![h] = b]
      /\ cur' = [cur EXCEPT !.ec = o.ec] /\ wpc' = "post"
      /\ UNCHANGED <<issued, ahead, bound, runs, length>>
  BY <1>2 DEF Conclude, handlerVars, historyVars
<1>4. cur'.handler = h /\ cur'.ec = o.ec
  BY <1>1, <1>3 DEF TypeOK, Cur
<1>5. \A r \in Ordered : r \in Requests /\ Result(r) = bound[r]
  BY DEF Result, Ordered
<1>6. \A r \in Ordered : Result(r)' = IF r = h THEN o.ec ELSE bound[r]
  BY <1>3, <1>4 DEF Result
<1>7. /\ [r \in Ordered |-> Code[r]][h] = Code[h]
      /\ [r \in Ordered |-> PathOf[r]][h] = PathOf[h]
      /\ [r \in Ordered |-> buf[r]][h] = buf[h]
      /\ [r \in Ordered |-> length[r]][h] = length[h]
      /\ [r \in Ordered |-> ahead[r] \cap Ordered][h] = ahead[h] \cap Ordered
      /\ [r \in Ordered |-> Result(r)][h] = bound[h]
  BY <1>2, <1>5
<1>8. /\ [r \in Ordered |-> Result(r)']
           = [[r \in Ordered |-> Result(r)] EXCEPT ![h] = o.ec]
      /\ [r \in Ordered |-> Result(r)'][h] = o.ec
  BY <1>2, <1>5, <1>6
<1>9. /\ [r \in Ordered |-> buf'[r]] = [[r \in Ordered |-> buf[r]] EXCEPT ![h] = b]
      /\ [r \in Ordered |-> buf'[r]][h] = b
  BY <1>1, <1>2, <1>3, <1>5 DEF TypeOK
<1>10. files'[PathOf[h]] = o.file
  BY <1>1, <1>2, <1>3 DEF TypeOK
<1>11. /\ o.file = files[PathOf[h]] => files' = files
       /\ b = buf[h] => [r \in Ordered |-> buf'[r]] = [r \in Ordered |-> buf[r]]
  BY <1>1, <1>2, <1>3 DEF TypeOK
<1>12. Serial!Effect(h)
  BY <1>7, <1>8, <1>9, <1>10, <1>11 DEF Promised, Serial!Effect
<1>13. Serial!Perform(h)
  <2>1. h \in issued \cap Ordered /\ [r \in Ordered |-> Result(r)][h] = None
    BY <1>2, <1>7, HeldIsNext
  <2>2. \A a \in [r \in Ordered |-> ahead[r] \cap Ordered][h] :
          [r \in Ordered |-> Result(r)][a] # None
    BY <1>5, <1>7, HeldIsNext
  <2>3. /\ files' = [files EXCEPT ![[r \in Ordered |-> PathOf[r]][h]]
                                    = files'[[r \in Ordered |-> PathOf[r]][h]]]
        /\ [r \in Ordered |-> buf'[r]]
             = [[r \in Ordered |-> buf[r]] EXCEPT ![h] = [r \in Ordered |-> buf'[r]][h]]
        /\ [r \in Ordered |-> Result(r)']
             = [[r \in Ordered |-> Result(r)] EXCEPT ![h] = [r \in Ordered |-> Result(r)'][h]]
    BY <1>3, <1>7, <1>8, <1>9, <1>10
  <2>4. /\ issued' \cap Ordered = issued \cap Ordered
        /\ [r \in Ordered |-> ahead'[r] \cap Ordered] = [r \in Ordered |-> ahead[r] \cap Ordered]
        /\ {r \in Ordered : runs'[r] > 0} = {r \in Ordered : runs[r] > 0}
        /\ [r \in Ordered |-> length'[r]] = [r \in Ordered |-> length[r]]
    BY <1>3
  <2> QED
    BY <1>12, <2>1, <2>2, <2>3, <2>4 DEF Serial!Perform
<1> QED
  BY <1>2, <1>13 DEF Serial!Next

\* Each of the worker's file operations is an operation of the service.
LEMMA ExecuteRefines ==
  ASSUME IInv, ExecuteRead \/ ExecuteFdRead \/ ExecuteWrite \/ ExecuteAppend
  PROVE  Serial!Next
<1>0. PICK h : h = cur.handler
  OBVIOUS
<1>1. TypeOK /\ Pairing /\ wpc = "execute"
  BY DEF IInv, HeldInv, ExecuteRead, ExecuteFdRead, ExecuteWrite, ExecuteAppend, Executing
<1>2. /\ h \in Requests /\ cur.data = h /\ cur.code = Code[h]
      /\ files[PathOf[h]] \in File /\ length[h] \in Nat \cup {NotOpen}
      /\ <<h>> \in Contents
  BY <1>0, <1>1, HeldIsRequest, BytesType DEF Pairing, TypeOK
<1>3. CASE ExecuteRead
  <2>1. PICK o \in readFile(files[PathOf[h]]) : Conclude(o, Filled(o))
    BY <1>2, <1>3 DEF ExecuteRead
  <2>2. Code[h] = "async_read" /\ o \in Outcome
    BY <1>2, <1>3, <2>1, ReadFileType DEF ExecuteRead, Executing
  <2>3. Filled(o) = IF o.ec = "success" THEN o.data ELSE buf[h]
    BY <1>2 DEF Filled
  <2>4. Promised(h, o, Filled(o))
    BY <1>2, <2>2, <2>3, ReadKeepsPromise DEF Promised
  <2> QED
    BY <1>0, <1>1, <2>1, <2>2, <2>4, ConcludeRefines
<1>4. CASE ExecuteFdRead
  <2>1. length[h] \in Nat
    BY <1>2, <1>4 DEF ExecuteFdRead
  <2>2. PICK o \in fdReadFile(files[PathOf[h]], length[h]) : Conclude(o, Filled(o))
    BY <1>2, <1>4 DEF ExecuteFdRead
  <2>3. Code[h] = "fd_async_read" /\ o \in Outcome
    BY <1>2, <1>4, <2>1, <2>2, FdReadFileType DEF ExecuteFdRead, Executing
  <2>4. Promised(h, o, Filled(o))
    BY <1>2, <2>1, <2>3, FdReadKeepsPromise DEF Filled, Promised
  <2> QED
    BY <1>0, <1>1, <2>2, <2>3, <2>4, ConcludeRefines
<1>5. CASE ExecuteWrite
  <2>1. PICK o \in writeFile(files[PathOf[h]], <<h>>) : Conclude(o, buf[h])
    BY <1>2, <1>5 DEF ExecuteWrite
  <2>2. Code[h] = "async_write" /\ o \in Outcome
    BY <1>2, <1>5, <2>1, WriteFileType DEF ExecuteWrite, Executing
  <2>3. Promised(h, o, buf[h])
    BY <1>2, <2>2, WriteKeepsPromise DEF Promised
  <2> QED
    BY <1>0, <1>1, <2>1, <2>2, <2>3, ConcludeRefines
<1>6. CASE ExecuteAppend
  <2>1. PICK o \in appendToFile(files[PathOf[h]], <<h>>) : Conclude(o, buf[h])
    BY <1>2, <1>6 DEF ExecuteAppend
  <2>2. Code[h] = "async_append" /\ o \in Outcome
    BY <1>2, <1>6, <2>1, AppendToFileType DEF ExecuteAppend, Executing
  <2>3. Promised(h, o, buf[h])
    BY <1>2, <2>2, AppendKeepsPromise DEF Promised
  <2> QED
    BY <1>0, <1>1, <2>1, <2>2, <2>3, ConcludeRefines
<1> QED
  BY <1>3, <1>4, <1>5, <1>6

\* The post of a handler shows nothing: the code is the one the worker held.
LEMMA PostRefines ==
  ASSUME IInv, Post
  PROVE  UNCHANGED Shown
<1>1. TypeOK /\ HeldInv
  BY DEF IInv
<1>2. cur.handler \in Requests /\ bound' = [bound EXCEPT ![cur.handler] = cur.ec]
  BY <1>1, PostEffect
<1>3. \A r \in Ordered : Result(r)' = Result(r)
  BY <1>1, <1>2 DEF Post, Result, Idle, Ordered, TypeOK
<1> QED
  BY <1>3 DEF Post, historyVars, fileVars, Shown

\* The run of a handler answers its request, if that is no chunk read.
LEMMA RunRefines ==
  ASSUME IInv, RunHandler
  PROVE  [Serial!Next]_Shown
<1>0. PICK h : h = Head(io_)
  OBVIOUS
<1>1. TypeOK /\ AheadInv /\ StageInv /\ HeldInv /\ BoundInv
  BY DEF IInv
<1>2. h \in Requests /\ h \in Posted /\ h \notin Answered /\ Answered' = Answered \cup {h}
  BY <1>0, <1>1, RunEffect
<1>3. /\ UNCHANGED <<wpc, cur, bound, files, buf, issued, ahead, length>>
      /\ io_ # <<>>
  BY DEF RunHandler, workerVars, fileVars, historyVars
<1>4. \A r \in Ordered : r \in Requests /\ Result(r)' = Result(r)
  BY <1>3 DEF Result, Ordered
<1>5. /\ {r \in Ordered : runs[r] > 0} = Answered \cap Ordered
      /\ {r \in Ordered : runs'[r] > 0} = Answered' \cap Ordered
  BY <1>4 DEF Answered
<1>6. CASE h \in Ordered
  <2>1. bound[h] # None
    BY <1>1, <1>2 DEF BoundInv
  <2>2. Result(h) # None
    BY <1>1, <2>1 DEF Result, HeldInv
  <2>3. ASSUME NEW a \in Requests, a \in ahead[h] PROVE a \in Answered
    <3>1. a \in issued /\ a # h /\ h \notin ahead[a]
      BY <1>1, <1>2, <2>3 DEF AheadInv
    <3>2. a \notin Held \cup Queued
      BY <1>1, <1>2, <3>1 DEF StageInv
    <3>3. a \notin Posted
      <4>1. io_ \in Seq(Requests) /\ h = io_[1] /\ 1 \in 1..Len(io_)
        BY <1>0, <1>1, <1>3, TailIndices DEF TypeOK
      <4>2. \A i \in 1..Len(io_) : i # 1 => h \in ahead[io_[i]]
        BY <1>1, <4>1 DEF StageInv, InLine
      <4> QED
        BY <3>1, <4>1, <4>2 DEF Posted
    <3> QED
      BY <1>1, <3>1, <3>2, <3>3 DEF StageInv
  <2>4. /\ [r \in Ordered |-> Result(r)][h] # None
        /\ [r \in Ordered |-> ahead[r] \cap Ordered][h] \subseteq Answered \cap Ordered
    BY <1>4, <1>6, <2>2, <2>3
  <2>5. Answered' \cap Ordered = (Answered \cap Ordered) \cup {h}
    BY <1>2, <1>6
  <2>6. /\ issued' \cap Ordered = issued \cap Ordered
        /\ [r \in Ordered |-> ahead'[r] \cap Ordered] = [r \in Ordered |-> ahead[r] \cap Ordered]
        /\ [r \in Ordered |-> Result(r)'] = [r \in Ordered |-> Result(r)]
        /\ [r \in Ordered |-> buf'[r]] = [r \in Ordered |-> buf[r]]
        /\ [r \in Ordered |-> length'[r]] = [r \in Ordered |-> length[r]]
    BY <1>3, <1>4
  <2>7. Serial!Answer(h)
    BY <1>2, <1>3, <1>5, <2>4, <2>5, <2>6 DEF Serial!Answer
  <2> QED
    BY <1>6, <2>7 DEF Serial!Next
<1>7. CASE h \notin Ordered
  <2>1. {r \in Ordered : runs'[r] > 0} = {r \in Ordered : runs[r] > 0}
    BY <1>2, <1>5, <1>7
  <2> QED
    BY <1>3, <1>4, <2>1 DEF Shown
<1> QED
  BY <1>6, <1>7

\* Every step of the manager is one of the service, or a stutter.
LEMMA StepRefines == IInv /\ [Next]_vars => [Serial!Next]_Shown
<1> SUFFICES ASSUME IInv, [Next]_vars PROVE [Serial!Next]_Shown
  OBVIOUS
<1>1. ASSUME NEW t \in Threads, NEW r \in Requests, Submit(t, r) PROVE [Serial!Next]_Shown
  BY <1>1, SubmitRefines
<1>12. CASE Terminate
  BY <1>12, Unshown
  DEF Terminate, Executing, handlerVars, fileVars, historyVars, Result
<1>2. CASE ExecuteRead \/ ExecuteFdRead \/ ExecuteWrite \/ ExecuteAppend
  BY <1>2, ExecuteRefines
<1>3. CASE ExecuteChunk
  <2>1. TypeOK /\ Pairing
    BY DEF IInv, HeldInv
  <2>2. cur.handler \in Requests /\ Code[cur.handler] = "async_read_chunk"
    BY <1>3, <2>1 DEF ExecuteChunk, Executing, Pairing
  <2>3. cur'.handler = cur.handler /\ wpc = "execute" /\ wpc' = "post" /\ bound' = bound
    BY <1>3, <2>1, PerformingFrame DEF Performing, handlerVars
  <2>4. \A r \in Ordered : Result(r)' = Result(r)
    BY <2>2, <2>3 DEF Result, Ordered, ChunkReads
  <2> QED
    BY <1>3, <2>4 DEF ExecuteChunk, handlerVars, fileVars, historyVars, Shown
<1>4. CASE RequeueChunk
  BY <1>4, RequeueRefines
<1>5. CASE Post
  BY <1>5, PostRefines
<1>6. CASE RunHandler
  BY <1>6, RunRefines
<1>7. CASE CheckDone \/ WaitEvent \/ ResetEvent \/ CheckEmpty \/ Pop
  <2>1. /\ UNCHANGED <<issued, ahead, bound, runs, files, buf, length>>
        /\ wpc # "post" /\ wpc' # "post"
    BY <1>7
    DEF CheckDone, WaitEvent, ResetEvent, CheckEmpty, Pop, handlerVars, fileVars, historyVars
  <2> QED
    BY <2>1, Unshown DEF Result
<1>8. ASSUME NEW t \in Threads, SetEvent(t) PROVE UNCHANGED Shown
  BY <1>8, Unshown DEF SetEvent, workerVars, handlerVars, fileVars, historyVars, Result
<1>9. CASE Destructor
  BY <1>9, Unshown
  DEF Destructor, Destroy, DestroyNotify, DestroyJoin, workerVars, handlerVars, fileVars,
      historyVars, Result
<1>10. ASSUME NEW r \in ChunkReads, ReaderReady(r) \/ ReaderStop(r) PROVE UNCHANGED Shown
  BY <1>10, Unshown
  DEF ReaderReady, ReaderStop, workerVars, handlerVars, fileVars, historyVars, Result
<1>11. CASE UNCHANGED vars
  BY <1>11, Unshown DEF vars, workerVars, handlerVars, fileVars, historyVars, Result
<1> QED
  BY <1>1, <1>2, <1>3, <1>4, <1>5, <1>6, <1>7, <1>8, <1>9, <1>10, <1>11, <1>12
  DEF Next, Worker, Execute

-----------------------------------------------------------------------------
\* Whatever the threads, the queues, the chunk reads and the destructor do, the
\* manager is a serial file service: requests take effect one at a time and are
\* answered in the order of submission.
THEOREM Refinement == Spec => ImplementsSerialFs
<1>1. IInv /\ [Next]_vars => [Serial!Next]_(Serial!vars)
  BY StepRefines DEF Serial!vars, Shown
<1> QED
  BY InitRefines, Invariance, <1>1, PTL DEF Spec, ImplementsSerialFs, Serial!Spec
==============================================================================

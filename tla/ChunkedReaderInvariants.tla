---------------------- MODULE ChunkedReaderInvariants ----------------------
(* What is true of a ChunkedReader in every state, and carries the proofs   *)
(* of ChunkedReaderProofs from one step to the next.                        *)
(*                                                                          *)
(* Number the reads 0, 1, ... in the order in which they are scheduled.     *)
(* They are made, and handed on to the handlers, in that order, whatever    *)
(* the order the worker examines them in; each uses the half the one before *)
(* it did not use.  So the reads that are made and not handed on, with the  *)
(* halves in q_buf_ready, are never more than two.  The code does not keep  *)
(* the numbers; they are parameters here:                                   *)
(*   s, f, r : how many reads were scheduled, made, and handed on;          *)
(*   a       : a[k] is how many of the first k reads are prefetches;        *)
(*   qn, on, bn : the numbers of the reads in q_as_read_data, of the one    *)
(*             the worker performs, and of those in io_.                    *)
EXTENDS ChunkedReader

\* The half the read k uses, and where it begins in a file that is not cut.
HalfOf(k) == k % 2
Begin(k)  == k * ChunkSize

\* A read among the handlers in io_; a read that brings data.
IsRead(x)  == "answer" \notin DOMAIN x
HasData(x) == x.ec \in {"success", "end_of_file"}

\* The worker has yet to make the read in its hands; it has made it and not posted it.
Waits == wpc \in {"examine", "read"}
Made  == \/ wpc = "finish"
         \/ wpc = "post" /\ HasData(op)

Ready == Len(q_buf_ready)

\* next_chunk has scheduled a read and not advanced yet; where the next one begins.
Scheduling == mpc \in {"scheduled", "prefetched"}
Front == pos_to_schedule + IF Scheduling THEN size[next] ELSE 0

-----------------------------------------------------------------------------
\* x is the read k.
Numbered(x, k, a) == /\ x.buf = HalfOf(k)
                     /\ IF x.call = None THEN a[k + 1] = a[k] + 1 ELSE a[k + 1] = a[k]

\* The read k, that was not made yet: where it begins.  Once a read was cut short only
\* the next one may begin where it ended.
Awaits(x, k, s, f, a) ==
  /\ k \in f..(s - 1)
  /\ Numbered(x, k, a)
  /\ x.pos < file_size
  /\ ~failed => x.pos = Begin(k)
  /\ failed => bytes_read_ <= x.pos /\ (k > f => bytes_read_ < x.pos)

\* The numbers are in order, and every read has one.
NumberInv(s, f, r, a, qn, on, bn) ==
  /\ s \in Nat /\ f \in Nat /\ r \in Nat /\ a \in [Nat -> Nat]
  /\ qn \in Seq(Nat) /\ on \in Nat /\ bn \in Seq(Nat)
  /\ Ready <= r /\ r <= f /\ f <= s
  /\ Len(qn) = Len(q_as_read_data) /\ Len(bn) = Len(io_)

\* a counts one prefetch at a time.
KindInv(s, a) ==
  /\ \A k \in 0..(s - 1) : a[k + 1] \in {a[k], a[k] + 1}
  /\ \A k, l \in 0..s : k <= l => a[k] <= a[l]

\* n_enqueued counts the prefetches that are scheduled and not handed on, the halves that
\* are ready, and the prefetch whose handler runs.
EnqueuedInv(s, r, a) ==
  /\ a[s] + Ready + (IF within = "prefetch" THEN 1 ELSE 0)
       <= a[r] + n_enqueued + (IF mpc = "prefetched" THEN 1 ELSE 0)
  /\ mpc = "prefetched" => n_enqueued < 2

\* For every prefetch before a direct read a call waits.
DirectInv(s, r, a) ==
  \A k \in r..(s - 1) : a[k + 1] = a[k] => a[k] <= a[r] + Len(q_handlers)

\* The halves that are ready are those of the last reads handed on; only prefetches
\* follow, and no call waits.
ReadyInv(s, r, a) ==
  /\ \A i \in 1..Ready : q_buf_ready[i] = HalfOf(r - Ready + i - 1)
  /\ mpc = "taken" => Ready > 0 /\ next = q_buf_ready[1]
  /\ Ready > 0 => /\ q_handlers = <<>>
                  /\ \A k \in r..(s - 1) : a[k + 1] = a[k] + 1

\* The halves are scheduled in turn, and the reads one after the other.
ScheduleInv(s, f) ==
  /\ swapped = HalfOf(s)
  /\ Scheduling => s > 0 /\ next = HalfOf(s - 1)
  /\ IF failed
     THEN /\ f > 0 /\ size[HalfOf(f)] = ChunkSize
          /\ bytes_read_ <= Front /\ (f < s => bytes_read_ < Front)
     ELSE /\ size = [b \in Buffers |-> ChunkSize]
          /\ bytes_read_ = Begin(f) /\ Front = Begin(s)

\* The reads to be made, each with a number of its own.
DueInv(s, f, a, qn, on) ==
  /\ \A i \in 1..Len(qn) : Awaits(q_as_read_data[i], qn[i], s, f, a)
  /\ \A i, j \in 1..Len(qn) : i # j => qn[i] # qn[j]
  /\ Waits => /\ Awaits(op, on, s, f, a)
              /\ \A i \in 1..Len(qn) : qn[i] # on
  /\ wpc = "read" => on = f /\ bytes_read_ = op.pos

\* The reads that were made and not handed on are in io_, in their order; the last of them
\* may still be in the worker's hands.
MadeInv(f, r, a, on, bn) ==
  /\ Made => r < f /\ on = f - 1 /\ Numbered(op, on, a)
  /\ \A i \in 1..Len(bn) : IsRead(io_[i]) /\ HasData(io_[i]) =>
       /\ bn[i] \in r..(f - 1) /\ Numbered(io_[i], bn[i], a)
       /\ Made => bn[i] # on
  /\ \A i, j \in 1..Len(bn) :
       IsRead(io_[i]) /\ HasData(io_[i]) /\ IsRead(io_[j]) /\ HasData(io_[j]) /\ i < j
         => bn[i] < bn[j]
  /\ \A k \in r..(f - 1) :
       \/ \E i \in 1..Len(bn) : IsRead(io_[i]) /\ HasData(io_[i]) /\ bn[i] = k
       \/ Made /\ on = k

\* The reads that were found stopped come after them.
StoppedInv(s, f, a, on, bn) ==
  /\ stopped => mpc \in {"idle", "callback"}
  /\ \A i \in 1..Len(bn) : IsRead(io_[i]) /\ ~HasData(io_[i]) =>
       /\ stopped /\ wpc # "read" /\ ~Made
       /\ bn[i] \in f..(s - 1) /\ Numbered(io_[i], bn[i], a)
       /\ \A j \in 1..Len(bn) : i < j /\ IsRead(io_[j]) => ~HasData(io_[j])
  /\ wpc = "post" /\ ~HasData(op) =>
       stopped /\ on \in f..(s - 1) /\ Numbered(op, on, a)

\* The reads made and not consumed are at most two, so each has a half of its own, which
\* is hot: but for the one being filled, and the one that was just released.
WindowInv(f, r) ==
  /\ f + Ready <= r + IF wpc = "read" THEN 1 ELSE 2
  /\ \A k \in (r - Ready)..(f - 1) :
       \/ hot[HalfOf(k)]
       \/ wpc = "finish" /\ k = f - 1
       \/ mpc = "taken" /\ k = r - Ready
  /\ \A b \in Buffers : hot[b] => \E k \in (r - Ready)..(f - 1) : HalfOf(k) = b
  /\ wpc = "finish" => ~hot[HalfOf(f - 1)]
  /\ mpc = "taken" => ~hot[next]

Flowing(s, f, r, a, qn, on, bn) ==
  /\ mpc # "aborted" /\ wpc # "aborted"
  /\ NumberInv(s, f, r, a, qn, on, bn)
  /\ KindInv(s, a)
  /\ EnqueuedInv(s, r, a)
  /\ DirectInv(s, r, a)
  /\ ReadyInv(s, r, a)
  /\ ScheduleInv(s, f)
  /\ DueInv(s, f, a, qn, on)
  /\ MadeInv(f, r, a, on, bn)
  /\ StoppedInv(s, f, a, on, bn)
  /\ WindowInv(f, r)

\* Nothing more is read: a read has failed, or an assertion of the worker has.
Broken ==
  /\ resized
  /\ \/ wpc = "aborted"
     \/ /\ failed /\ wpc \notin {"read", "finish"}
        /\ \A i \in 1..Len(q_as_read_data) : bytes_read_ < q_as_read_data[i].pos
        /\ wpc = "examine" => bytes_read_ < op.pos
        /\ bytes_read_ < Front

\* Nothing more is handed out: the stream was destroyed, and the reads that are left find
\* their half released, or go to q_buf_ready.
Drained ==
  /\ stopped /\ wpc \notin {"read", "finish"} /\ ~Made
  /\ mpc \in {"idle", "callback", "aborted"}
  /\ \A i \in 1..Len(io_) : IsRead(io_[i]) => ~HasData(io_[i])
  /\ \/ mpc = "aborted"
     \/ \A b \in Buffers : ~hot[b]
     \/ /\ q_handlers = <<>>
        /\ \A i \in 1..Len(io_) : IsRead(io_[i]) => io_[i].call = None
        /\ \A i \in 1..Len(q_as_read_data) : q_as_read_data[i].call = None
        /\ wpc \in {"examine", "post"} => op.call = None

FlowInv ==
  \/ Broken
  \/ Drained
  \/ \E s, f, r, on \in Nat, a \in [Nat -> Nat], qn, bn \in Seq(Nat) :
       Flowing(s, f, r, a, qn, on, bn)

-----------------------------------------------------------------------------
(* An application that awaits each answer: r - Ready chunks were consumed,  *)
(* and the call that waits is for the next one.                             *)

\* The read k was scheduled for a call.
Direct(k, a) == a[k + 1] = a[k]

\* The latest call was answered, and not with the end of the file or an error.
Answered  == calls > 0 => got[calls] # None
Continues == calls > 0 => got[calls] # None /\ got[calls].ec = "success"

\* Only the latest call may wait, and in one place: for a prefetch, for a read of its own,
\* for the code of its copy, or for its handler to run.
AwaitInv(s, r, a) ==
  /\ \A h \in Calls : (h < calls => got[h] # None) /\ (h > calls => got[h] = None)
  /\ q_handlers # <<>> => q_handlers = <<calls>> /\ ~Answered
  /\ mpc = "taken" => ~Answered
  /\ \A k \in r..(s - 1) : Direct(k, a) =>
       /\ ~Answered /\ q_handlers = <<>>
       /\ \A l \in r..(s - 1) : Direct(l, a) => l = k
  /\ \A i \in 1..Len(io_) : ~IsRead(io_[i]) =>
       /\ ~Answered /\ io_[i].call = calls /\ q_handlers = <<>> /\ mpc # "taken"
       /\ \A k \in r..(s - 1) : ~Direct(k, a)
       /\ \A j \in 1..Len(io_) : ~IsRead(io_[j]) => j = i

\* The reads are prefetches, or are for that call.
ForInv ==
  /\ \A i \in 1..Len(q_as_read_data) : q_as_read_data[i].call \in {None, calls}
  /\ wpc \in {"examine", "read", "finish", "post"} => op.call \in {None, calls}
  /\ \A i \in 1..Len(io_) : IsRead(io_[i]) => io_[i].call \in {None, calls}

\* The calls are as many as the chunks that were consumed, or one more.
TurnInv(s, r, a) ==
  /\ Continues => calls = r - Ready
  /\ q_handlers # <<>> => calls = r - Ready + 1
  /\ mpc = "taken" => calls = r - Ready + 1
  /\ \A k \in r..(s - 1) : Direct(k, a) => calls = r - Ready + 1
  /\ \A i \in 1..Len(io_) : ~IsRead(io_[i]) =>
       /\ io_[i].answer = Stream!Chunk(calls)
       /\ io_[i].answer.ec = "success" => calls = r - Ready

\* The halves that are made and not consumed are the next chunks of the file.
FromInv(f, r) ==
  /\ \A k \in (r - Ready)..(f - 1) : start[HalfOf(k)] = Begin(k) /\ Begin(k) < file_size
  /\ mpc = "taken" => copy.pos = Begin(r - Ready)
  /\ failed => file_size <= Begin(f)

SerialInv(s, f, r, a) == AwaitInv(s, r, a) /\ ForInv /\ TurnInv(s, r, a) /\ FromInv(f, r)

\* While nothing disturbs the reader of such an application.
SerialFlow ==
  Undisturbed /\ consumer # "pipelined" =>
    \E s, f, r, on \in Nat, a \in [Nat -> Nat], qn, bn \in Seq(Nat) :
      Flowing(s, f, r, a, qn, on, bn) /\ SerialInv(s, f, r, a)

-----------------------------------------------------------------------------
\* While the file keeps its size the worker reads it to its end and no further, and only a
\* read of its end fails the stream.
EndInv ==
  ~resized => /\ actual = file_size /\ bytes_read_ <= file_size
              /\ failed => bytes_read_ = file_size

\* A chunk of the file, and the code it comes with.
Exact(p, n) == /\ \E k \in Nat : p = Begin(k)
               /\ p + n <= file_size
               /\ n = ChunkSize \/ (n < ChunkSize /\ p + n = file_size)

CodeAt(p) == IF p = file_size THEN "end_of_file" ELSE "success"

IsChunk(x) == x.size > 0 => Exact(x.pos, x.size) /\ x.ec = CodeAt(x.pos + x.size)

\* A half that was filled holds a chunk of the file; its code is set when it is hot.
HalvesExact ==
  /\ wpc = "finish" => /\ Exact(start[op.buf], size[op.buf])
                       /\ bytes_read_ = start[op.buf] + size[op.buf]
  /\ \A b \in Buffers : hot[b] =>
       Exact(start[b], size[b]) /\ bec[b] = CodeAt(start[b] + size[b])

\* The handler of a read has the code of its half.
CodesExact ==
  /\ wpc = "post" /\ HasData(op) => op.ec = bec[op.buf]
  /\ \A i \in 1..Len(io_) : IsRead(io_[i]) /\ HasData(io_[i]) => io_[i].ec = bec[io_[i].buf]

\* A ready half keeps its code until the copy of it is posted.
TakenExact ==
  mpc = "taken" => Exact(copy.pos, copy.size) /\ bec[next] = CodeAt(copy.pos + copy.size)

AnswersExact ==
  /\ \A i \in 1..Len(io_) : ~IsRead(io_[i]) => IsChunk(io_[i].answer)
  /\ \A h \in Calls : got[h] # None => IsChunk(got[h])

\* What was read, wherever it is, are chunks of the file with the code they come with.
ContentInv == ~resized => HalvesExact /\ CodesExact /\ TakenExact /\ AnswersExact
============================================================================

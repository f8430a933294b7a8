---------------------------- MODULE ChunkStream ----------------------------
(***************************************************************************)
(* What a chunked stream promises to an application that asks for one      *)
(* chunk at a time: the i-th call is answered with the i-th chunk of the   *)
(* file, once, and with end_of_file from the last chunk on.                *)
(***************************************************************************)
EXTENDS Integers

CONSTANTS ChunkSize, MaxCalls, None

VARIABLES
  file_size, \* the size of the file
  asked,     \* the number of calls made
  got        \* the answer to each call

Least(m, n) == IF m < n THEN m ELSE n

\* The i-th chunk; past the end of the file there is nothing but the code.
Chunk(i) ==
  LET p == (i - 1) * ChunkSize
      n == Least(ChunkSize, file_size - p)
  IN  IF p >= file_size THEN [pos |-> 0, size |-> 0, ec |-> "end_of_file"]
      ELSE [pos |-> p, size |-> n,
            ec |-> IF p + n = file_size THEN "end_of_file" ELSE "success"]

Init == file_size \in Nat /\ asked = 0 /\ got = [h \in 1..MaxCalls |-> None]

Ask == asked < MaxCalls /\ asked' = asked + 1 /\ UNCHANGED <<file_size, got>>

\* The answers come in the order of the calls.
Reply ==
  \E h \in 1..asked :
    /\ got[h] = None
    /\ \A i \in 1..(h - 1) : got[i] # None
    /\ got' = [got EXCEPT ![h] = Chunk(h)]
    /\ UNCHANGED <<file_size, asked>>

Next == Ask \/ Reply

Spec == Init /\ [][Next]_<<file_size, asked, got>>
============================================================================

------------------------------ MODULE SerialFs ------------------------------
(***************************************************************************)
(* What a user of the FilesystemManager may rely on, with no worker, queue *)
(* or event: requests are performed one at a time in the order they were   *)
(* submitted, each in a single step on the file system as it then is, and  *)
(* answered in that order with the code of that step.  A manager that is   *)
(* being destroyed may leave requests pending for ever, and so does one    *)
(* that was handed a stream that is not open.                              *)
(*                                                                         *)
(* What a code promises of the file and of the buffer is stated here with  *)
(* no reference to the helpers the manager calls.                          *)
(***************************************************************************)
EXTENDS Integers, Sequences

CONSTANTS Requests, Paths, Code, PathOf, InitialFiles, None, Padding, Faults

VARIABLES
  issued,   \* the requests submitted
  ahead,    \* the requests submitted before each of them
  result,   \* the error code each request ended with
  answered, \* the requests whose handler has run
  files,    \* the file system
  buf,      \* the buffer each read fills
  length    \* the length of the stream handed to a read of a stream

vars == <<issued, ahead, result, answered, files, buf, length>>

Init ==
  /\ issued = {}
  /\ ahead = [r \in Requests |-> {}]
  /\ result = [r \in Requests |-> None]
  /\ answered = {}
  /\ files \in InitialFiles
  /\ buf = [r \in Requests |-> <<>>]
  /\ length = [r \in Requests |-> 0]

\* The length of a stream that is not open.
NotOpen == -1

Submit(r) ==
  /\ r \notin issued
  /\ issued' = issued \cup {r}
  /\ ahead' = [ahead EXCEPT ![r] = issued]
  /\ \E n \in {Len(files[PathOf[r]].data)} \cup IF Faults THEN {NotOpen} ELSE {} :
       length' = [length EXCEPT ![r] = IF Code[r] = "fd_async_read" THEN n ELSE 0]
  /\ UNCHANGED <<result, answered, files, buf>>

-----------------------------------------------------------------------------
(* What each code promises, f being the file the request names, and g what *)
(* it is afterwards.                                                       *)

Readable(f) == f.type \in {"regular_file", "symlink_file"}

Writable(f) == f.type \in {"regular_file", "file_not_found"}

\* A request whose file is of no use to it, or could not be looked at.
Refused(ok, ec) ==
  \/ ~ok /\ ec = "invalid_argument"
  \/ Faults /\ ec = "internal_failure"

\* A read of a path gives the whole content or leaves the buffer alone.
ReadPath(f, old, new, ec) ==
  \/ /\ ec = "success"
     /\ Readable(f)
     /\ new = f.data
  \/ /\ ec \in {"open_failure", "read_failure"}
     /\ Faults
     /\ Readable(f)
     /\ new = old
  \/ /\ Refused(Readable(f), ec)
     /\ new = old

\* A read of an open stream succeeds: it gives as many pieces as the stream had
\* when it was opened, the first ones of the file and then padding.  The padding
\* stands for what the file has lost since, or for a transfer that failed.
ReadStream(f, n, new, ec) ==
  /\ ec = "success"
  /\ n # NotOpen
  /\ Len(new) = n
  /\ \E k \in 0..n :
       /\ k <= Len(f.data)
       /\ Faults \/ k = n \/ k = Len(f.data)
       /\ \A i \in 1..n : new[i] = IF i <= k THEN f.data[i] ELSE Padding

\* A write or an append is to leave the pieces of wanted.  One that fails when
\* its stream is open, with the code failure, leaves those of lost; so may one
\* that succeeds, what it wrote being lost when the stream is closed.
Write(f, g, wanted, lost, failure, ec) ==
  \/ /\ ec \in {"success", failure}
     /\ Writable(f)
     /\ g.type = "regular_file"
     /\ \/ ec = "success" /\ g.data = wanted
        \/ Faults /\ g.data = lost
  \/ /\ ec = "open_failure"
     /\ Faults
     /\ Writable(f)
     /\ g = f
  \/ /\ Refused(Writable(f), ec)
     /\ g = f

\* What performing r does to its file and its buffer, by the code it ends with.
Effect(r) ==
  LET f  == files[PathOf[r]]
      g  == files'[PathOf[r]]
      ec == result'[r]
  IN  \/ /\ Code[r] = "async_read"
         /\ UNCHANGED files
         /\ ReadPath(f, buf[r], buf'[r], ec)
      \/ /\ Code[r] = "fd_async_read"
         /\ UNCHANGED files
         /\ ReadStream(f, length[r], buf'[r], ec)
      \/ /\ Code[r] = "async_write"
         /\ UNCHANGED buf
         /\ Write(f, g, <<r>>, <<>>, "write_failure", ec)
      \/ /\ Code[r] = "async_append"
         /\ UNCHANGED buf
         /\ Write(f, g, Append(f.data, r), f.data, "append_failure", ec)

Perform(r) ==
  /\ r \in issued
  /\ result[r] = None
  /\ \A a \in ahead[r] : result[a] # None
  /\ result' = [result EXCEPT ![r] = result'[r]]
  /\ files' = [files EXCEPT ![PathOf[r]] = files'[PathOf[r]]]
  /\ buf' = [buf EXCEPT ![r] = buf'[r]]
  /\ Effect(r)
  /\ UNCHANGED <<issued, ahead, answered, length>>

Answer(r) ==
  /\ result[r] # None
  /\ r \notin answered
  /\ ahead[r] \subseteq answered
  /\ answered' = answered \cup {r}
  /\ UNCHANGED <<issued, ahead, result, files, buf, length>>

Next == \E r \in Requests : Submit(r) \/ Perform(r) \/ Answer(r)

Spec == Init /\ [][Next]_vars
=============================================================================

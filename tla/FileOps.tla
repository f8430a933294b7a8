------------------------------ MODULE FileOps ------------------------------
(***************************************************************************)
(* The synchronous file helpers of fs_manager.cpp as pure operators.  Each *)
(* one maps the file it is applied to to the set of outcomes the call may  *)
(* have: the file afterwards, the bytes it returned and the ErrorCode it   *)
(* threw (success when it threw none).                                     *)
(*                                                                         *)
(* A file is its type, as symlink_status reports it, and its content: a    *)
(* sequence of pieces, one piece being what one write or append stored.    *)
(* Faults says whether the operating system may refuse an open or a        *)
(* transfer.                                                               *)
(***************************************************************************)
EXTENDS Naturals, Sequences

CONSTANTS
  Pieces,   \* what a write or an append may store
  Padding,  \* the zero bytes resize() leaves where read() stored nothing
  Faults    \* whether the operating system may fail an open or a transfer

ASSUME FileOpsAssumption ==
  /\ Padding \notin Pieces
  /\ Faults \in BOOLEAN

FileType == {"file_not_found", "regular_file", "symlink_file", "directory_file"}

Contents == Seq(Pieces \cup {Padding})

File == [type : FileType, data : Contents]

ErrorCode == {"success", "internal_failure", "invalid_argument", "open_failure",
              "read_failure", "write_failure", "append_failure", "end_of_file", "stopped"}

Outcome == [file : File, data : Contents, ec : ErrorCode]

RegularFile(data) == [type |-> "regular_file", data |-> data]

Returned(f, data) == [file |-> f, data |-> data, ec |-> "success"]

Thrown(f, code) == [file |-> f, data |-> <<>>, ec |-> code]

-----------------------------------------------------------------------------
\* What a helper may answer that begins with check_path_admitted: the look at the
\* file fails, its type is not one of those admitted, or the helper goes on.
check_path_admitted(f, admitted, continue) ==
  (IF Faults THEN {Thrown(f, "internal_failure")} ELSE {})
    \cup IF f.type \in admitted THEN continue ELSE {Thrown(f, "invalid_argument")}

\* readFile(Path): the whole content, or the error that stopped it.  A symbolic
\* link is admitted, whatever the interface says.
readFile(f) ==
  check_path_admitted(f, {"regular_file", "symlink_file"},
    {Returned(f, f.data)}
      \cup {Thrown(f, code) : code \in IF Faults THEN {"open_failure", "read_failure"}
                                                 ELSE {}})

\* The pieces of a file that a transfer may have read when it ends: all that
\* length asks for and the file still holds, or fewer where a transfer may fail.
Transferred(f, length) ==
  LET whole == IF length <= Len(f.data) THEN length ELSE Len(f.data) IN
  IF Faults THEN 0..whole ELSE {whole}

(***************************************************************************)
(* readFile(unique_ptr<ifstream>): the buffer takes the length the stream  *)
(* had when the caller opened it.  What is not transferred stays zero, and *)
(* the check that follows tests the pointer, not the stream.               *)
(***************************************************************************)
fdReadFile(f, length) ==
  {Returned(f, [i \in 1..length |-> IF i <= k THEN f.data[i] ELSE Padding]) :
     k \in Transferred(f, length)}

(***************************************************************************)
(* writeFile: opening the stream truncates.  The bytes of a short write    *)
(* leave only when the stream is closed, after the last check, so a        *)
(* transfer may fail with no error reported.                               *)
(***************************************************************************)
writeFile(f, bytes) ==
  check_path_admitted(f, {"file_not_found", "regular_file"},
    {Returned(RegularFile(bytes), <<>>)}
      \cup IF Faults
           THEN {Thrown(f, "open_failure"),
                 Thrown(RegularFile(<<>>), "write_failure"),
                 Returned(RegularFile(<<>>), <<>>)}
           ELSE {})

\* Mutant: the stream is opened without std::ios::in, which truncates the file.
appendTruncating(f, bytes) ==
  check_path_admitted(f, {"file_not_found", "regular_file"},
    {Returned(RegularFile(bytes), <<>>)})

\* appendToFile: opens at the end, or creates the file when there is none.
appendToFile(f, bytes) ==
  check_path_admitted(f, {"file_not_found", "regular_file"},
    {Returned(RegularFile(f.data \o bytes), <<>>)}
      \cup IF Faults
           THEN {Thrown(f, "open_failure"),
                 Thrown(RegularFile(f.data), "append_failure"),
                 Returned(RegularFile(f.data), <<>>)}
           ELSE {})
============================================================================

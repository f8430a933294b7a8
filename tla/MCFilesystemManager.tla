------------------------ MODULE MCFilesystemManager ------------------------
(* Instances of FilesystemManager for TLC. *)
EXTENDS FilesystemManagerRefinement

MCPieces == Requests \cup {"old1", "old2"}

\* One path names a regular file of two pieces, the other a symbolic link.
RegularAndLink ==
  {[p \in Paths |-> IF p = "f" THEN RegularFile(<<"old1", "old2">>)
                    ELSE [type |-> "symlink_file", data |-> <<"old1">>]]}

\* Only the read "s" names the link.
MCPathOf == [r \in Requests |-> IF r = "s" THEN "link" ELSE "f"]

\* The calls of the instances.
CodeOf ==
  [r \in Requests |->
     CASE r = "w"            -> "async_write"
       [] r = "a"            -> "async_append"
       [] r \in {"r", "s"}   -> "async_read"
       [] r = "fd"           -> "fd_async_read"
       [] r \in {"c", "c2"}  -> "async_read_chunk"]

MCRequests == {"w", "a", "r", "fd", "c", "s"}

\* A stream on a file that a write truncates and an append extends; an append, or
\* a read, with a chunk read beside it; a read through the link.
MCWorkloads == {{"w", "a", "fd"}, {"a", "c"}, {"r", "c"}, {"s", "a"}}

\* Two chunk reads and a write.
ChunkRequests == {"c", "c2", "w"}

\* One run makes every call.
Together == {Requests}
============================================================================

------------------------- MODULE MCSwappingBuffer -------------------------
(* Instances of SwappingBuffer for TLC: chunks of 1, 3 and 4 bytes against *)
(* a threshold of 3.                                                       *)
EXTENDS SwappingBuffer

A(s)  == <<"append", s>>
Call(op) == <<op, 0>>

\* An application that waits for an answer before it goes on, except that while a long
\* chunk is on its way it appends a short one, or asks for the size, the content, a
\* clear or a save; and size and readAll may follow what changes nothing in between.
Waiting ==
  {<<A(3), A(1)>>, <<A(4), A(1)>>}
    \cup ({A(3), A(4)} \X {Call(op) : op \in {"size", "readAll", "clear", "save"}})
    \cup ({Call("size")} \X {Call(op) : op \in {"size", "readAll", "clear", "save"}})
    \cup {<<Call("readAll"), Call("size")>>, <<Call("clear"), Call("size")>>,
           <<Call("clear"), Call("readAll")>>}

\* An application that does not wait for its appends.
Appending == {A(s) : s \in Sizes} \X {A(s) : s \in Sizes}
============================================================================

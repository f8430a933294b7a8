-------------------------- MODULE MCBufferReaders --------------------------
(* Instances of BufferReaders for TLC: the buffers and the applications of *)
(* MCSwappingBuffer, with chunks of two bytes.                             *)
EXTENDS MCSwappingBuffer, BufferReaders

\* A chunked stream may also be asked for while a long chunk is on its way.
WaitingReader == Waiting \cup ({A(3), A(4), Call("size")} \X {Call("make_chunked_stream")})

\* What the theorems of SwappingBufferProofs ask of the application.
ASSUME Awaiting == SwapsAwaited /\ ReadsAlone /\ StreamAwaited
============================================================================

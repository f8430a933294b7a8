-------------------------- MODULE MCChunkedReader --------------------------
(* Instances of ChunkedReader for TLC. *)
EXTENDS ChunkedReader

\* With chunks of two bytes: no chunk, one cut, one full, up to four of them.
Sizes == 0..8

NoResize == {}

Resized == {1, 3, 9}
============================================================================

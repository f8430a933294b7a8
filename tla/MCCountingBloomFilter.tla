----------------------- MODULE MCCountingBloomFilter -----------------------
(* An instance of CountingBloomFilter for TLC: five counters, so that with  *)
(* two or four bits some share a byte and the last byte is partly used.     *)
EXTENDS CountingBloomFilter, TLC, Bitwise

CONSTANTS x, y

\* x uses the counters 0 and 4, y the counters 1 and 4: one is common to both, the others
\* are neighbours.  With two bits x has only the first counters of its bytes, which += reads
\* rightly.
First  == x :> 5 @@ y :> 6
Second == x :> 9 @@ y :> 14

Names == Permutations(Objects)

\* As many functions as k, one to generate others from, and a list that is refused.
SomeLists == {<<First, Second>>, <<First>>, <<First, Second, First>>}

\* Common to both are fifteen x, the most four bits hold, and one y; or three x and one y.
SomeAmounts == x :> {0, 1, 2, 3, 5, 10, 15} @@ y :> {0, 1}

\* With the functions made of these the last counter of a byte, 3, is common to x and y.
Drawn == <<6, 14>>

XorBits(a, b) == a ^^ b
============================================================================

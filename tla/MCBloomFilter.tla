--------------------------- MODULE MCBloomFilter ---------------------------
(* An instance of BloomFilter for TLC: ten bits, so that the last byte is   *)
(* partly used, and hash functions whose positions collide with one another *)
(* and fall into both bytes.                                                *)
EXTENDS BloomFilter, TLC, Bitwise

CONSTANTS x, y

\* size_t values, some of them beyond m.
HashLow == x :> 3 @@ y :> 19

HashHigh == x :> 9 @@ y :> 18

Names == Permutations(Objects)

OneHash == {HashLow}

\* One function, as many as k, and a list the constructor refuses.
SomeLists == {<<HashLow>>, <<HashLow, HashHigh>>, <<HashLow, HashHigh, HashLow>>}

OneSeed == {0}

Drawn == [s \in OneSeed |-> <<2, 12>>]

XorBits(a, b) == a ^^ b
============================================================================

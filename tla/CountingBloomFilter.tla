------------------------ MODULE CountingBloomFilter ------------------------
(* CountingBloomFilter<m, k, bits_per_element, ElementType> of              *)
(* src/bloom_filters/counting_bloom_filters.hpp: several objects that are   *)
(* constructed, filled, emptied, united, copied, moved, assigned, restored  *)
(* and destroyed.                                                           *)
(*                                                                          *)
(* The member bf is a reference: it names an array of the heap, and keeps   *)
(* naming it.  The member _memory is the array the destructor deletes.  An  *)
(* array nobody can reach any more is not kept: its name is used again.     *)
EXTENDS Integers, FiniteSetsExt, SequencesExt

CONSTANTS
  m,             \* the template argument m: the number of counters
  k,             \* the template argument k: the number of hash functions
  Widths,        \* the values of bits_per_element a run may start with
  Elements,      \* the values of ElementType
  Lists,         \* the lists of hash functions callers pass
  Rand,          \* Rand[i]: the i-th std::rand() after std::srand(468486423)
  BitXor(_, _),  \* ^ on size_t
  Objects,       \* the names of the filter objects
  Amounts,       \* bound: how many times a filter may hold each element
  None           \* no object, no array

ASSUME CountingBloomFilterAssumption ==
  /\ m \in Nat \ {0} /\ k \in Nat \ {0}
  /\ Amounts \in [Elements -> SUBSET Nat] /\ \A e \in Elements : 0 \in Amounts[e]
  /\ Widths \subseteq {2, 4, 8}
  /\ Lists \subseteq Seq([Elements -> Nat])
  /\ Rand \in [1..k -> Nat]
  /\ \A l \in Lists, i \in 1..k, e \in Elements :
       Len(l) = 1 => BitXor(l[1][e], Rand[i]) \in Nat
  /\ IsFiniteSet(Objects) /\ IsFiniteSet(Elements)
  /\ None \notin Objects \cup Nat

VARIABLES
  bits_per_element,
  heap,          \* the arrays that have been made and not deleted
  memory,        \* the bytes of each array, zeros while there is none
  objects        \* the objects that live

vars == <<bits_per_element, heap, memory, objects>>

Buckets == 0 .. ((m * bits_per_element + 7) \div 8) - 1

Bytes == [Buckets -> 0..255]

Zeros == [b \in Buckets |-> 0]

\* As many names as there can be arrays in reach.
Arrays == 1..Cardinality(Objects)

\* A moved-from object's functions: none of them is callable.
Empty == <<>>

Hashes == [1..k -> [Elements -> Nat]]

\* added, mixed and moved are history.  added: how many times each element is in the
\* filter as far as its owner was told.  mixed: whether a count may differ from that,
\* since a counter exceeded its limit, an absent element was removed, foreign counters
\* were brought in, += read counters of two bits together with their neighbours
\* (Misread), or another object wrote to the array.  moved: whether the object was ever
\* moved from, also when it has been assigned to since.
Filter == [_memory : Arrays \cup {None}, bf : Arrays,
           hash_functions : Hashes \cup {Empty},
           added : [Elements -> Nat], mixed : BOOLEAN, moved : BOOLEAN]

NoneAdded == [e \in Elements |-> 0]

-----------------------------------------------------------------------------
(* Hash functions, counters and bytes.                                      *)

generateHashes(h) == [i \in 1..k |-> [e \in Elements |-> BitXor(h[e], Rand[i])]]

\* The lists addHashes accepts; with any other it throws and there is no object.
addHashes == {IF Len(l) = 1 THEN generateHashes(l[1]) ELSE l :
                l \in {l \in Lists : Len(l) \in {1, k}}}

\* The values of the k hash functions, in the order of the loops.
Vals(hs, e) == [i \in 1..k |-> hs[i][e] % m]

Bucket(v) == (v * bits_per_element) \div 8

Shift(part) == 2 ^ (part * bits_per_element)

\* Mutant: four counters to a byte, whatever their width.
PartOfFour(v) == v % 4

Part(v) == v % (8 \div bits_per_element)

\* (byte >> (part * bits_per_element)) & 0xF
Nibble(byte, part) == (byte \div Shift(part)) % 16

Counter(bytes, v) == Nibble(bytes[Bucket(v)], Part(v))

\* Mutant: the byte does not wrap.
AddWide(bytes, v) == [bytes EXCEPT ![Bucket(v)] = @ + Shift(Part(v))]

Add(bytes, v) == [bytes EXCEPT ![Bucket(v)] = (@ + Shift(Part(v))) % 256]

Subtract(bytes, v) ==
  IF Counter(bytes, v) = 0 THEN bytes
  ELSE [bytes EXCEPT ![Bucket(v)] = (@ - Shift(Part(v))) % 256]

set(bytes, hs, e)    == FoldLeft(Add, bytes, Vals(hs, e))
remove(bytes, hs, e) == FoldLeft(Subtract, bytes, Vals(hs, e))
has(bytes, hs, e)    == \A i \in 1..k : Counter(bytes, Vals(hs, e)[i]) # 0

\* Mutant: the largest of the counters.
countMost(bytes, hs, e) == Max({Counter(bytes, Vals(hs, e)[i]) : i \in 1..k})

count(bytes, hs, e) == Min({15} \cup {Counter(bytes, Vals(hs, e)[i]) : i \in 1..k})

\* operator+=, byte by byte and part by part.
Unite(x, y) ==
  LET Counts(b, part) == ((Nibble(x[b], part) + Nibble(y[b], part)) % 16) * Shift(part)
  IN  [b \in Buckets |->
         SumFunction([part \in 0 .. (8 \div bits_per_element) - 1 |-> Counts(b, part)]) % 256]

-----------------------------------------------------------------------------
(* What the history of a filter makes of its counters.                      *)

\* The counter v of a filter with hash functions hs that holds the elements of added.
Expected(hs, added, v) ==
  SumFunction([e \in Elements |->
                 added[e] * Cardinality({i \in 1..k : Vals(hs, e)[i] = v})])

\* What has, remove, count and += see of a counter is four bits of its byte.
Limit == IF bits_per_element = 2 THEN 3 ELSE 15

Exceeds(hs, added) == \E v \in 0..m-1 : Expected(hs, added, v) > Limit

\* Removing e may lower a counter that e has no part in.
Disturbs(f, e) ==
  /\ f.added[e] = 0
  /\ \/ bits_per_element = 2
     \/ \E i \in 1..k : Expected(f.hash_functions, f.added, Vals(f.hash_functions, e)[i]) > 0

\* The mask of += is four bits wide.  Of counters of two bits it takes each but the first
\* of a byte twice, the second time with the counter below it: unless these are all zero
\* the union doubles or loses them, however far they are from their limit.
Misread(bytes) == bits_per_element = 2 /\ \E b \in Buckets : bytes[b] > 3

-----------------------------------------------------------------------------
Lives(f) == objects[f] # None

\* A filter of whose counters nothing is known any more is only moved, assigned to and
\* destroyed: a bound, and what callers do with a filter they have moved from.
Known(f) == Lives(f) /\ ~objects[f].mixed

Alive == {f \in Objects : Lives(f)}

\* new: an array nobody refers to.
Fresh == CHOOSE a \in Arrays : \A g \in Alive : objects[g].bf # a

\* The objects once those in fs take the value given by new, when the arrays in written
\* were written: whoever else refers to one of them did not expect that.
Update(fs, new(_), written) ==
  [g \in Objects |-> IF g \in fs THEN new(g)
                     ELSE IF Lives(g) /\ objects[g].bf \in written
                     THEN [objects[g] EXCEPT !.mixed = TRUE] ELSE objects[g]]

Init ==
  /\ bits_per_element \in Widths
  /\ heap = {}
  /\ memory = [a \in Arrays |-> Zeros]
  /\ objects = [f \in Objects |-> None]

\* An object of its own array, which holds the given bytes.
Create(f, bytes, hs, added, mixed) ==
  /\ ~Lives(f)
  /\ heap' = heap \cup {Fresh}
  /\ memory' = [memory EXCEPT ![Fresh] = bytes]
  /\ objects' = [objects EXCEPT ![f] =
       [_memory |-> Fresh, bf |-> Fresh, hash_functions |-> hs, added |-> added,
        mixed |-> mixed, moved |-> FALSE]]
  /\ UNCHANGED bits_per_element

Construct(f) == \E hs \in addHashes : Create(f, Zeros, hs, NoneAdded, FALSE)

\* The constructor that takes a serialization: that of g.
Restore(f, g) ==
  /\ Known(g)
  /\ \E hs \in addHashes :
       LET same == objects[g].hash_functions = hs
       IN  Create(f, memory[objects[g].bf], hs,
                  IF same THEN objects[g].added ELSE NoneAdded, ~same)

\* t(f)
CopyConstruct(t, f) ==
  /\ Known(f)
  /\ Create(t, memory[objects[f].bf], objects[f].hash_functions, objects[f].added, FALSE)

\* f writes to the array it refers to, and is told of it.
Write(f, bytes, added, mixed) ==
  /\ memory' = [memory EXCEPT ![objects[f].bf] = bytes]
  /\ objects' = Update({f}, LAMBDA g : [objects[g] EXCEPT !.added = added, !.mixed = mixed],
                       {objects[f].bf})
  /\ UNCHANGED <<bits_per_element, heap>>

Set(f) ==
  /\ Known(f)
  /\ \E e \in {e \in Elements : objects[f].added[e] + 1 \in Amounts[e]} :
       LET hs    == objects[f].hash_functions
           added == [objects[f].added EXCEPT ![e] = @ + 1]
       IN  Write(f, set(memory[objects[f].bf], hs, e), added,
                 Exceeds(hs, added))

RemoveFrom(f) ==
  /\ Known(f)
  /\ \E e \in {e \in Elements : objects[f].added[e] - 1 \in Amounts[e] \cup {-1}} :
       Write(f, remove(memory[objects[f].bf], objects[f].hash_functions, e),
             [objects[f].added EXCEPT ![e] = Max({0, @ - 1})],
             Disturbs(objects[f], e))

\* f += g
AddAssign(f, g) ==
  /\ Known(f) /\ Known(g)
  /\ LET same  == objects[g].hash_functions = objects[f].hash_functions
         added == [e \in Elements |->
                     objects[f].added[e] + IF same THEN objects[g].added[e] ELSE 0]
         mine  == memory[objects[f].bf]
         other == memory[objects[g].bf]
     IN  /\ \A e \in Elements : added[e] \in Amounts[e]
         /\ Write(f, Unite(mine, other), added,
                  \/ ~same
                  \/ Misread(mine) \/ Misread(other)
                  \/ Exceeds(objects[f].hash_functions, added))

\* Mutant: obj._memory is not cleared.
MovedFromOwning(f) == [objects[f] EXCEPT !.hash_functions = Empty, !.added = NoneAdded,
                                         !.mixed = TRUE, !.moved = TRUE]

\* Nothing callable is left, and nothing to delete.
MovedFrom(f) == [objects[f] EXCEPT !._memory = None, !.hash_functions = Empty,
                                   !.added = NoneAdded, !.mixed = TRUE, !.moved = TRUE]

\* t(std::move(f)): t refers to the array of f, which still refers to it; the swap of
\* the contents of one array changes nothing, and nobody will delete it.
MoveConstruct(t, f) ==
  /\ Lives(f) /\ ~Lives(t)
  /\ objects' = [objects EXCEPT ![t] = [objects[f] EXCEPT !._memory = None],
                                ![f] = MovedFrom(f)]
  /\ UNCHANGED <<bits_per_element, heap, memory>>

\* What t takes from f when their members are swapped: all but the references.
Takes(t, f) == [objects[t] EXCEPT !.hash_functions = objects[f].hash_functions,
                                  !.added = objects[f].added, !.mixed = objects[f].mixed]

\* t = f: swaps with a copy of f, whose array nobody deletes.
Assign(t, f) ==
  /\ Lives(t) /\ Known(f)
  /\ memory' = [memory EXCEPT ![objects[t].bf] = memory[objects[f].bf]]
  /\ objects' = Update({t}, LAMBDA g : Takes(g, f), {objects[t].bf})
  /\ UNCHANGED <<bits_per_element, heap>>

\* t = std::move(f): swaps with an object that refers to the array of f.
MoveAssign(t, f) ==
  /\ Lives(t) /\ Lives(f)
  /\ memory' = [memory EXCEPT ![objects[t].bf] = memory[objects[f].bf],
                              ![objects[f].bf] = memory[objects[t].bf]]
  /\ objects' = IF t = f
                THEN [objects EXCEPT ![f]._memory = None]
                ELSE Update({t, f}, LAMBDA g : IF g = t THEN Takes(t, f) ELSE MovedFrom(f),
                            {objects[t].bf, objects[f].bf})
  /\ UNCHANGED <<bits_per_element, heap>>

\* ~CountingBloomFilter: an array that nobody refers to any more is forgotten.
Destroy(f) ==
  /\ Lives(f)
  /\ objects' = [objects EXCEPT ![f] = None]
  /\ LET gone == {a \in Arrays : \/ a = objects[f]._memory
                                 \/ \A g \in Alive \ {f} : objects[g].bf # a}
     IN  /\ heap' = heap \ gone
         /\ memory' = [a \in Arrays |-> IF a \in gone THEN Zeros ELSE memory[a]]
  /\ UNCHANGED bits_per_element

Next ==
  \/ \E f \in Objects : Construct(f) \/ Set(f) \/ RemoveFrom(f) \/ Destroy(f)
  \/ \E f, g \in Objects : \/ Restore(f, g) \/ CopyConstruct(f, g) \/ MoveConstruct(f, g)
                           \/ Assign(f, g) \/ MoveAssign(f, g) \/ AddAssign(f, g)

Spec == Init /\ [][Next]_vars

-----------------------------------------------------------------------------
TypeOK ==
  /\ bits_per_element \in Widths
  /\ heap \subseteq Arrays /\ memory \in [Arrays -> Bytes]
  /\ objects \in [Objects -> Filter \cup {None}]

\* A reference never outlives its array: whatever was moved, assigned or destroyed
\* before, an object that lives refers to memory that has not been deleted, and two
\* objects of which neither was ever moved from have arrays of their own
\* (counting_bloom_filters.hpp, the members bf and _memory, the move constructor and
\* ~CountingBloomFilter).  Exception: an object that was moved from keeps naming the
\* array it gave away.  The code does not prevent its use once it has been assigned to
\* (line 109), and after b(std::move(a)); a = c; both write to one array.
ReferencesSound ==
  /\ \A f \in Alive : objects[f].bf \in heap
  /\ \A f, g \in Alive : f # g /\ objects[f].bf = objects[g].bf
                           => objects[f].moved \/ objects[g].moved

\* Every counter holds exactly what the elements in the filter amount to, in whatever
\* order they were set, removed, united, copied, moved or restored, also next to other
\* counters of the same byte (set, remove, operator+=), until the filter is mixed.  The
\* code breaks its promise itself in two of the cases that mix a filter: += with counters
\* of two bits other than the first of their bytes (lines 131-133), and an object that was
\* moved from, assigned to and then written to, which changes the filter it was moved to.
CountersExact ==
  \A f \in {f \in Objects : Known(f)}, v \in 0..m-1 :
    (memory[objects[f].bf][Bucket(v)] \div Shift(Part(v))) % (2 ^ bits_per_element)
      = Expected(objects[f].hash_functions, objects[f].added, v)

\* No element in a filter that is not mixed is denied; count is never less than the
\* number of times it was added and not removed, and, with counters of at least four
\* bits, exceeds it only by what elements that share all its counters add (has, count).
\* The exceptions are those of CountersExact: two filters with one x each whose counter
\* is the last of a byte of two-bit counters unite to 64 + 64 + 64 + 64 = 0, no x.
CountsKept ==
  \A f \in {f \in Objects : Known(f)}, e \in Elements :
    LET o == objects[f]
        n == count(memory[o.bf], o.hash_functions, e)
        least == Min({Expected(o.hash_functions, o.added, Vals(o.hash_functions, e)[i]) :
                        i \in 1..k})
    IN  /\ o.added[e] > 0 => has(memory[o.bf], o.hash_functions, e)
        /\ n >= o.added[e]
        /\ bits_per_element # 2 => n = least
============================================================================

---------------------------- MODULE BloomFilter ----------------------------
(* BloomFilter<m, k, ElementType> of src/bloom_filters/bloom_filters.hpp:   *)
(* several filter objects that are constructed, filled, united, copied,     *)
(* moved, assigned and restored from a serialization.                       *)
(*                                                                          *)
(* A uint8_t is the set of the bits that are 1 in it, a hash function is a  *)
(* function from elements to numbers.  A filter is a record: its first two  *)
(* fields are the object's members, the other two are history.              *)
EXTENDS Integers, Sequences

CONSTANTS
  m,               \* the template argument m: the number of bits
  k,               \* the template argument k: the number of hash functions
  Elements,        \* the values of ElementType
  HashFunctions,   \* the seed functions callers pass to the one constructor
  Lists,           \* the lists of functions they pass to the other
  Seeds,           \* the seeds callers pass
  DefaultSeed,     \* the default argument 468486423
  Rand,            \* Rand[s][i]: the i-th std::rand() after std::srand(s)
  BitXor(_, _),    \* ^ on size_t
  Objects,         \* the names of the filter objects
  None

Buckets == 0 .. ((m + 7) \div 8) - 1

Bytes == [Buckets -> SUBSET (0 .. 7)]

\* The hash_functions member: k functions; none of them callable once the
\* filter has been moved from (empty std::functions).
Empty == <<>>

Hashes == [1 .. k -> [Elements -> Nat]]

\* added: the elements the filter was told of, through its own hash functions.
\* mixed: its bytes may also hold marks of other hash functions.
Filter == [bf : Bytes, hash_functions : Hashes \cup {Empty},
           added : SUBSET Elements, mixed : BOOLEAN]

ASSUME BloomFilterAssumption ==
  /\ m \in Nat \ {0}
  /\ k \in Nat \ {0}
  /\ HashFunctions \subseteq [Elements -> Nat]
  /\ Lists \subseteq Seq([Elements -> Nat])
  /\ DefaultSeed \in Seeds
  /\ Rand \in [Seeds -> [1 .. k -> Nat]]
  /\ \A h \in HashFunctions \cup {l[1] : l \in Lists \ {<<>>}}, s \in Seeds, e \in Elements, i \in 1 .. k :
       BitXor(h[e], Rand[s][i]) \in Nat
  /\ None \notin Filter

VARIABLES
  objects,   \* the objects that live: their members and their history
  saved      \* the last serialization a caller keeps

vars == <<objects, saved>>

-----------------------------------------------------------------------------
(* Hash functions and bytes.                                                *)

\* Mutant of generateHashes: for (i = 1; i < k; ++i).
OneTooFew(h, seed) ==
  [i \in 1 .. k - 1 |-> [e \in Elements |-> BitXor(h[e], Rand[seed][i])]]

generateHashes(h, seed) ==
  [i \in 1 .. k |-> [e \in Elements |-> BitXor(h[e], Rand[seed][i])]]

\* The lists addHashes accepts; with any other it throws and there is no object.
Accepted == {l \in Lists : Len(l) \in {1, k}}

\* A list of one function is a seed function, even when k is 1.
addHashes(l) == IF Len(l) = 1 THEN generateHashes(l[1], DefaultSeed) ELSE l

\* The positions an element marks.
Positions(hs, e) == {hs[i][e] % m : i \in 1 .. k}

\* The bytes in which exactly the given positions are 1.
BytesOf(V) == [b \in Buckets |-> {v % 8 : v \in {w \in V : w \div 8 = b}}]

\* Mutants of Unite: ^= for |=, and m / 8 bytes for (m + 7) / 8.
Toggle(x, y) == [b \in Buckets |-> (x[b] \cup y[b]) \ (x[b] \cap y[b])]

WholeBytes(x, y) == [b \in Buckets |-> IF b < m \div 8 THEN x[b] \cup y[b] ELSE x[b]]

\* |= on every byte.
Unite(x, y) == [b \in Buckets |-> x[b] \cup y[b]]

set(f, e) == [f EXCEPT !.bf = Unite(@, BytesOf(Positions(f.hash_functions, e))),
                       !.added = @ \cup {e}]

has(f, e) == \A v \in Positions(f.hash_functions, e) : v % 8 \in f.bf[v \div 8]

-----------------------------------------------------------------------------
(* Values of the objects.                                                   *)

\* What the marks of g promise to a filter that looks them up with hs.
Promised(hs, g) == IF g.hash_functions = hs THEN g.added ELSE {}

Blurred(hs, g) == g.mixed \/ g.hash_functions # hs

Constructed(hs) ==
  [bf |-> BytesOf({}), hash_functions |-> hs, added |-> {}, mixed |-> FALSE]

\* A filter constructed with hs from the serialized bytes of g.
Restored(hs, g) ==
  [bf |-> g.bf, hash_functions |-> hs, added |-> Promised(hs, g),
   mixed |-> Blurred(hs, g)]

\* operator+=
Union(f, g) ==
  [f EXCEPT !.bf = Unite(@, g.bf),
            !.added = @ \cup Promised(f.hash_functions, g),
            !.mixed = @ \/ Blurred(f.hash_functions, g)]

\* The value-initialized object of the move constructor: all of it is zero.
Defaulted == Constructed(Empty)

-----------------------------------------------------------------------------
Lives(f) == objects[f] # None

Callable(f) == Lives(f) /\ objects[f].hash_functions # Empty

Init == objects = [f \in Objects |-> None] /\ saved = None

\* Either constructor, from no bytes or from a serialization.
Construct(f, hs) ==
  /\ ~Lives(f)
  /\ \E v \in {Constructed(hs)} \cup IF saved = None THEN {} ELSE {Restored(hs, saved)} :
       objects' = [objects EXCEPT ![f] = v]
  /\ UNCHANGED saved

ConstructFromList(f) == \E l \in Accepted : Construct(f, addHashes(l))

ConstructFromSeed(f) ==
  \E h \in HashFunctions, seed \in Seeds : Construct(f, generateHashes(h, seed))

\* With empty hash functions set throws and nothing changes.
Set(f) ==
  /\ Callable(f)
  /\ \E e \in Elements : objects' = [objects EXCEPT ![f] = set(@, e)]
  /\ UNCHANGED saved

Serialize(f) ==
  /\ Lives(f)
  /\ saved' = objects[f]
  /\ UNCHANGED objects

AddAssign(f, g) ==
  /\ Lives(f) /\ Lives(g)
  /\ objects' = [objects EXCEPT ![f] = Union(@, objects[g])]
  /\ UNCHANGED saved

\* t(f), or t = f, whose argument is a copy that takes t's old value with it.
Copy(t, f) ==
  /\ Lives(f)
  /\ objects' = [objects EXCEPT ![t] = objects[f]]
  /\ UNCHANGED saved

\* t(f + g) or t = f + g: t takes a copy of f with g added to it.
Sum(t, f, g) ==
  /\ Lives(f) /\ Lives(g)
  /\ objects' = [objects EXCEPT ![t] = Union(objects[f], objects[g])]
  /\ UNCHANGED saved

\* t(std::move(f)), where a default constructed object and f swap their
\* members, or t = std::move(f), whose argument is constructed that way and
\* swaps with t; when t is f it gets its value back.
Move(t, f) ==
  /\ Lives(f)
  /\ objects' = [objects EXCEPT ![f] = Defaulted, ![t] = objects[f]]
  /\ UNCHANGED saved

Destroy(f) ==
  /\ Lives(f)
  /\ objects' = [objects EXCEPT ![f] = None]
  /\ UNCHANGED saved

Next ==
  \/ \E f \in Objects : ConstructFromList(f) \/ ConstructFromSeed(f)
                        \/ Set(f) \/ Serialize(f) \/ Destroy(f)
  \/ \E f, g \in Objects : AddAssign(f, g) \/ Copy(f, g) \/ Move(f, g)
  \/ \E t, f, g \in Objects : Sum(t, f, g)

Spec == Init /\ [][Next]_vars

-----------------------------------------------------------------------------
TypeOK == /\ objects \in [Objects -> Filter \cup {None}]
          /\ saved \in Filter \cup {None}

\* The objects that live, and the one whose bytes a caller has saved.
Values == {v \in {objects[f] : f \in Objects} \cup {saved} : v # None}

\* has never denies an element that was set in the filter, or in one it was
\* copied, moved, assigned or restored from, or that was united into it, as
\* long as the marks were made with the hash functions they are looked up with
\* (bloom_filters.hpp, set, has, operator+=, operator=, serialize).
NoFalseNegatives == \A v \in Values : \A e \in v.added : has(v, e)

\* The marks of the elements a filter was told of.
Marks(v) == UNION {Positions(v.hash_functions, e) : e \in v.added}

\* A filter no foreign bytes were united into or restored to holds exactly the
\* marks of the elements it was told of: in whatever order they came, and
\* whether by set, union, copy, move, assignment or serialization, its
\* serialization is the one that setting them one by one would give, and what
\* has wrongly affirms is explained by those elements alone.
Exact == \A v \in Values : ~v.mixed => v.bf = BytesOf(Marks(v))

\* The filters that keep both promises, and none after they were moved from.
SoundFilter ==
  {v \in Filter : /\ \A e \in v.added : has(v, e)
                  /\ ~v.mixed => v.bf = BytesOf(Marks(v))
                  /\ v.hash_functions = Empty => v.added = {}}

\* The inductive invariant: every object is sound, and so was the one whose
\* bytes are saved.
IInv == /\ objects \in [Objects -> SoundFilter \cup {None}]
        /\ saved \in SoundFilter \cup {None}
============================================================================

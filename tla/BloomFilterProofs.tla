------------------------- MODULE BloomFilterProofs -------------------------
(* Theorems about BloomFilter, for every m, k, set of elements and hashes.  *)
EXTENDS BloomFilter, TLAPS

-----------------------------------------------------------------------------
(* Positions and bytes.                                                     *)

\* A position below m is a bit of one of the bytes: val / 8 and val % 8 in set.
LEMMA PositionInBytes ==
  ASSUME NEW v \in 0 .. m - 1
  PROVE  v \div 8 \in Buckets /\ v % 8 \in 0 .. 7
<1>1. m \in Nat \ {0}
  BY BloomFilterAssumption
<1> QED
  BY <1>1 DEF Buckets

\* A hash value modulo m is a position below m.
LEMMA PositionsBelowM ==
  ASSUME NEW hs \in Hashes, NEW e \in Elements
  PROVE  Positions(hs, e) \subseteq 0 .. m - 1
<1>1. m \in Nat /\ m > 0
  BY BloomFilterAssumption
<1>2. ASSUME NEW i \in 1 .. k PROVE hs[i][e] % m \in 0 .. m - 1
  <2>1. hs[i][e] \in Nat
    BY DEF Hashes
  <2> QED
    BY <1>1, <2>1
<1> QED
  BY <1>2 DEF Positions

\* Positions below m fill bytes of the filter's array.
LEMMA BytesOfType ==
  ASSUME NEW V \in SUBSET (0 .. m - 1)
  PROVE  BytesOf(V) \in Bytes
<1>1. \A v \in V : v % 8 \in 0 .. 7
  BY PositionInBytes
<1> QED
  BY <1>1 DEF BytesOf, Bytes

\* The union of two arrays is an array, and it has the bits of both.
LEMMA UniteType ==
  ASSUME NEW a \in Bytes, NEW b \in Bytes
  PROVE  Unite(a, b) \in Bytes
BY DEF Unite, Bytes

\* Uniting arrays unites the positions they mark.
LEMMA UniteBytesOf ==
  ASSUME NEW V, NEW W
  PROVE  Unite(BytesOf(V), BytesOf(W)) = BytesOf(V \cup W)
<1>1. ASSUME NEW b \in Buckets
      PROVE  BytesOf(V)[b] \cup BytesOf(W)[b] = BytesOf(V \cup W)[b]
  BY DEF BytesOf
<1>2. Unite(BytesOf(V), BytesOf(W)) = [b \in Buckets |-> BytesOf(V \cup W)[b]]
  BY <1>1 DEF Unite
<1> QED
  BY <1>2 DEF BytesOf

-----------------------------------------------------------------------------
(* Values of filters.                                                       *)

\* A bit of either array is a bit of their union.
LEMMA HasUnited ==
  ASSUME NEW f \in Filter, NEW bytes \in Bytes, NEW e \in Elements,
         f.hash_functions \in Hashes,
         \/ has(f, e)
         \/ has([f EXCEPT !.bf = bytes], e),
         NEW g \in Filter, g.hash_functions = f.hash_functions,
         g.bf = Unite(f.bf, bytes)
  PROVE  has(g, e)
<1>1. ASSUME NEW v \in Positions(f.hash_functions, e)
      PROVE  v % 8 \in Unite(f.bf, bytes)[v \div 8]
  <2>1. v \div 8 \in Buckets
    BY PositionsBelowM, PositionInBytes
  <2>2. v % 8 \in f.bf[v \div 8] \/ v % 8 \in bytes[v \div 8]
    BY DEF has, Filter
  <2> QED
    BY <2>1, <2>2 DEF Unite
<1> QED
  BY <1>1 DEF has

\* A new filter is sound: the constructors.
LEMMA ConstructedSound ==
  ASSUME NEW hs \in Hashes \cup {Empty}
  PROVE  Constructed(hs) \in SoundFilter
<1>1. BytesOf({}) \in Bytes
  BY BytesOfType
<1>2. Marks(Constructed(hs)) = {}
  BY DEF Marks, Constructed
<1> QED
  BY <1>1, <1>2 DEF SoundFilter, Constructed, Filter

\* A filter restored from the bytes of a sound one is sound.
LEMMA RestoredSound ==
  ASSUME NEW hs \in Hashes \cup {Empty}, NEW g \in SoundFilter
  PROVE  Restored(hs, g) \in SoundFilter
<1> DEFINE r == Restored(hs, g)
<1>1. r \in Filter
  BY DEF SoundFilter, Restored, Promised, Blurred, Filter
<1>2. CASE g.hash_functions = hs
  <2>1. /\ r.added = g.added /\ r.bf = g.bf /\ r.mixed = g.mixed
        /\ r.hash_functions = g.hash_functions
    BY <1>2 DEF Restored, Promised, Blurred, SoundFilter, Filter
  <2>2. Marks(r) = Marks(g)
    BY <2>1 DEF Marks
  <2>3. \A e \in r.added : has(r, e)
    BY <2>1 DEF has, SoundFilter
  <2> QED
    BY <1>1, <2>1, <2>2, <2>3 DEF SoundFilter
<1>3. CASE g.hash_functions # hs
  BY <1>1, <1>3 DEF SoundFilter, Restored, Promised, Blurred
<1> QED
  BY <1>2, <1>3

\* operator+= of two sound filters leaves a sound filter.
LEMMA UnionSound ==
  ASSUME NEW f \in SoundFilter, NEW g \in SoundFilter
  PROVE  Union(f, g) \in SoundFilter
<1> DEFINE u == Union(f, g)
<1>1. /\ u.bf = Unite(f.bf, g.bf)
      /\ u.hash_functions = f.hash_functions
      /\ u.added = f.added \cup Promised(f.hash_functions, g)
      /\ u.mixed = (f.mixed \/ Blurred(f.hash_functions, g))
  BY DEF Union, SoundFilter, Filter
<1>2. u \in Filter
  <2>1. Unite(f.bf, g.bf) \in Bytes
    BY UniteType DEF SoundFilter, Filter
  <2> QED
    BY <2>1 DEF Union, Promised, Blurred, SoundFilter, Filter
<1>3. ASSUME NEW e \in u.added PROVE has(u, e)
  <2>1. f.hash_functions \in Hashes /\ e \in Elements
    BY <1>1, <1>3 DEF SoundFilter, Filter, Promised
  <2>2. has(f, e) \/ has([f EXCEPT !.bf = g.bf], e)
    <3>1. CASE e \in f.added
      BY <3>1 DEF SoundFilter
    <3>2. CASE e \in Promised(f.hash_functions, g)
      <4>1. g.hash_functions = f.hash_functions /\ has(g, e)
        BY <3>2 DEF Promised, SoundFilter
      <4> QED
        BY <4>1 DEF has, SoundFilter, Filter
    <3> QED
      BY <1>1, <1>3, <3>1, <3>2
  <2> QED
    BY <1>1, <1>2, <2>1, <2>2, HasUnited DEF SoundFilter, Filter
<1>4. ASSUME ~u.mixed PROVE u.bf = BytesOf(Marks(u))
  <2>1. ~f.mixed /\ ~g.mixed /\ g.hash_functions = f.hash_functions
    BY <1>1, <1>4 DEF Blurred
  <2>2. u.added = f.added \cup g.added
    BY <1>1, <2>1 DEF Promised
  <2>3. Marks(u) = Marks(f) \cup Marks(g)
    BY <1>1, <2>1, <2>2 DEF Marks
  <2>4. f.bf = BytesOf(Marks(f)) /\ g.bf = BytesOf(Marks(g))
    BY <2>1 DEF SoundFilter
  <2> QED
    BY <1>1, <2>3, <2>4, UniteBytesOf
<1>5. u.hash_functions = Empty => u.added = {}
  BY <1>1 DEF SoundFilter, Promised
<1> QED
  BY <1>2, <1>3, <1>4, <1>5 DEF SoundFilter

\* set in a sound filter leaves a sound filter.
LEMMA SetSound ==
  ASSUME NEW f \in SoundFilter, f.hash_functions # Empty, NEW e \in Elements
  PROVE  set(f, e) \in SoundFilter
<1> DEFINE s == set(f, e)
<1> DEFINE P == Positions(f.hash_functions, e)
<1>1. /\ s.bf = Unite(f.bf, BytesOf(P))
      /\ s.hash_functions = f.hash_functions
      /\ s.added = f.added \cup {e}
      /\ s.mixed = f.mixed
  BY DEF set, SoundFilter, Filter
<1>2. f.hash_functions \in Hashes /\ f \in Filter
  BY DEF SoundFilter, Filter
<1>3. P \subseteq 0 .. m - 1
  BY <1>2, PositionsBelowM
<1>4. BytesOf(P) \in Bytes
  BY <1>3, BytesOfType
<1>5. s \in Filter
  <2>1. Unite(f.bf, BytesOf(P)) \in Bytes
    BY <1>2, <1>4, UniteType DEF Filter
  <2> QED
    BY <1>2, <2>1 DEF set, Filter
<1>6. has([f EXCEPT !.bf = BytesOf(P)], e)
  <2>1. ASSUME NEW v \in P PROVE v % 8 \in BytesOf(P)[v \div 8]
    BY <1>3, PositionInBytes DEF BytesOf
  <2> QED
    BY <1>2, <2>1 DEF has, Filter
<1>7. ASSUME NEW d \in s.added PROVE has(s, d)
  <2>1. d \in Elements
    BY <1>5 DEF Filter
  <2>2. has(f, d) \/ has([f EXCEPT !.bf = BytesOf(P)], d)
    BY <1>1, <1>6 DEF SoundFilter
  <2> QED
    BY <1>1, <1>2, <1>4, <1>5, <2>1, <2>2, HasUnited
<1>8. ASSUME ~s.mixed PROVE s.bf = BytesOf(Marks(s))
  <2>1. f.bf = BytesOf(Marks(f))
    BY <1>1, <1>8 DEF SoundFilter
  <2>2. Marks(s) = Marks(f) \cup P
    BY <1>1 DEF Marks
  <2> QED
    BY <1>1, <2>1, <2>2, UniteBytesOf
<1> QED
  BY <1>1, <1>5, <1>7, <1>8 DEF SoundFilter

-----------------------------------------------------------------------------
(* The invariant.                                                           *)

\* The hash functions a constructor installs are k functions.
LEMMA HashesType ==
  /\ \A l \in Accepted : addHashes(l) \in Hashes
  /\ \A h \in HashFunctions, seed \in Seeds : generateHashes(h, seed) \in Hashes
<1>1. ASSUME NEW h \in HashFunctions \cup {l[1] : l \in Lists \ {<<>>}}, NEW seed \in Seeds
      PROVE  generateHashes(h, seed) \in Hashes
  BY <1>1, BloomFilterAssumption DEF generateHashes, Hashes
<1>2. ASSUME NEW l \in Accepted PROVE addHashes(l) \in Hashes
  <2>1. l \in Lists /\ l \in Seq([Elements -> Nat]) /\ Len(l) \in {1, k} /\ k \in Nat \ {0}
    BY BloomFilterAssumption DEF Accepted
  <2>2. CASE Len(l) = 1
    <3>1. l # <<>>
      BY <2>1, <2>2
    <3> QED
      BY <1>1, <2>1, <2>2, <3>1, BloomFilterAssumption DEF addHashes
  <2>3. CASE Len(l) # 1
    <3>1. l \in [1 .. k -> [Elements -> Nat]]
      BY <2>1, <2>3
    <3> QED
      BY <2>3, <3>1 DEF addHashes, Hashes
  <2> QED
    BY <2>2, <2>3
<1> QED
  BY <1>1, <1>2

\* The inductive invariant holds initially and every step preserves it.
LEMMA IInvInit == Init => IInv
BY DEF Init, IInv

LEMMA IInvStep == IInv /\ [Next]_vars => IInv'
<1> SUFFICES ASSUME IInv, [Next]_vars PROVE IInv'
  OBVIOUS
<1> DEFINE Held == SoundFilter \cup {None}
<1>1. ASSUME NEW f \in Objects, NEW v \in Held,
             objects' = [objects EXCEPT ![f] = v], UNCHANGED saved
      PROVE  IInv'
  BY <1>1 DEF IInv
<1>2. ASSUME NEW f \in Objects, Lives(f) PROVE objects[f] \in SoundFilter
  BY <1>2 DEF IInv, Lives
<1>3. ASSUME NEW f \in Objects, NEW hs \in Hashes, Construct(f, hs) PROVE IInv'
  <2>1. \/ objects' = [objects EXCEPT ![f] = Constructed(hs)]
        \/ saved \in SoundFilter /\ objects' = [objects EXCEPT ![f] = Restored(hs, saved)]
    BY <1>3 DEF Construct, IInv
  <2>2. Constructed(hs) \in Held /\ (saved \in SoundFilter => Restored(hs, saved) \in Held)
    BY ConstructedSound, RestoredSound
  <2> QED
    BY <1>1, <1>3, <2>1, <2>2 DEF Construct
<1>4. ASSUME NEW f \in Objects, ConstructFromList(f) PROVE IInv'
  BY <1>3, <1>4, HashesType DEF ConstructFromList
<1>5. ASSUME NEW f \in Objects, ConstructFromSeed(f) PROVE IInv'
  BY <1>3, <1>5, HashesType DEF ConstructFromSeed
<1>6. ASSUME NEW f \in Objects, Set(f) PROVE IInv'
  <2>1. PICK e \in Elements : objects' = [objects EXCEPT ![f] = set(objects[f], e)]
    BY <1>6 DEF Set, IInv
  <2>2. set(objects[f], e) \in Held
    BY <1>2, <1>6, SetSound DEF Set, Callable
  <2> QED
    BY <1>1, <1>6, <2>1, <2>2 DEF Set
<1>7. ASSUME NEW f \in Objects, Serialize(f) PROVE IInv'
  BY <1>2, <1>7 DEF Serialize, IInv
<1>8. ASSUME NEW f \in Objects, Destroy(f) PROVE IInv'
  BY <1>1, <1>8 DEF Destroy
<1>9. ASSUME NEW f \in Objects, NEW g \in Objects, AddAssign(f, g) PROVE IInv'
  <2>1. Union(objects[f], objects[g]) \in Held
    BY <1>2, <1>9, UnionSound DEF AddAssign
  <2> QED
    BY <1>1, <1>9, <2>1 DEF AddAssign, IInv
<1>10. ASSUME NEW t \in Objects, NEW f \in Objects, Copy(t, f) PROVE IInv'
  BY <1>1, <1>2, <1>10 DEF Copy
<1>11. Defaulted \in SoundFilter
  BY ConstructedSound DEF Defaulted
<1>12. ASSUME NEW t \in Objects, NEW f \in Objects, Move(t, f) PROVE IInv'
  BY <1>2, <1>11, <1>12 DEF Move, IInv
<1>13. ASSUME NEW t \in Objects, NEW f \in Objects, NEW g \in Objects, Sum(t, f, g)
       PROVE  IInv'
  <2>1. Union(objects[f], objects[g]) \in Held
    BY <1>2, <1>13, UnionSound DEF Sum
  <2> QED
    BY <1>1, <1>13, <2>1 DEF Sum
<1>14. CASE UNCHANGED vars
  BY <1>14 DEF vars, IInv
<1> QED
  BY <1>4, <1>5, <1>6, <1>7, <1>8, <1>9, <1>10, <1>12, <1>13, <1>14 DEF Next

\* Every reachable filter is sound.
THEOREM IInvAlways == Spec => []IInv
<1> QED
  BY IInvInit, IInvStep, PTL DEF Spec

\* No false negatives, for every m, k, hash functions and any number of filters.
THEOREM NoFalseNegativesAlways == Spec => []NoFalseNegatives
<1>1. IInv => NoFalseNegatives
  BY DEF IInv, NoFalseNegatives, Values, SoundFilter
<1> QED
  BY <1>1, IInvAlways, PTL

\* Filters that no foreign bytes were united into hold exactly the marks of
\* the elements they were told of.
THEOREM ExactAlways == Spec => []Exact
<1>1. IInv => Exact
  BY DEF IInv, Exact, Values, SoundFilter
<1> QED
  BY <1>1, IInvAlways, PTL

\* Types, for every instance.
THEOREM TypeCorrect == Spec => []TypeOK
<1>1. IInv => TypeOK
  BY DEF IInv, TypeOK, SoundFilter
<1> QED
  BY <1>1, IInvAlways, PTL
============================================================================

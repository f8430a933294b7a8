---------------------- MODULE CountingBloomFilterProofs ----------------------
(* References of CountingBloomFilter never dangle; until a filter is mixed    *)
(* (see Filter) its counters are exact and its counts are kept.  For every    *)
(* number of objects, counters, hash functions and elements and for counters  *)
(* of two, four and eight bits.                                               *)
EXTENDS CountingBloomFilter, FiniteSetTheorems, WellFoundedInduction, TLAPS

-----------------------------------------------------------------------------
(* Induction.  The library's induction theorems take an operator as a        *)
(* parameter; those here take a set, the one of the numbers or sets for which *)
(* the claim holds, and rest on the least element of a set of numbers.       *)

Less == OpToRel(<, Nat)

\* The natural numbers are well ordered.
LEMMA LessIsWellFounded == IsWellFoundedOn(Less, Nat)
BY NatLessThanWellFounded DEF Less

\* Less is <, as a relation.
LEMMA LessIsLess == \A x, y \in Nat : <<x, y>> \in Less <=> x < y
BY DEF Less, OpToRel

\* Every set of natural numbers has a least element.
LEMMA LeastElement ==
  ASSUME NEW T, T \subseteq Nat, T # {}
  PROVE  \E x \in T : \A y \in T : x <= y
<1>1. \E x \in T : \A y \in T : ~ (<<y, x>> \in Less)
  BY LessIsWellFounded, WFMin
<1>2. ASSUME NEW x \in T, NEW y \in T, ~ (<<y, x>> \in Less)  PROVE ~ (y < x)
  BY <1>2, LessIsLess, Zenon
<1>3. \A x, y \in T : ~ (y < x) => x <= y
  BY SMT
<1> QED
  BY <1>1, <1>2, <1>3, Zenon

\* A set that has 0, and the successor of each of its elements, has every number.
LEMMA SetInduction ==
  ASSUME NEW I, 0 \in I, \A n \in Nat : n \in I => n + 1 \in I
  PROVE  \A n \in Nat : n \in I
<1> SUFFICES ASSUME Nat \ I # {} PROVE FALSE
  OBVIOUS
<1>1. PICK x \in Nat \ I : \A y \in Nat \ I : x <= y
  BY LeastElement
<1>2. x # 0 /\ x - 1 \in Nat /\ x - 1 \in I
  BY <1>1
<1> QED BY <1>1, <1>2

\* A set of parts of S that has the empty one, and with each also what one more element
\* of S makes of it, has S itself.
LEMMA FiniteInduction ==
  ASSUME NEW S, IsFiniteSet(S), NEW I, {} \in I,
         \A T \in SUBSET S : \A x \in S \ T : T \in I => T \cup {x} \in I
  PROVE  S \in I
<1> DEFINE J == {n \in Nat : \A s \in SUBSET S : Cardinality(s) = n => s \in I}
<1>0. ASSUME NEW s \in SUBSET S  PROVE IsFiniteSet(s) /\ Cardinality(s) \in Nat
  BY FS_Subset, FS_CardinalityType
<1>1. 0 \in J
  BY <1>0, FS_EmptySet
<1>2. ASSUME NEW n \in Nat, n \in J  PROVE n + 1 \in J
  <2> SUFFICES ASSUME NEW s \in SUBSET S, Cardinality(s) = n + 1  PROVE s \in I
    OBVIOUS
  <2>1. s # {}
    <3>1. Cardinality({}) = 0 /\ n + 1 # 0
      BY FS_EmptySet
    <3> HIDE DEF J
    <3> QED BY <3>1, Zenon
  <2>2. PICK x \in s : TRUE
    BY <2>1
  <2>3. Cardinality(s \ {x}) = n
    <3>1. Cardinality(s \ {x}) = Cardinality(s) - 1
      BY <1>0, FS_RemoveElement
    <3> QED BY <3>1
  <2>4. s \ {x} \in I
    BY <1>2, <2>3
  <2>5. (s \ {x}) \cup {x} = s
    OBVIOUS
  <2> HIDE DEF J
  <2> QED BY <2>4, <2>5
<1>3. Cardinality(S) \in J
  <2> HIDE DEF J
  <2> QED BY <1>0, <1>1, <1>2, SetInduction
<1> QED BY <1>3

-----------------------------------------------------------------------------
(* Recursion over the parts of a finite set.                                 *)

\* f is the recursion that takes the element c[s] from s and combines it by h with what
\* it makes of the rest.
Unfolds(f, S, base, c, h) ==
  f = [s \in SUBSET S |-> IF s = {} THEN base ELSE h[<<c[s], f[s \ {c[s]}]>>]]

\* There is such a recursion, and its values are in V.
LEMMA FoldExists ==
  ASSUME NEW S, IsFiniteSet(S), NEW V, NEW base \in V, NEW c, NEW h \in [S \X V -> V],
         \A s \in SUBSET S : s # {} => c[s] \in s
  PROVE  \E f \in [SUBSET S -> V] : Unfolds(f, S, base, c, h)
<1> DEFINE Small(n) == {s \in SUBSET S : Cardinality(s) <= n}
           Is(f, n) == f = [s \in Small(n) |-> IF s = {} THEN base
                                               ELSE h[<<c[s], f[s \ {c[s]}]>>]]
           I == {n \in Nat : \E f \in [Small(n) -> V] : Is(f, n)}
<1>0. ASSUME NEW s \in SUBSET S  PROVE IsFiniteSet(s) /\ Cardinality(s) \in Nat
  BY FS_Subset, FS_CardinalityType
<1>1. 0 \in I
  <2> DEFINE f == [s \in Small(0) |-> base]
  <2>1. \A s \in Small(0) : s = {}
    BY <1>0, FS_EmptySet
  <2>2. Is(f, 0) /\ f \in [Small(0) -> V]
    BY <2>1
  <2> QED BY <2>2
<1>2. ASSUME NEW n \in Nat, n \in I  PROVE n + 1 \in I
  <2>1. PICK f \in [Small(n) -> V] : Is(f, n)
    BY <1>2
  <2> DEFINE g == [s \in Small(n + 1) |-> IF s = {} THEN base
                                          ELSE h[<<c[s], f[s \ {c[s]}]>>]]
  <2>2. ASSUME NEW s \in Small(n + 1), s # {}
        PROVE  s \ {c[s]} \in Small(n) /\ c[s] \in S
    BY <2>2, <1>0, FS_RemoveElement
  <2>3. \A s \in Small(n) : s \in Small(n + 1) /\ f[s] \in V
    BY <1>0
  <2>4. ASSUME NEW s \in Small(n)  PROVE g[s] = f[s]
    BY <2>1, <2>3, Zenon
  <2>5. g \in [Small(n + 1) -> V]
    BY <2>2, <2>3
  <2>6. Is(g, n + 1)
    BY <2>2, <2>4
  <2>7. \E q \in [Small(n + 1) -> V] : Is(q, n + 1)
    <3> HIDE DEF g, Is, Small
    <3> QED BY <2>5, <2>6
  <2> QED
    <3>1. n + 1 \in Nat
      OBVIOUS
    <3> HIDE DEF Is, Small, g
    <3> QED BY <2>7, <3>1, Zenon
<1>3. Cardinality(S) \in I
  <2> HIDE DEF I
  <2> QED BY <1>0, <1>1, <1>2, SetInduction
<1>4. PICK f \in [Small(Cardinality(S)) -> V] : Is(f, Cardinality(S))
  BY <1>3
<1>5. Small(Cardinality(S)) = SUBSET S
  BY FS_Subset
<1>6. f \in [SUBSET S -> V]
  BY <1>4, <1>5
<1>7. Unfolds(f, S, base, c, h)
  BY <1>4, <1>5 DEF Unfolds
<1> QED
  BY <1>6, <1>7

\* Two of them agree on the sets both are defined on.
LEMMA FoldUnique ==
  ASSUME NEW S, IsFiniteSet(S), NEW T, IsFiniteSet(T), NEW base, NEW c, NEW h, NEW f, NEW g,
         Unfolds(f, S, base, c, h), Unfolds(g, T, base, c, h),
         \A s \in SUBSET S : s # {} => c[s] \in s,
         NEW U \in SUBSET S, U \in SUBSET T
  PROVE  f[U] = g[U]
<1> DEFINE I == {n \in Nat : \A s \in (SUBSET S) \cap (SUBSET T) : Cardinality(s) = n => f[s] = g[s]}
<1>0. ASSUME NEW s \in SUBSET S  PROVE IsFiniteSet(s) /\ Cardinality(s) \in Nat
  BY FS_Subset, FS_CardinalityType
<1>1. \A s \in SUBSET S : f[s] = IF s = {} THEN base ELSE h[<<c[s], f[s \ {c[s]}]>>]
  BY DEF Unfolds
<1>2. \A s \in SUBSET T : g[s] = IF s = {} THEN base ELSE h[<<c[s], g[s \ {c[s]}]>>]
  BY DEF Unfolds
<1>3. 0 \in I
  BY <1>0, <1>1, <1>2, FS_EmptySet
<1>4. ASSUME NEW n \in Nat, n \in I  PROVE n + 1 \in I
  <2> SUFFICES ASSUME NEW s \in (SUBSET S) \cap (SUBSET T), Cardinality(s) = n + 1
               PROVE  f[s] = g[s]
    BY DEF I
  <2>1. s # {} /\ IsFiniteSet(s)
    <3>1. Cardinality({}) = 0 /\ n + 1 # 0
      BY FS_EmptySet
    <3> HIDE DEF I
    <3> QED BY <3>1, <1>0, Zenon
  <2>2. Cardinality(s \ {c[s]}) = n
    <3>1. c[s] \in s
      BY <2>1
    <3>2. Cardinality(s \ {c[s]}) = Cardinality(s) - 1
      <4> HIDE DEF I
      <4>1. Cardinality(s \ {c[s]}) = IF c[s] \in s THEN Cardinality(s) - 1
                                      ELSE Cardinality(s)
        BY <2>1, FS_RemoveElement
      <4> QED
        BY <3>1, <4>1
    <3> QED BY <3>2
  <2>3. f[s \ {c[s]}] = g[s \ {c[s]}]
    BY <1>4, <2>2
  <2> QED BY <1>1, <1>2, <2>1, <2>3
<1>5. Cardinality(U) \in I
  <2> HIDE DEF I
  <2> QED BY <1>0, <1>3, <1>4, SetInduction
<1> QED BY <1>5

-----------------------------------------------------------------------------
(* Sums.                                                                     *)

Chosen(s) == CHOOSE x \in s : TRUE

SumStep(fun, f, s) == IF s = {} THEN 0 ELSE fun[Chosen(s)] + f[s \ {Chosen(s)}]

SumOver(fun, S) == CHOOSE it : it = [s \in SUBSET S |-> SumStep(fun, it, s)]

\* The sum of the community modules is that recursion, for an element chosen.
LEMMA SumIsSumOver ==
  ASSUME NEW fun, NEW S
  PROVE  SumFunctionOnSet(fun, S) = SumOver(fun, S)[S]
BY DEF SumFunctionOnSet, FoldFunctionOnSet, MapThenFoldSet, SumStep, Chosen, SumOver

\* It has integers for values, and obeys its own definition.
LEMMA SumOverUnfolds ==
  ASSUME NEW S, IsFiniteSet(S), NEW fun, \A x \in S : fun[x] \in Int
  PROVE  /\ SumOver(fun, S) \in [SUBSET S -> Int]
         /\ SumOver(fun, S) = [s \in SUBSET S |-> SumStep(fun, SumOver(fun, S), s)]
<1> DEFINE c == [s \in SUBSET S |-> Chosen(s)]
           h == [p \in S \X Int |-> fun[p[1]] + p[2]]
<1>1. \A s \in SUBSET S : s # {} => c[s] \in s
  BY DEF Chosen
<1>2. h \in [S \X Int -> Int]
  OBVIOUS
<1>3. PICK f \in [SUBSET S -> Int] : Unfolds(f, S, 0, c, h)
  <2>1. 0 \in Int
    OBVIOUS
  <2> HIDE DEF c, h
  <2> QED BY <1>1, <1>2, <2>1, FoldExists, Zenon
<1>4. f = [s \in SUBSET S |-> SumStep(fun, f, s)]
  BY <1>1, <1>3 DEF Unfolds, SumStep
<1> DEFINE sum == SumOver(fun, S)
<1>5. sum = [s \in SUBSET S |-> SumStep(fun, sum, s)]
  BY <1>4 DEF SumOver
<1>6. ASSUME NEW U \in SUBSET S  PROVE sum[U] = f[U]
  <2> DEFINE V == Int \cup {sum[s] : s \in SUBSET S}
             v == [p \in S \X V |-> fun[p[1]] + p[2]]
  <2>1. Unfolds(f, S, 0, c, v)
    BY <1>1, <1>4 DEF Unfolds, SumStep
  <2>2. Unfolds(sum, S, 0, c, v)
    <3>1. ASSUME NEW s \in SUBSET S, s # {}
          PROVE  v[<<c[s], sum[s \ {c[s]}]>>] = fun[Chosen(s)] + sum[s \ {Chosen(s)}]
      <4> HIDE DEF sum
      <4>1. <<c[s], sum[s \ {c[s]}]>> \in S \X V
        BY <3>1, <1>1
      <4> QED BY <4>1
    <3> HIDE DEF sum, v, c, V
    <3> QED BY <3>1, <1>5 DEF Unfolds, SumStep
  <2> HIDE DEF c, v, sum
  <2> QED BY <1>1, <2>1, <2>2, FoldUnique
<1> QED
  <2> HIDE DEF sum
  <2>1. sum \in [SUBSET S -> Int]
    BY <1>5, <1>6
  <2> QED BY <1>5, <2>1 DEF sum

\* Nothing sums up to 0.
LEMMA SumOfNone == ASSUME NEW fun PROVE SumFunctionOnSet(fun, {}) = 0
<1>1. IsFiniteSet({})
  BY FS_EmptySet
<1>2. SumOver(fun, {}) = [s \in SUBSET {} |-> SumStep(fun, SumOver(fun, {}), s)]
  <2>1. \A x \in {} : fun[x] \in Int
    OBVIOUS
  <2> QED BY <1>1, <2>1, SumOverUnfolds, Zenon
<1>3. SumOver(fun, {})[{}] = SumStep(fun, SumOver(fun, {}), {})
  BY <1>2, Zenon
<1> QED
  BY <1>3, SumIsSumOver DEF SumStep

\* Sums of integers are integers.
LEMMA SumType ==
  ASSUME NEW S, IsFiniteSet(S), NEW fun, \A x \in S : fun[x] \in Int
  PROVE  SumFunctionOnSet(fun, S) \in Int
<1>1. SumOver(fun, S) \in [SUBSET S -> Int]
  BY SumOverUnfolds
<1>2. SumOver(fun, S)[S] \in Int
  BY <1>1
<1> QED
  BY <1>2, SumIsSumOver

\* The recursion over a set, restricted to a part of it, is that over the part.
LEMMA SumOverPart ==
  ASSUME NEW S, IsFiniteSet(S), NEW fun, \A x \in S : fun[x] \in Int, NEW T \in SUBSET S
  PROVE  SumOver(fun, S)[T] = SumFunctionOnSet(fun, T)
<1> DEFINE c == [s \in SUBSET S |-> Chosen(s)]
           h == [p \in S \X Int |-> fun[p[1]] + p[2]]
<1>1. \A s \in SUBSET S : s # {} => c[s] \in s
  BY DEF Chosen
<1>2. ASSUME NEW U \in SUBSET S  PROVE Unfolds(SumOver(fun, U), U, 0, c, h)
  <2> DEFINE sum == SumOver(fun, U)
  <2>1. IsFiniteSet(U) /\ \A x \in U : fun[x] \in Int
    BY FS_Subset
  <2>2. /\ sum \in [SUBSET U -> Int]
        /\ sum = [s \in SUBSET U |-> SumStep(fun, sum, s)]
    BY <2>1, SumOverUnfolds
  <2> HIDE DEF sum
  <2>3. ASSUME NEW s \in SUBSET U, s # {}
        PROVE  h[<<c[s], sum[s \ {c[s]}]>>] = fun[Chosen(s)] + sum[s \ {Chosen(s)}]
    <3>1. <<c[s], sum[s \ {c[s]}]>> \in S \X Int
      BY <2>3, <1>1, <2>2
    <3> QED BY <3>1
  <2>4. \A s \in SUBSET U : s # {} => SumStep(fun, sum, s) = h[<<c[s], sum[s \ {c[s]}]>>]
    <3> HIDE DEF c, h
    <3> QED BY <2>3 DEF SumStep
  <2>5. \A s \in SUBSET U : s = {} => SumStep(fun, sum, s) = 0
    BY DEF SumStep
  <2> HIDE DEF c, h
  <2> QED BY <2>2, <2>4, <2>5 DEF sum, Unfolds
<1>3. IsFiniteSet(T)
  BY FS_Subset
<1>4. SumOver(fun, S)[T] = SumOver(fun, T)[T]
  <2> HIDE DEF c, h
  <2> QED BY <1>1, <1>2, <1>3, FoldUnique
<1> QED BY <1>4, SumIsSumOver

\* A sum is the element the definition chooses, and the sum of the others.
LEMMA SumChosen ==
  ASSUME NEW S, IsFiniteSet(S), NEW fun, \A x \in S : fun[x] \in Int, S # {}
  PROVE  /\ Chosen(S) \in S
         /\ SumFunctionOnSet(fun, S)
              = fun[Chosen(S)] + SumFunctionOnSet(fun, S \ {Chosen(S)})
<1>1. SumFunctionOnSet(fun, S) = SumStep(fun, SumOver(fun, S), S)
  <2>1. SumOver(fun, S) = [s \in SUBSET S |-> SumStep(fun, SumOver(fun, S), s)]
    BY SumOverUnfolds
  <2>2. SumOver(fun, S)[S] = SumStep(fun, SumOver(fun, S), S)
    BY <2>1, Zenon
  <2> QED BY <2>2, SumIsSumOver
<1>2. SumOver(fun, S)[S \ {Chosen(S)}] = SumFunctionOnSet(fun, S \ {Chosen(S)})
  BY SumOverPart
<1> QED BY <1>1, <1>2 DEF SumStep, Chosen

\* So it is for any element: the order does not matter.
LEMMA SumWithout ==
  ASSUME NEW S, IsFiniteSet(S), NEW fun, \A x \in S : fun[x] \in Int, NEW e \in S
  PROVE  SumFunctionOnSet(fun, S) = fun[e] + SumFunctionOnSet(fun, S \ {e})
<1> DEFINE sum(s) == SumFunctionOnSet(fun, s)
           J == {n \in Nat : \A s \in SUBSET S : Cardinality(s) = n =>
                               \A x \in s : sum(s) = fun[x] + sum(s \ {x})}
<1>0. ASSUME NEW s \in SUBSET S
      PROVE  /\ IsFiniteSet(s) /\ Cardinality(s) \in Nat /\ \A x \in s : fun[x] \in Int
             /\ sum(s) \in Int
  <2>1. IsFiniteSet(s) /\ \A x \in s : fun[x] \in Int
    BY FS_Subset
  <2> QED BY <2>1, FS_CardinalityType, SumType
<1>1. 0 \in J
  <2>1. \A s \in SUBSET S : Cardinality(s) = 0 => s = {}
    BY <1>0, FS_EmptySet
  <2> QED BY <2>1
<1>2. ASSUME NEW n \in Nat, n \in J  PROVE n + 1 \in J
  <2> SUFFICES ASSUME NEW s \in SUBSET S, Cardinality(s) = n + 1, NEW x \in s
               PROVE  sum(s) = fun[x] + sum(s \ {x})
    OBVIOUS
  <2> DEFINE p == Chosen(s)
  <2>1. p \in s /\ sum(s) = fun[p] + sum(s \ {p})
    BY <1>0, SumChosen
  <2>2. ASSUME NEW y \in s  PROVE Cardinality(s \ {y}) = n
    <3>1. Cardinality(s \ {y}) = Cardinality(s) - 1
      BY <1>0, FS_RemoveElement
    <3> QED BY <3>1
  <2>3. CASE p = x
    BY <2>1, <2>3
  <2>4. CASE p # x
    <3>1. sum(s \ {p}) = fun[x] + sum((s \ {p}) \ {x})
      BY <1>2, <2>1, <2>2, <2>4
    <3>2. sum(s \ {x}) = fun[p] + sum((s \ {x}) \ {p})
      BY <1>2, <2>1, <2>2, <2>4
    <3>3. (s \ {x}) \ {p} = (s \ {p}) \ {x}
      OBVIOUS
    <3>4. sum((s \ {p}) \ {x}) \in Int /\ fun[x] \in Int /\ fun[p] \in Int
      BY <1>0, <2>1
    <3> DEFINE rest == sum((s \ {p}) \ {x})
    <3>5. sum(s \ {x}) = fun[p] + rest /\ sum(s \ {p}) = fun[x] + rest
      BY <3>1, <3>2, <3>3, Zenon
    <3>6. sum(s) = fun[p] + sum(s \ {p})
      BY <2>1
    <3> HIDE DEF sum, p, rest
    <3>7. sum(s) = fun[p] + (fun[x] + rest)
      BY <3>5, <3>6, Zenon
    <3>8. fun[p] + (fun[x] + rest) = fun[x] + (fun[p] + rest)
      BY <3>4 DEF rest
    <3> QED BY <3>5, <3>7, <3>8, Zenon
  <2> QED BY <2>3, <2>4
<1>3. Cardinality(S) \in J
  <2> HIDE DEF J
  <2> QED BY <1>0, <1>1, <1>2, SetInduction
<1> QED BY <1>3

\* The sum over one element more.
LEMMA SumWith ==
  ASSUME NEW S, IsFiniteSet(S), NEW fun, \A x \in S : fun[x] \in Int,
         NEW e, e \notin S, fun[e] \in Int
  PROVE  SumFunctionOnSet(fun, S \cup {e}) = fun[e] + SumFunctionOnSet(fun, S)
<1>1. IsFiniteSet(S \cup {e}) /\ (S \cup {e}) \ {e} = S
  BY FS_AddElement
<1>2. SumFunctionOnSet(fun, S \cup {e}) = fun[e] + SumFunctionOnSet(fun, (S \cup {e}) \ {e})
  BY <1>1, SumWithout
<1> QED BY <1>1, <1>2

\* What the function is elsewhere does not matter.
LEMMA SumCongruent ==
  ASSUME NEW S, IsFiniteSet(S), NEW f, NEW g,
         \A x \in S : f[x] \in Int /\ g[x] = f[x]
  PROVE  SumFunctionOnSet(f, S) = SumFunctionOnSet(g, S)
<1> DEFINE I == {s \in SUBSET S : SumFunctionOnSet(f, s) = SumFunctionOnSet(g, s)}
<1>1. {} \in I
  BY SumOfNone
<1>2. ASSUME NEW T \in SUBSET S, NEW x \in S \ T, T \in I  PROVE T \cup {x} \in I
  <2>1. IsFiniteSet(T)
    BY FS_Subset
  <2>2. SumFunctionOnSet(f, T \cup {x}) = f[x] + SumFunctionOnSet(f, T)
    BY <2>1, SumWith
  <2>3. SumFunctionOnSet(g, T \cup {x}) = g[x] + SumFunctionOnSet(g, T)
    BY <2>1, SumWith
  <2> QED BY <1>2, <2>2, <2>3
<1>3. S \in I
  <2> HIDE DEF I
  <2> QED BY <1>1, <1>2, FiniteInduction
<1> QED BY <1>3

\* The sum of two functions sums up to both sums.
LEMMA SumTogether ==
  ASSUME NEW S, IsFiniteSet(S), NEW f, NEW g, NEW h,
         \A x \in S : f[x] \in Int /\ g[x] \in Int /\ h[x] = f[x] + g[x]
  PROVE  SumFunctionOnSet(h, S) = SumFunctionOnSet(f, S) + SumFunctionOnSet(g, S)
<1> DEFINE I == {s \in SUBSET S : SumFunctionOnSet(h, s)
                                    = SumFunctionOnSet(f, s) + SumFunctionOnSet(g, s)}
<1>1. {} \in I
  BY SumOfNone
<1>2. ASSUME NEW T \in SUBSET S, NEW x \in S \ T, T \in I  PROVE T \cup {x} \in I
  <2>1. IsFiniteSet(T)
    BY FS_Subset
  <2>2. SumFunctionOnSet(f, T \cup {x}) = f[x] + SumFunctionOnSet(f, T)
    BY <2>1, SumWith
  <2>3. SumFunctionOnSet(g, T \cup {x}) = g[x] + SumFunctionOnSet(g, T)
    BY <2>1, SumWith
  <2>4. SumFunctionOnSet(h, T \cup {x}) = h[x] + SumFunctionOnSet(h, T)
    BY <2>1, SumWith
  <2>5. SumFunctionOnSet(f, T) \in Int /\ SumFunctionOnSet(g, T) \in Int
    BY <2>1, SumType
  <2> QED BY <1>2, <2>2, <2>3, <2>4, <2>5
<1>3. S \in I
  <2> HIDE DEF I
  <2> QED BY <1>1, <1>2, FiniteInduction
<1> QED BY <1>3

\* A sum of natural numbers is one, and none of them is greater.
LEMMA SumOfNaturals ==
  ASSUME NEW S, IsFiniteSet(S), NEW f, \A x \in S : f[x] \in Nat
  PROVE  SumFunctionOnSet(f, S) \in Nat /\ \A x \in S : f[x] <= SumFunctionOnSet(f, S)
<1>1. ASSUME NEW T \in SUBSET S PROVE SumFunctionOnSet(f, T) \in Nat
  <2> DEFINE I == {s \in SUBSET T : SumFunctionOnSet(f, s) \in Nat}
  <2>0. IsFiniteSet(T)
    BY FS_Subset
  <2>1. {} \in I
    BY SumOfNone
  <2>2. ASSUME NEW U \in SUBSET T, NEW x \in T \ U, U \in I  PROVE U \cup {x} \in I
    <3>1. IsFiniteSet(U)
      BY <2>0, FS_Subset
    <3>2. SumFunctionOnSet(f, U \cup {x}) = f[x] + SumFunctionOnSet(f, U)
      BY <3>1, SumWith
    <3> QED BY <2>2, <3>2
  <2>3. T \in I
    <3> HIDE DEF I
    <3> QED BY <2>0, <2>1, <2>2, FiniteInduction
  <2> QED BY <2>3
<1>2. ASSUME NEW x \in S PROVE f[x] <= SumFunctionOnSet(f, S)
  <2>1. SumFunctionOnSet(f, S) = f[x] + SumFunctionOnSet(f, S \ {x})
    BY SumWithout
  <2>2. SumFunctionOnSet(f, S \ {x}) \in Nat
    BY <1>1
  <2> QED BY <2>1, <2>2
<1> QED BY <1>1, <1>2

\* A sum of zeros is zero.
LEMMA SumOfZeros ==
  ASSUME NEW S, IsFiniteSet(S), NEW f, \A x \in S : f[x] = 0
  PROVE  SumFunctionOnSet(f, S) = 0
<1>1. SumFunctionOnSet(f, S) = SumFunctionOnSet(f, S) + SumFunctionOnSet(f, S)
  BY SumTogether
<1>2. PICK n \in Int : n = SumFunctionOnSet(f, S)
  BY SumType
<1>3. n = n + n
  BY <1>1, <1>2, Zenon
<1>4. n = 0
  BY <1>3
<1> QED
  BY <1>2, <1>4

-----------------------------------------------------------------------------
(* References.                                                              *)

\* The members an object has.
Members(o) ==
  {"_memory", "bf", "hash_functions", "added", "mixed", "moved"} \subseteq DOMAIN o

\* An object refers to an array that exists, and deletes no other.
Refers(f) ==
  /\ Members(objects[f])
  /\ objects[f].bf \in heap
  /\ objects[f]._memory \in {None, objects[f].bf}

\* Of two objects that refer to one array neither deletes it.
Apart(f, g) ==
  objects[f].bf = objects[g].bf =>
    /\ objects[f].moved \/ objects[g].moved
    /\ objects[f]._memory = None /\ objects[g]._memory = None

\* The inductive invariant of the references.
RefInv ==
  /\ objects = [f \in Objects |-> objects[f]]
  /\ heap \subseteq Arrays
  /\ \A f \in Alive : Refers(f)
  /\ \A f, g \in Alive : f # g => Apart(f, g)

-----------------------------------------------------------------------------
\* While an object does not live some array has no one that refers to it.
LEMMA FreshArray ==
  ASSUME RefInv, NEW f \in Objects, ~Lives(f)
  PROVE  Fresh \in Arrays /\ \A g \in Alive : objects[g].bf # Fresh
<1> DEFINE Used == {objects[g].bf : g \in Alive}
           n == Cardinality(Objects)
<1>1. IsFiniteSet(Objects) /\ n \in Nat
  BY CountingBloomFilterAssumption, FS_CardinalityType
<1>2. IsFiniteSet(Objects \ {f}) /\ Cardinality(Objects \ {f}) = n - 1
  BY <1>1, FS_RemoveElement
<1>3. Alive \subseteq Objects \ {f}
  BY DEF Alive
<1>4. IsFiniteSet(Alive) /\ Cardinality(Alive) <= n - 1
  BY <1>2, <1>3, FS_Subset
<1>5. IsFiniteSet(Used) /\ Cardinality(Used) <= Cardinality(Alive)
  <2>1. [g \in Alive |-> objects[g].bf] \in Surjection(Alive, Used)
    BY DEF Surjection
  <2> QED
    BY <1>4, <2>1, FS_Surjection
<1>6. Cardinality(Used) \in Nat /\ Cardinality(Alive) \in Nat
  BY <1>4, <1>5, FS_CardinalityType
<1>7. Cardinality(Arrays) = n
  <2>1. Cardinality(1..n) = IF 1 > n THEN 0 ELSE n - 1 + 1
    BY <1>1, FS_Interval
  <2> QED
    BY <1>1, <2>1 DEF Arrays
<1>8. ~(Arrays \subseteq Used)
  BY <1>1, <1>4, <1>5, <1>6, <1>7, FS_Subset
<1>9. \E a \in Arrays : \A g \in Alive : objects[g].bf # a
  BY <1>8
<1> QED
  BY <1>9 DEF Fresh

\* A step keeps the references when no object is made, none changes the array it
\* refers to, and none begins to own one.
LEMMA Kept ==
  ASSUME RefInv, heap' = heap, objects' = [f \in Objects |-> objects'[f]],
         \A f \in Objects :
           Lives(f)' => /\ Lives(f) /\ Members(objects'[f])
                        /\ objects'[f].bf = objects[f].bf
                        /\ objects'[f]._memory \in {None, objects[f]._memory}
                        /\ objects[f].moved => objects'[f].moved
  PROVE  RefInv'
BY DEF RefInv, Refers, Apart, Alive

\* What a write to an array makes of the objects.
LEMMA WriteKeeps ==
  ASSUME RefInv, NEW f \in Objects, Lives(f), NEW bytes, NEW added, NEW mixed,
         Write(f, bytes, added, mixed)
  PROVE  RefInv'
<1>1. \A g \in Objects :
        objects'[g] = IF g = f THEN [objects[f] EXCEPT !.added = added, !.mixed = mixed]
                      ELSE IF Lives(g) /\ objects[g].bf \in {objects[f].bf}
                      THEN [objects[g] EXCEPT !.mixed = TRUE] ELSE objects[g]
  BY DEF Write, Update
<1>2. \A g \in Objects : Lives(g) => Members(objects[g])
  BY DEF RefInv, Refers, Alive
<1>3. objects' = [g \in Objects |-> objects'[g]] /\ heap' = heap
  BY DEF Write, Update
<1>4. Members(objects[f]) /\ None # objects[f]
  BY <1>2 DEF Lives
<1>5. ASSUME NEW g \in Objects, Lives(g)'
      PROVE  /\ Lives(g) /\ Members(objects'[g])
             /\ objects'[g].bf = objects[g].bf /\ objects'[g]._memory = objects[g]._memory
             /\ objects'[g].moved = objects[g].moved
  <2>1. Lives(g)
    BY <1>1, <1>5 DEF Lives
  <2>2. Members(objects[g])
    BY <1>2, <2>1
  <2>3. CASE g = f
    <3>1. objects'[g] = [objects[g] EXCEPT !.added = added, !.mixed = mixed]
      BY <1>1, <2>3
    <3> QED
      BY <2>1, <2>2, <3>1 DEF Members
  <2>4. CASE g # f /\ objects[g].bf = objects[f].bf
    <3>1. objects'[g] = [objects[g] EXCEPT !.mixed = TRUE]
      BY <1>1, <2>1, <2>4
    <3> QED
      BY <2>1, <2>2, <3>1 DEF Members
  <2>5. CASE g # f /\ objects[g].bf # objects[f].bf
    <3>1. objects'[g] = objects[g]
      BY <1>1, <2>5
    <3> QED
      BY <2>1, <2>2, <3>1
  <2> QED
    BY <2>3, <2>4, <2>5
<1> QED
  BY <1>3, <1>5, Kept

\* A new object has an array of its own.
LEMMA CreateKeeps ==
  ASSUME RefInv, NEW f \in Objects, NEW bytes, NEW hs, NEW added, NEW mixed,
         Create(f, bytes, hs, added, mixed)
  PROVE  RefInv'
<1> DEFINE o == [_memory |-> Fresh, bf |-> Fresh, hash_functions |-> hs, added |-> added,
                 mixed |-> mixed, moved |-> FALSE]
<1>1. ~Lives(f) /\ heap' = heap \cup {Fresh} /\ objects' = [objects EXCEPT ![f] = o]
  BY DEF Create
<1>2. Fresh \in Arrays /\ \A g \in Alive : objects[g].bf # Fresh
  BY <1>1, FreshArray
<1>3. /\ objects'[f] = o
      /\ \A g \in Objects : g # f => objects'[g] = objects[g]
      /\ objects' = [g \in Objects |-> objects'[g]]
  BY <1>1 DEF RefInv
<1>4. Members(o) /\ o.bf = Fresh /\ o._memory = Fresh
  BY DEF Members
<1>5. \A g \in Alive' : g # f => g \in Alive
  BY <1>3 DEF Alive, Lives
<1>6. heap' \subseteq Arrays
  BY <1>1, <1>2 DEF RefInv
<1>7. \A g \in Alive' : Refers(g)'
  BY <1>1, <1>3, <1>4, <1>5 DEF RefInv, Refers
<1>8. ASSUME NEW g \in Alive', NEW h \in Alive', g # h PROVE Apart(g, h)'
  <2>1. CASE g # f /\ h # f
    <3>1. /\ g \in Alive /\ h \in Alive
          /\ objects'[g] = objects[g] /\ objects'[h] = objects[h]
      BY <1>3, <1>5, <2>1 DEF Alive
    <3>2. Apart(g, h)
      BY <1>8, <3>1 DEF RefInv
    <3> QED
      BY <3>1, <3>2 DEF Apart
  <2>2. CASE g = f
    <3>1. h \in Alive /\ objects'[h] = objects[h] /\ objects'[g].bf = Fresh
      BY <1>3, <1>4, <1>5, <1>8, <2>2 DEF Alive
    <3> QED
      BY <1>2, <3>1 DEF Apart
  <2>3. CASE h = f
    <3>1. g \in Alive /\ objects'[g] = objects[g] /\ objects'[h].bf = Fresh
      BY <1>3, <1>4, <1>5, <1>8, <2>3 DEF Alive
    <3> QED
      BY <1>2, <3>1 DEF Apart
  <2> QED
    BY <2>1, <2>2, <2>3
<1> QED
  BY <1>3, <1>6, <1>7, <1>8 DEF RefInv, Arrays

\* t(std::move(f)): both refer to the array, and neither will delete it.
LEMMA MoveConstructKeeps ==
  ASSUME RefInv, NEW t \in Objects, NEW f \in Objects, MoveConstruct(t, f)
  PROVE  RefInv'
<1>1. /\ Lives(f) /\ ~Lives(t) /\ heap' = heap
      /\ objects' = [objects EXCEPT ![t] = [objects[f] EXCEPT !._memory = None],
                                    ![f] = MovedFrom(f)]
  BY DEF MoveConstruct
<1>2. f # t /\ f \in Alive /\ Members(objects[f]) /\ objects[f].bf \in heap
  BY <1>1 DEF RefInv, Refers, Alive
<1>3. /\ objects'[t] = [objects[f] EXCEPT !._memory = None]
      /\ objects'[f] = MovedFrom(f)
      /\ \A g \in Objects : g \notin {t, f} => objects'[g] = objects[g]
      /\ objects' = [g \in Objects |-> objects'[g]]
  BY <1>1, <1>2 DEF RefInv
<1>4. /\ Members(objects'[t]) /\ objects'[t].bf = objects[f].bf
      /\ objects'[t]._memory = None /\ objects'[t].moved = objects[f].moved
  BY <1>2, <1>3 DEF Members
<1>5. /\ Members(objects'[f]) /\ objects'[f].bf = objects[f].bf
      /\ objects'[f]._memory = None /\ objects'[f].moved
  BY <1>2, <1>3 DEF Members, MovedFrom
<1>6. \A g \in Alive' : g \notin {t, f} => g \in Alive
  BY <1>3 DEF Alive, Lives
<1>7. ASSUME NEW g \in Alive' PROVE Refers(g)'
  <2>1. CASE g \in {t, f}
    <3>1. /\ Members(objects'[g]) /\ objects'[g].bf = objects[f].bf
          /\ objects'[g]._memory = None
      BY <1>4, <1>5, <2>1
    <3> QED
      BY <1>1, <1>2, <3>1 DEF Refers
  <2>2. CASE g \notin {t, f}
    <3>1. g \in Alive /\ objects'[g] = objects[g]
      BY <1>3, <1>6, <2>2 DEF Alive
    <3> QED
      BY <1>1, <3>1 DEF RefInv, Refers
  <2> QED
    BY <2>1, <2>2
<1>8. ASSUME NEW g \in Alive', NEW h \in Alive', g # h PROVE Apart(g, h)'
  <2>1. CASE g \notin {t, f} /\ h \notin {t, f}
    <3>1. /\ g \in Alive /\ h \in Alive
          /\ objects'[g] = objects[g] /\ objects'[h] = objects[h]
      BY <1>3, <1>6, <2>1 DEF Alive
    <3>2. Apart(g, h)
      BY <1>8, <3>1 DEF RefInv
    <3> QED
      BY <3>1, <3>2 DEF Apart
  <2>2. CASE g \in {t, f} /\ h \in {t, f}
    BY <1>4, <1>5, <1>8, <2>2 DEF Apart
  <2>3. CASE g \in {t, f} /\ h \notin {t, f}
    <3>1. h \in Alive /\ h # f /\ objects'[h] = objects[h]
      BY <1>3, <1>6, <2>3 DEF Alive
    <3>2. Apart(f, h)
      BY <1>2, <3>1 DEF RefInv
    <3>3. objects'[g].bf = objects[f].bf /\ objects'[g]._memory = None
      BY <1>4, <1>5, <2>3
    <3>4. objects'[g].moved = objects[f].moved \/ objects'[g].moved
      BY <1>4, <1>5, <2>3
    <3> QED
      BY <3>1, <3>2, <3>3, <3>4 DEF Apart
  <2>4. CASE g \notin {t, f} /\ h \in {t, f}
    <3>1. g \in Alive /\ g # f /\ objects'[g] = objects[g]
      BY <1>3, <1>6, <2>4 DEF Alive
    <3>2. Apart(f, g)
      BY <1>2, <3>1 DEF RefInv
    <3>3. objects'[h].bf = objects[f].bf /\ objects'[h]._memory = None
      BY <1>4, <1>5, <2>4
    <3>4. objects'[h].moved = objects[f].moved \/ objects'[h].moved
      BY <1>4, <1>5, <2>4
    <3> QED
      BY <3>1, <3>2, <3>3, <3>4 DEF Apart
  <2> QED
    BY <2>1, <2>2, <2>3, <2>4
<1> QED
  BY <1>1, <1>3, <1>7, <1>8 DEF RefInv, Arrays

\* t = f and t = std::move(f): all is swapped but the references.
LEMMA AssignKeeps ==
  ASSUME RefInv, NEW t \in Objects, NEW f \in Objects, Assign(t, f) \/ MoveAssign(t, f)
  PROVE  RefInv'
<1>1. \A g \in Objects : Lives(g) => Members(objects[g])
  BY DEF RefInv, Refers, Alive
<1>2. Lives(t) /\ Lives(f) /\ heap' = heap
  BY DEF Assign, MoveAssign, Known
<1>3. CASE Assign(t, f)
  <2>1. /\ objects' = [g \in Objects |-> objects'[g]]
        /\ \A g \in Objects :
             objects'[g] = IF g = t THEN Takes(t, f)
                           ELSE IF Lives(g) /\ objects[g].bf \in {objects[t].bf}
                           THEN [objects[g] EXCEPT !.mixed = TRUE] ELSE objects[g]
    BY <1>3 DEF Assign, Update
  <2>2. /\ Members(Takes(t, f)) /\ Takes(t, f).bf = objects[t].bf
        /\ Takes(t, f)._memory = objects[t]._memory /\ Takes(t, f).moved = objects[t].moved
    BY <1>1, <1>2 DEF Members, Takes
  <2>3. ASSUME NEW g \in Objects, Lives(g)'
        PROVE  /\ Lives(g) /\ Members(objects'[g])
               /\ objects'[g].bf = objects[g].bf
               /\ objects'[g]._memory \in {None, objects[g]._memory}
               /\ objects[g].moved => objects'[g].moved
    <3>1. CASE g = t
      <4>1. objects'[g] = Takes(t, f)
        BY <2>1, <3>1
      <4> QED
        BY <1>2, <2>2, <3>1, <4>1
    <3>2. CASE g # t /\ Lives(g) /\ objects[g].bf \in {objects[t].bf}
      <4>1. objects'[g] = [objects[g] EXCEPT !.mixed = TRUE]
        BY <2>1, <3>2
      <4>2. Members(objects[g])
        BY <1>1, <3>2
      <4> QED
        BY <3>2, <4>1, <4>2 DEF Members
    <3>3. CASE g # t /\ ~(Lives(g) /\ objects[g].bf \in {objects[t].bf})
      <4>1. objects'[g] = objects[g]
        BY <2>1, <3>3
      <4>2. Lives(g)
        BY <2>3, <4>1 DEF Lives
      <4> QED
        BY <1>1, <4>1, <4>2
    <3> QED
      BY <3>1, <3>2, <3>3
  <2> QED
    BY <1>2, <2>1, <2>3, Kept
<1>4. CASE MoveAssign(t, f) /\ t = f
  <2>1. objects' = [objects EXCEPT ![f] = [objects[f] EXCEPT !._memory = None]]
    BY <1>4 DEF MoveAssign
  <2>2. /\ objects' = [g \in Objects |-> objects'[g]]
        /\ objects'[f] = [objects[f] EXCEPT !._memory = None]
        /\ \A g \in Objects : g # f => objects'[g] = objects[g]
    BY <2>1 DEF RefInv
  <2> QED
    BY <1>1, <1>2, <2>2, Kept DEF Members, Lives
<1>5. CASE MoveAssign(t, f) /\ t # f
  <2>1. /\ objects' = [g \in Objects |-> objects'[g]]
        /\ \A g \in Objects :
             objects'[g] = IF g \in {t, f} THEN IF g = t THEN Takes(t, f) ELSE MovedFrom(f)
                           ELSE IF Lives(g) /\ objects[g].bf \in {objects[t].bf, objects[f].bf}
                           THEN [objects[g] EXCEPT !.mixed = TRUE] ELSE objects[g]
    BY <1>5 DEF MoveAssign, Update
  <2>2. Members(objects[t]) /\ Members(objects[f])
    BY <1>1, <1>2
  <2>3. /\ Members(Takes(t, f)) /\ Takes(t, f).bf = objects[t].bf
        /\ Takes(t, f)._memory = objects[t]._memory /\ Takes(t, f).moved = objects[t].moved
    BY <2>2 DEF Members, Takes
  <2>4. /\ Members(MovedFrom(f)) /\ MovedFrom(f).bf = objects[f].bf
        /\ MovedFrom(f)._memory = None /\ MovedFrom(f).moved
    BY <2>2 DEF Members, MovedFrom
  <2>5. ASSUME NEW g \in Objects, Lives(g)'
        PROVE  /\ Lives(g) /\ Members(objects'[g])
               /\ objects'[g].bf = objects[g].bf
               /\ objects'[g]._memory \in {None, objects[g]._memory}
               /\ objects[g].moved => objects'[g].moved
    <3>1. CASE g = t
      <4>1. objects'[g] = Takes(t, f)
        BY <2>1, <3>1
      <4> QED
        BY <1>2, <2>3, <3>1, <4>1
    <3>2. CASE g = f /\ g # t
      <4>1. objects'[g] = MovedFrom(f)
        BY <2>1, <3>2
      <4> QED
        BY <1>2, <2>4, <3>2, <4>1
    <3>3. CASE g \notin {t, f}
      <4>1. Lives(g)
        BY <2>1, <2>5, <3>3 DEF Lives
      <4>2. Members(objects[g])
        BY <1>1, <4>1
      <4>3. CASE objects[g].bf \in {objects[t].bf, objects[f].bf}
        <5>1. objects'[g] = [objects[g] EXCEPT !.mixed = TRUE]
          BY <2>1, <3>3, <4>1, <4>3
        <5> QED
          BY <4>1, <4>2, <5>1 DEF Members
      <4>4. CASE objects[g].bf \notin {objects[t].bf, objects[f].bf}
        <5>1. objects'[g] = objects[g]
          BY <2>1, <3>3, <4>4
        <5> QED
          BY <4>1, <4>2, <5>1
      <4> QED
        BY <4>3, <4>4
    <3> QED
      BY <3>1, <3>2, <3>3
  <2> QED
    BY <1>2, <2>1, <2>5, Kept
<1> QED
  BY <1>3, <1>4, <1>5

\* ~CountingBloomFilter deletes an array nobody else refers to.
LEMMA DestroyKeeps ==
  ASSUME RefInv, NEW f \in Objects, Destroy(f)
  PROVE  RefInv'
<1>1. /\ Lives(f) /\ objects' = [objects EXCEPT ![f] = None]
      /\ heap' = heap \ {a \in Arrays : \/ a = objects[f]._memory
                                        \/ \A g \in Alive \ {f} : objects[g].bf # a}
  BY DEF Destroy
<1>2. /\ objects'[f] = None
      /\ \A g \in Objects : g # f => objects'[g] = objects[g]
      /\ objects' = [g \in Objects |-> objects'[g]]
  BY <1>1 DEF RefInv
<1>3. \A g \in Alive' : g \in Alive /\ g # f /\ objects'[g] = objects[g]
  BY <1>2 DEF Alive, Lives
<1>4. ASSUME NEW g \in Alive' PROVE objects[g].bf \in heap'
  <2>1. g \in Alive \ {f} /\ objects[g].bf \in heap
    BY <1>3 DEF RefInv, Refers
  <2>2. f \in Alive
    BY <1>1 DEF Alive
  <2>3. objects[g].bf # objects[f]._memory
    <3>1. CASE objects[f]._memory = None
      <4>1. objects[g].bf \in Nat
        BY <2>1, CountingBloomFilterAssumption, FS_CardinalityType DEF RefInv, Arrays
      <4> QED
        BY <3>1, <4>1, CountingBloomFilterAssumption
    <3>2. CASE objects[f]._memory = objects[f].bf
      BY <2>1, <2>2, <3>1, <3>2 DEF RefInv, Apart
    <3> QED
      BY <2>2, <3>1, <3>2 DEF RefInv, Refers
  <2> QED
    BY <1>1, <2>1, <2>3
<1>5. \A g \in Alive' : Refers(g)'
  BY <1>3, <1>4 DEF RefInv, Refers
<1>6. \A g, h \in Alive' : g # h => Apart(g, h)'
  BY <1>3 DEF RefInv, Apart
<1> QED
  BY <1>1, <1>2, <1>5, <1>6 DEF RefInv, Arrays

\* Every step keeps every reference sound.
LEMMA RefStep == RefInv /\ [Next]_vars => RefInv'
<1> SUFFICES ASSUME RefInv, [Next]_vars PROVE RefInv'
  OBVIOUS
<1>1. ASSUME NEW f \in Objects, Construct(f) PROVE RefInv'
  BY <1>1, CreateKeeps DEF Construct
<1>2. ASSUME NEW f \in Objects, NEW g \in Objects, Restore(f, g) PROVE RefInv'
  BY <1>2, CreateKeeps DEF Restore
<1>3. ASSUME NEW f \in Objects, NEW g \in Objects, CopyConstruct(f, g) PROVE RefInv'
  BY <1>3, CreateKeeps DEF CopyConstruct
<1>4. ASSUME NEW f \in Objects, Set(f) PROVE RefInv'
  BY <1>4, WriteKeeps DEF Set, Known
<1>5. ASSUME NEW f \in Objects, RemoveFrom(f) PROVE RefInv'
  BY <1>5, WriteKeeps DEF RemoveFrom, Known
<1>6. ASSUME NEW f \in Objects, NEW g \in Objects, AddAssign(f, g) PROVE RefInv'
  BY <1>6, WriteKeeps DEF AddAssign, Known
<1>7. ASSUME NEW f \in Objects, NEW g \in Objects, MoveConstruct(f, g) PROVE RefInv'
  BY <1>7, MoveConstructKeeps
<1>8. ASSUME NEW f \in Objects, NEW g \in Objects, Assign(f, g) \/ MoveAssign(f, g)
      PROVE  RefInv'
  BY <1>8, AssignKeeps
<1>9. ASSUME NEW f \in Objects, Destroy(f) PROVE RefInv'
  BY <1>9, DestroyKeeps
<1>10. CASE UNCHANGED vars
  BY <1>10, Kept DEF vars, RefInv, Refers, Alive, Lives
<1> QED
  BY <1>1, <1>2, <1>3, <1>4, <1>5, <1>6, <1>7, <1>8, <1>9, <1>10 DEF Next

-----------------------------------------------------------------------------
\* Whatever is constructed, copied, moved, assigned and destroyed before, a filter that
\* lives refers to an array that has not been deleted, and two filters share one only if
\* one of them was moved from at some time, perhaps to be assigned to and used again.
THEOREM ReferencesAlwaysSound == Spec => []ReferencesSound
<1>1. Init => RefInv
  BY DEF Init, RefInv, Alive, Lives
<1>2. RefInv => ReferencesSound
  BY DEF RefInv, Refers, Apart, ReferencesSound
<1> QED
  BY <1>1, <1>2, RefStep, PTL DEF Spec

-----------------------------------------------------------------------------
(* The parts of a byte.                                                     *)

\* The parts of a byte, of W bits each, and what weighs one in a part.
Parts(W) == 0..(8 \div W) - 1

One(W, p) == 2 ^ (p * W)

Full(W) == 2 ^ W - 1

\* The part p of a byte b.
ByteField(W, b, p) == (b \div One(W, p)) % (2 ^ W)

\* The digit of b that weighs w, of n values.
Digit(b, w, n) == (b \div w) % n

\* What weighs one in the parts of a byte, by the width of a part.
OfTwoBits == {1, 4, 16, 64}
OfFourBits == {1, 16}
OfEightBits == {1}

\* What weighs one in a part of two bits.
LEMMA WeightsOfTwo == 2 ^ (0 * 2) = 1 /\ 2 ^ (1 * 2) = 4 /\ 2 ^ (2 * 2) = 16 /\ 2 ^ (3 * 2) = 64
OBVIOUS

\* As above, for four bits.
LEMMA WeightsOfFour == 2 ^ (0 * 4) = 1 /\ 2 ^ (1 * 4) = 16
OBVIOUS

\* As above, for eight bits.
LEMMA WeightsOfEight == 2 ^ (0 * 8) = 1
OBVIOUS

\* Adding one to a digit that is not full changes no other, and does not wrap the byte,
\* in parts of two bits.
LEMMA AddTwoBits ==
  ASSUME NEW b \in 0..255, NEW w \in OfTwoBits, NEW x \in OfTwoBits,
         Digit(b, w, 4) < 4 - 1
  PROVE  /\ x = w => Digit((b + w) % 256, x, 4) = Digit(b, x, 4) + 1
         /\ x # w => Digit((b + w) % 256, x, 4) = Digit(b, x, 4)
<1>1. CASE w = 1
  <2>1. CASE x = 1
    BY <1>1, <2>1 DEF Digit
  <2>2. CASE x = 4
    BY <1>1, <2>2 DEF Digit
  <2>3. CASE x = 16
    BY <1>1, <2>3 DEF Digit
  <2>4. CASE x = 64
    BY <1>1, <2>4 DEF Digit
  <2> QED
    BY <2>1, <2>2, <2>3, <2>4 DEF OfTwoBits
<1>2. CASE w = 4
  <2>1. CASE x = 1
    BY <1>2, <2>1 DEF Digit
  <2>2. CASE x = 4
    BY <1>2, <2>2 DEF Digit
  <2>3. CASE x = 16
    BY <1>2, <2>3 DEF Digit
  <2>4. CASE x = 64
    BY <1>2, <2>4 DEF Digit
  <2> QED
    BY <2>1, <2>2, <2>3, <2>4 DEF OfTwoBits
<1>3. CASE w = 16
  <2>1. CASE x = 1
    BY <1>3, <2>1 DEF Digit
  <2>2. CASE x = 4
    BY <1>3, <2>2 DEF Digit
  <2>3. CASE x = 16
    BY <1>3, <2>3 DEF Digit
  <2>4. CASE x = 64
    BY <1>3, <2>4 DEF Digit
  <2> QED
    BY <2>1, <2>2, <2>3, <2>4 DEF OfTwoBits
<1>4. CASE w = 64
  <2>1. CASE x = 1
    BY <1>4, <2>1 DEF Digit
  <2>2. CASE x = 4
    BY <1>4, <2>2 DEF Digit
  <2>3. CASE x = 16
    BY <1>4, <2>3 DEF Digit
  <2>4. CASE x = 64
    BY <1>4, <2>4 DEF Digit
  <2> QED
    BY <2>1, <2>2, <2>3, <2>4 DEF OfTwoBits
<1> QED
  BY <1>1, <1>2, <1>3, <1>4 DEF OfTwoBits

\* Nor does taking one from a digit that is not zero, in parts of two bits.
LEMMA TakeTwoBits ==
  ASSUME NEW b \in 0..255, NEW w \in OfTwoBits, NEW x \in OfTwoBits,
         Digit(b, w, 4) > 0
  PROVE  /\ x = w => Digit((b - w) % 256, x, 4) = Digit(b, x, 4) - 1
         /\ x # w => Digit((b - w) % 256, x, 4) = Digit(b, x, 4)
<1>1. CASE w = 1
  <2>1. CASE x = 1
    BY <1>1, <2>1 DEF Digit
  <2>2. CASE x = 4
    BY <1>1, <2>2 DEF Digit
  <2>3. CASE x = 16
    BY <1>1, <2>3 DEF Digit
  <2>4. CASE x = 64
    BY <1>1, <2>4 DEF Digit
  <2> QED
    BY <2>1, <2>2, <2>3, <2>4 DEF OfTwoBits
<1>2. CASE w = 4
  <2>1. CASE x = 1
    BY <1>2, <2>1 DEF Digit
  <2>2. CASE x = 4
    BY <1>2, <2>2 DEF Digit
  <2>3. CASE x = 16
    BY <1>2, <2>3 DEF Digit
  <2>4. CASE x = 64
    BY <1>2, <2>4 DEF Digit
  <2> QED
    BY <2>1, <2>2, <2>3, <2>4 DEF OfTwoBits
<1>3. CASE w = 16
  <2>1. CASE x = 1
    BY <1>3, <2>1 DEF Digit
  <2>2. CASE x = 4
    BY <1>3, <2>2 DEF Digit
  <2>3. CASE x = 16
    BY <1>3, <2>3 DEF Digit
  <2>4. CASE x = 64
    BY <1>3, <2>4 DEF Digit
  <2> QED
    BY <2>1, <2>2, <2>3, <2>4 DEF OfTwoBits
<1>4. CASE w = 64
  <2>1. CASE x = 1
    BY <1>4, <2>1 DEF Digit
  <2>2. CASE x = 4
    BY <1>4, <2>2 DEF Digit
  <2>3. CASE x = 16
    BY <1>4, <2>3 DEF Digit
  <2>4. CASE x = 64
    BY <1>4, <2>4 DEF Digit
  <2> QED
    BY <2>1, <2>2, <2>3, <2>4 DEF OfTwoBits
<1> QED
  BY <1>1, <1>2, <1>3, <1>4 DEF OfTwoBits

\* Adding one to a digit that is not full changes no other, and does not wrap the byte,
\* in parts of four bits.
LEMMA AddFourBits ==
  ASSUME NEW b \in 0..255, NEW w \in OfFourBits, NEW x \in OfFourBits,
         Digit(b, w, 16) < 16 - 1
  PROVE  /\ x = w => Digit((b + w) % 256, x, 16) = Digit(b, x, 16) + 1
         /\ x # w => Digit((b + w) % 256, x, 16) = Digit(b, x, 16)
<1>1. CASE w = 1
  <2>1. CASE x = 1
    BY <1>1, <2>1 DEF Digit
  <2>2. CASE x = 16
    BY <1>1, <2>2 DEF Digit
  <2> QED
    BY <2>1, <2>2 DEF OfFourBits
<1>2. CASE w = 16
  <2>1. CASE x = 1
    BY <1>2, <2>1 DEF Digit
  <2>2. CASE x = 16
    BY <1>2, <2>2 DEF Digit
  <2> QED
    BY <2>1, <2>2 DEF OfFourBits
<1> QED
  BY <1>1, <1>2 DEF OfFourBits

\* Nor does taking one from a digit that is not zero, in parts of four bits.
LEMMA TakeFourBits ==
  ASSUME NEW b \in 0..255, NEW w \in OfFourBits, NEW x \in OfFourBits,
         Digit(b, w, 16) > 0
  PROVE  /\ x = w => Digit((b - w) % 256, x, 16) = Digit(b, x, 16) - 1
         /\ x # w => Digit((b - w) % 256, x, 16) = Digit(b, x, 16)
<1>1. CASE w = 1
  <2>1. CASE x = 1
    BY <1>1, <2>1 DEF Digit
  <2>2. CASE x = 16
    BY <1>1, <2>2 DEF Digit
  <2> QED
    BY <2>1, <2>2 DEF OfFourBits
<1>2. CASE w = 16
  <2>1. CASE x = 1
    BY <1>2, <2>1 DEF Digit
  <2>2. CASE x = 16
    BY <1>2, <2>2 DEF Digit
  <2> QED
    BY <2>1, <2>2 DEF OfFourBits
<1> QED
  BY <1>1, <1>2 DEF OfFourBits

\* Adding one to a digit that is not full changes no other, and does not wrap the byte,
\* in parts of eight bits.
LEMMA AddEightBits ==
  ASSUME NEW b \in 0..255, NEW w \in OfEightBits, NEW x \in OfEightBits,
         Digit(b, w, 256) < 256 - 1
  PROVE  /\ x = w => Digit((b + w) % 256, x, 256) = Digit(b, x, 256) + 1
         /\ x # w => Digit((b + w) % 256, x, 256) = Digit(b, x, 256)
BY DEF Digit, OfEightBits

\* Nor does taking one from a digit that is not zero, in parts of eight bits.
LEMMA TakeEightBits ==
  ASSUME NEW b \in 0..255, NEW w \in OfEightBits, NEW x \in OfEightBits,
         Digit(b, w, 256) > 0
  PROVE  /\ x = w => Digit((b - w) % 256, x, 256) = Digit(b, x, 256) - 1
         /\ x # w => Digit((b - w) % 256, x, 256) = Digit(b, x, 256)
BY DEF Digit, OfEightBits

\* Adding one to a part of a byte that is not full changes no other.
LEMMA ByteAdd ==
  ASSUME NEW W \in {2, 4, 8}, NEW b \in 0..255,
         NEW p \in Parts(W), NEW q \in Parts(W),
         ByteField(W, b, p) < Full(W)
  PROVE  /\ q = p => ByteField(W, (b + One(W, p)) % 256, q) = ByteField(W, b, q) + 1
         /\ q # p => ByteField(W, (b + One(W, p)) % 256, q) = ByteField(W, b, q)
<1>1. PICK w : w = One(W, p)
  OBVIOUS
<1>2. PICK x : x = One(W, q)
  OBVIOUS
<1>3. CASE W = 2
  <2>1. p \in 0..(8 \div 2) - 1 /\ q \in 0..(8 \div 2) - 1
    BY <1>3, Zenon DEF Parts
  <2>2. w = 2 ^ (p * 2) /\ x = 2 ^ (q * 2) /\ 2 ^ W = 4
    <3>1. 2 ^ 2 = 4
      OBVIOUS
    <3> QED
      BY <1>1, <1>2, <1>3, <3>1, Zenon DEF One
  <2>3. (p = 0 /\ w = 1) \/ (p = 1 /\ w = 4) \/ (p = 2 /\ w = 16) \/ (p = 3 /\ w = 64)
    <3>1. p = 0 \/ p = 1 \/ p = 2 \/ p = 3
      BY <2>1
    <3> QED
      BY <2>2, <3>1, WeightsOfTwo, Zenon
  <2>4. (q = 0 /\ x = 1) \/ (q = 1 /\ x = 4) \/ (q = 2 /\ x = 16) \/ (q = 3 /\ x = 64)
    <3>1. q = 0 \/ q = 1 \/ q = 2 \/ q = 3
      BY <2>1
    <3> QED
      BY <2>2, <3>1, WeightsOfTwo, Zenon
  <2>5. w \in OfTwoBits /\ x \in OfTwoBits /\ (x = w <=> q = p)
    BY <2>3, <2>4 DEF OfTwoBits
  <2>6. \A c : /\ ByteField(W, c, p) = Digit(c, w, 4)
             /\ ByteField(W, c, q) = Digit(c, x, 4)
    BY <1>1, <1>2, <2>2, Zenon DEF ByteField, Digit
  <2>7. /\ x = w => Digit((b + w) % 256, x, 4) = Digit(b, x, 4) + 1
        /\ x # w => Digit((b + w) % 256, x, 4) = Digit(b, x, 4)
    <3>1. Digit(b, w, 4) < 4 - 1
      BY <2>2, <2>6, Zenon DEF Full
    <3> QED
      BY <2>5, <3>1, AddTwoBits, SMTT(30)
  <2>8. Digit((b + w) % 256, x, 4) = ByteField(W, (b + One(W, p)) % 256, q)
    BY <1>1, <2>6, Zenon
  <2>9. Digit(b, x, 4) = ByteField(W, b, q)
    BY <2>6, Zenon
  <2> QED
    BY <2>5, <2>7, <2>8, <2>9, ZenonT(60)
<1>4. CASE W = 4
  <2>1. p \in 0..(8 \div 4) - 1 /\ q \in 0..(8 \div 4) - 1
    BY <1>4, Zenon DEF Parts
  <2>2. w = 2 ^ (p * 4) /\ x = 2 ^ (q * 4) /\ 2 ^ W = 16
    <3>1. 2 ^ 4 = 16
      OBVIOUS
    <3> QED
      BY <1>1, <1>2, <1>4, <3>1, Zenon DEF One
  <2>3. (p = 0 /\ w = 1) \/ (p = 1 /\ w = 16)
    <3>1. p = 0 \/ p = 1
      BY <2>1
    <3> QED
      BY <2>2, <3>1, WeightsOfFour, Zenon
  <2>4. (q = 0 /\ x = 1) \/ (q = 1 /\ x = 16)
    <3>1. q = 0 \/ q = 1
      BY <2>1
    <3> QED
      BY <2>2, <3>1, WeightsOfFour, Zenon
  <2>5. w \in OfFourBits /\ x \in OfFourBits /\ (x = w <=> q = p)
    BY <2>3, <2>4 DEF OfFourBits
  <2>6. \A c : /\ ByteField(W, c, p) = Digit(c, w, 16)
             /\ ByteField(W, c, q) = Digit(c, x, 16)
    BY <1>1, <1>2, <2>2, Zenon DEF ByteField, Digit
  <2>7. /\ x = w => Digit((b + w) % 256, x, 16) = Digit(b, x, 16) + 1
        /\ x # w => Digit((b + w) % 256, x, 16) = Digit(b, x, 16)
    <3>1. Digit(b, w, 16) < 16 - 1
      BY <2>2, <2>6, Zenon DEF Full
    <3> QED
      BY <2>5, <3>1, AddFourBits, SMTT(30)
  <2>8. Digit((b + w) % 256, x, 16) = ByteField(W, (b + One(W, p)) % 256, q)
    BY <1>1, <2>6, Zenon
  <2>9. Digit(b, x, 16) = ByteField(W, b, q)
    BY <2>6, Zenon
  <2> QED
    BY <2>5, <2>7, <2>8, <2>9, ZenonT(60)
<1>5. CASE W = 8
  <2>1. p \in 0..(8 \div 8) - 1 /\ q \in 0..(8 \div 8) - 1
    BY <1>5, Zenon DEF Parts
  <2>2. w = 2 ^ (p * 8) /\ x = 2 ^ (q * 8) /\ 2 ^ W = 256
    <3>1. 2 ^ 8 = 256
      OBVIOUS
    <3> QED
      BY <1>1, <1>2, <1>5, <3>1, Zenon DEF One
  <2>3. (p = 0 /\ w = 1)
    <3>1. p = 0
      BY <2>1
    <3> QED
      BY <2>2, <3>1, WeightsOfEight, Zenon
  <2>4. (q = 0 /\ x = 1)
    <3>1. q = 0
      BY <2>1
    <3> QED
      BY <2>2, <3>1, WeightsOfEight, Zenon
  <2>5. w \in OfEightBits /\ x \in OfEightBits /\ (x = w <=> q = p)
    BY <2>3, <2>4 DEF OfEightBits
  <2>6. \A c : /\ ByteField(W, c, p) = Digit(c, w, 256)
             /\ ByteField(W, c, q) = Digit(c, x, 256)
    BY <1>1, <1>2, <2>2, Zenon DEF ByteField, Digit
  <2>7. /\ x = w => Digit((b + w) % 256, x, 256) = Digit(b, x, 256) + 1
        /\ x # w => Digit((b + w) % 256, x, 256) = Digit(b, x, 256)
    <3>1. Digit(b, w, 256) < 256 - 1
      BY <2>2, <2>6, Zenon DEF Full
    <3> QED
      BY <2>5, <3>1, AddEightBits, SMTT(30)
  <2>8. Digit((b + w) % 256, x, 256) = ByteField(W, (b + One(W, p)) % 256, q)
    BY <1>1, <2>6, Zenon
  <2>9. Digit(b, x, 256) = ByteField(W, b, q)
    BY <2>6, Zenon
  <2> QED
    BY <2>5, <2>7, <2>8, <2>9, ZenonT(60)
<1> QED
  BY <1>3, <1>4, <1>5

\* Nor does taking one from a part that is not zero.
LEMMA ByteTake ==
  ASSUME NEW W \in {2, 4, 8}, NEW b \in 0..255,
         NEW p \in Parts(W), NEW q \in Parts(W),
         ByteField(W, b, p) > 0
  PROVE  /\ q = p => ByteField(W, (b - One(W, p)) % 256, q) = ByteField(W, b, q) - 1
         /\ q # p => ByteField(W, (b - One(W, p)) % 256, q) = ByteField(W, b, q)
<1>1. PICK w : w = One(W, p)
  OBVIOUS
<1>2. PICK x : x = One(W, q)
  OBVIOUS
<1>3. CASE W = 2
  <2>1. p \in 0..(8 \div 2) - 1 /\ q \in 0..(8 \div 2) - 1
    BY <1>3, Zenon DEF Parts
  <2>2. w = 2 ^ (p * 2) /\ x = 2 ^ (q * 2) /\ 2 ^ W = 4
    <3>1. 2 ^ 2 = 4
      OBVIOUS
    <3> QED
      BY <1>1, <1>2, <1>3, <3>1, Zenon DEF One
  <2>3. (p = 0 /\ w = 1) \/ (p = 1 /\ w = 4) \/ (p = 2 /\ w = 16) \/ (p = 3 /\ w = 64)
    <3>1. p = 0 \/ p = 1 \/ p = 2 \/ p = 3
      BY <2>1
    <3> QED
      BY <2>2, <3>1, WeightsOfTwo, Zenon
  <2>4. (q = 0 /\ x = 1) \/ (q = 1 /\ x = 4) \/ (q = 2 /\ x = 16) \/ (q = 3 /\ x = 64)
    <3>1. q = 0 \/ q = 1 \/ q = 2 \/ q = 3
      BY <2>1
    <3> QED
      BY <2>2, <3>1, WeightsOfTwo, Zenon
  <2>5. w \in OfTwoBits /\ x \in OfTwoBits /\ (x = w <=> q = p)
    BY <2>3, <2>4 DEF OfTwoBits
  <2>6. \A c : /\ ByteField(W, c, p) = Digit(c, w, 4)
             /\ ByteField(W, c, q) = Digit(c, x, 4)
    BY <1>1, <1>2, <2>2, Zenon DEF ByteField, Digit
  <2>7. /\ x = w => Digit((b - w) % 256, x, 4) = Digit(b, x, 4) - 1
        /\ x # w => Digit((b - w) % 256, x, 4) = Digit(b, x, 4)
    <3>1. Digit(b, w, 4) > 0
      BY <2>2, <2>6, Zenon
    <3> QED
      BY <2>5, <3>1, TakeTwoBits, SMTT(30)
  <2>8. Digit((b - w) % 256, x, 4) = ByteField(W, (b - One(W, p)) % 256, q)
    BY <1>1, <2>6, Zenon
  <2>9. Digit(b, x, 4) = ByteField(W, b, q)
    BY <2>6, Zenon
  <2> QED
    BY <2>5, <2>7, <2>8, <2>9, ZenonT(60)
<1>4. CASE W = 4
  <2>1. p \in 0..(8 \div 4) - 1 /\ q \in 0..(8 \div 4) - 1
    BY <1>4, Zenon DEF Parts
  <2>2. w = 2 ^ (p * 4) /\ x = 2 ^ (q * 4) /\ 2 ^ W = 16
    <3>1. 2 ^ 4 = 16
      OBVIOUS
    <3> QED
      BY <1>1, <1>2, <1>4, <3>1, Zenon DEF One
  <2>3. (p = 0 /\ w = 1) \/ (p = 1 /\ w = 16)
    <3>1. p = 0 \/ p = 1
      BY <2>1
    <3> QED
      BY <2>2, <3>1, WeightsOfFour, Zenon
  <2>4. (q = 0 /\ x = 1) \/ (q = 1 /\ x = 16)
    <3>1. q = 0 \/ q = 1
      BY <2>1
    <3> QED
      BY <2>2, <3>1, WeightsOfFour, Zenon
  <2>5. w \in OfFourBits /\ x \in OfFourBits /\ (x = w <=> q = p)
    BY <2>3, <2>4 DEF OfFourBits
  <2>6. \A c : /\ ByteField(W, c, p) = Digit(c, w, 16)
             /\ ByteField(W, c, q) = Digit(c, x, 16)
    BY <1>1, <1>2, <2>2, Zenon DEF ByteField, Digit
  <2>7. /\ x = w => Digit((b - w) % 256, x, 16) = Digit(b, x, 16) - 1
        /\ x # w => Digit((b - w) % 256, x, 16) = Digit(b, x, 16)
    <3>1. Digit(b, w, 16) > 0
      BY <2>2, <2>6, Zenon
    <3> QED
      BY <2>5, <3>1, TakeFourBits, SMTT(30)
  <2>8. Digit((b - w) % 256, x, 16) = ByteField(W, (b - One(W, p)) % 256, q)
    BY <1>1, <2>6, Zenon
  <2>9. Digit(b, x, 16) = ByteField(W, b, q)
    BY <2>6, Zenon
  <2> QED
    BY <2>5, <2>7, <2>8, <2>9, ZenonT(60)
<1>5. CASE W = 8
  <2>1. p \in 0..(8 \div 8) - 1 /\ q \in 0..(8 \div 8) - 1
    BY <1>5, Zenon DEF Parts
  <2>2. w = 2 ^ (p * 8) /\ x = 2 ^ (q * 8) /\ 2 ^ W = 256
    <3>1. 2 ^ 8 = 256
      OBVIOUS
    <3> QED
      BY <1>1, <1>2, <1>5, <3>1, Zenon DEF One
  <2>3. (p = 0 /\ w = 1)
    <3>1. p = 0
      BY <2>1
    <3> QED
      BY <2>2, <3>1, WeightsOfEight, Zenon
  <2>4. (q = 0 /\ x = 1)
    <3>1. q = 0
      BY <2>1
    <3> QED
      BY <2>2, <3>1, WeightsOfEight, Zenon
  <2>5. w \in OfEightBits /\ x \in OfEightBits /\ (x = w <=> q = p)
    BY <2>3, <2>4 DEF OfEightBits
  <2>6. \A c : /\ ByteField(W, c, p) = Digit(c, w, 256)
             /\ ByteField(W, c, q) = Digit(c, x, 256)
    BY <1>1, <1>2, <2>2, Zenon DEF ByteField, Digit
  <2>7. /\ x = w => Digit((b - w) % 256, x, 256) = Digit(b, x, 256) - 1
        /\ x # w => Digit((b - w) % 256, x, 256) = Digit(b, x, 256)
    <3>1. Digit(b, w, 256) > 0
      BY <2>2, <2>6, Zenon
    <3> QED
      BY <2>5, <3>1, TakeEightBits, SMTT(30)
  <2>8. Digit((b - w) % 256, x, 256) = ByteField(W, (b - One(W, p)) % 256, q)
    BY <1>1, <2>6, Zenon
  <2>9. Digit(b, x, 256) = ByteField(W, b, q)
    BY <2>6, Zenon
  <2> QED
    BY <2>5, <2>7, <2>8, <2>9, ZenonT(60)
<1> QED
  BY <1>3, <1>4, <1>5

\* What the four bits that are read of a part say of it.
LEMMA ByteNibble ==
  ASSUME NEW W \in {2, 4, 8}, NEW b \in 0..255, NEW p \in Parts(W)
  PROVE  /\ (b \div One(W, p)) % 16 \in 0..15
         /\ ByteField(W, b, p) \in 0..Full(W)
         /\ W = 2 => (b \div One(W, p)) % 16 >= ByteField(W, b, p)
         /\ W # 2 => \/ (b \div One(W, p)) % 16 = ByteField(W, b, p)
                     \/ ByteField(W, b, p) > 15
<1>1. PICK w : w = One(W, p)
  OBVIOUS
<1>2. CASE W = 2
  <2>1. p \in 0..(8 \div 2) - 1 /\ w = 2 ^ (p * 2)
    BY <1>1, <1>2, Zenon DEF Parts, One
  <2>2. w \in {1, 4, 16, 64}
    <3>1. p = 0 \/ p = 1 \/ p = 2 \/ p = 3
      BY <2>1
    <3> QED
      BY <2>1, <3>1, WeightsOfTwo, Zenon
  <2>3. ByteField(W, b, p) = (b \div w) % (2 ^ 2)
    BY <1>1, <1>2, Zenon DEF ByteField
  <2>4. /\ (b \div w) % 16 \in 0..15 /\ (b \div w) % 4 \in 0..3
        /\ (b \div w) % 16 >= (b \div w) % 4
    BY <2>2
  <2>5. 2 ^ 2 = 4
    OBVIOUS
  <2> QED
    BY <1>1, <1>2, <2>3, <2>4, <2>5 DEF Full
<1>3. CASE W = 4
  <2>1. p \in 0..(8 \div 4) - 1 /\ w = 2 ^ (p * 4)
    BY <1>1, <1>3, Zenon DEF Parts, One
  <2>2. w \in {1, 16}
    <3>1. p = 0 \/ p = 1
      BY <2>1
    <3> QED
      BY <2>1, <3>1, WeightsOfFour, Zenon
  <2>3. ByteField(W, b, p) = (b \div w) % (2 ^ 4)
    BY <1>1, <1>3, Zenon DEF ByteField
  <2>4. (b \div w) % 16 \in 0..15
    BY <2>2
  <2>5. 2 ^ 4 = 16
    OBVIOUS
  <2> QED
    BY <1>1, <1>3, <2>3, <2>4, <2>5 DEF Full
<1>4. CASE W = 8
  <2>1. p \in 0..(8 \div 8) - 1 /\ w = 2 ^ (p * 8)
    BY <1>1, <1>4, Zenon DEF Parts, One
  <2>2. w = 1
    <3>1. p = 0
      BY <2>1
    <3> QED
      BY <2>1, <3>1, WeightsOfEight, Zenon
  <2>3. ByteField(W, b, p) = (b \div 1) % (2 ^ 8)
    BY <1>1, <1>4, <2>2, Zenon DEF ByteField
  <2>4. /\ (b \div 1) % 16 \in 0..15 /\ (b \div 1) % 256 \in 0..255
        /\ (b \div 1) % 16 = (b \div 1) % 256 \/ (b \div 1) % 256 > 15
    OBVIOUS
  <2>5. 2 ^ 8 = 256
    OBVIOUS
  <2> QED
    BY <1>1, <1>4, <2>2, <2>3, <2>4, <2>5 DEF Full
<1> QED
  BY <1>2, <1>3, <1>4

-----------------------------------------------------------------------------
(* The counters of an array.                                                *)

\* The counter v of W bits.
Field(W, bytes, v) == ByteField(W, bytes[(v * W) \div 8], v % (8 \div W))

\* Each counter has a place of its own in an array.
LEMMA Places ==
  ASSUME NEW W \in {2, 4, 8}, NEW v \in 0..m-1, NEW x \in 0..m-1
  PROVE  /\ (v * W) \div 8 \in 0..((m * W + 7) \div 8) - 1
         /\ v % (8 \div W) \in Parts(W)
         /\ (v * W) \div 8 = (x * W) \div 8 /\ v % (8 \div W) = x % (8 \div W) => v = x
<1>0. m \in Nat \ {0}
  BY CountingBloomFilterAssumption
<1>1. CASE W = 2
  BY <1>0, <1>1 DEF Parts
<1>2. CASE W = 4
  BY <1>0, <1>2 DEF Parts
<1>3. CASE W = 8
  BY <1>0, <1>3 DEF Parts
<1> QED
  BY <1>1, <1>2, <1>3

\* A counter is the byte and the part of it that set, has, remove and count work on.
LEMMA FieldIs ==
  ASSUME NEW bytes, NEW v
  PROVE  Field(bits_per_element, bytes, v)
           = ByteField(bits_per_element, bytes[Bucket(v)], Part(v))
BY Zenon DEF Field, Bucket, Part

\* A byte of a place is a byte.
LEMMA PlaceTyped ==
  ASSUME bits_per_element \in {2, 4, 8}, NEW bytes \in Bytes, NEW v \in 0..m-1
  PROVE  /\ Bucket(v) \in Buckets /\ Part(v) \in Parts(bits_per_element)
         /\ bytes[Bucket(v)] \in 0..255 /\ Shift(Part(v)) \in Int
<1>1. Bucket(v) \in Buckets /\ Part(v) \in Parts(bits_per_element)
  BY Places, Zenon DEF Bucket, Part, Buckets
<1>2. bytes[Bucket(v)] \in 0..255
  BY <1>1 DEF Bytes
<1>3. Shift(Part(v)) \in Int
  <2>1. PICK p : p = Part(v)
    OBVIOUS
  <2>2. CASE bits_per_element = 2
    <3>1. p = 0 \/ p = 1 \/ p = 2 \/ p = 3
      BY <1>1, <2>1, <2>2 DEF Parts
    <3>2. Shift(p) \in {1, 4, 16, 64}
      BY <2>2, <3>1, WeightsOfTwo, Zenon DEF Shift, One
    <3> QED
      BY <2>1, <3>2
  <2>3. CASE bits_per_element = 4
    <3>1. p = 0 \/ p = 1
      BY <1>1, <2>1, <2>3 DEF Parts
    <3>2. Shift(p) \in {1, 16}
      BY <2>3, <3>1, WeightsOfFour, Zenon DEF Shift, One
    <3> QED
      BY <2>1, <3>2
  <2>4. CASE bits_per_element = 8
    <3>1. p = 0
      BY <1>1, <2>1, <2>4 DEF Parts
    <3>2. Shift(p) = 1
      BY <2>4, <3>1, WeightsOfEight, Zenon DEF Shift, One
    <3> QED
      BY <2>1, <3>2
  <2> QED
    BY <2>2, <2>3, <2>4
<1> QED
  BY <1>1, <1>2, <1>3

\* Adding to a counter that is not full raises that counter by one and no other.
LEMMA AddCounts ==
  ASSUME bits_per_element \in {2, 4, 8}, NEW bytes \in Bytes, NEW v \in 0..m-1
  PROVE  /\ Add(bytes, v) \in Bytes
         /\ Field(bits_per_element, bytes, v) < Full(bits_per_element) =>
              \A x \in 0..m-1 :
                /\ x = v => Field(bits_per_element, Add(bytes, v), x)
                              = Field(bits_per_element, bytes, x) + 1
                /\ x # v => Field(bits_per_element, Add(bytes, v), x)
                              = Field(bits_per_element, bytes, x)
<1> DEFINE W == bits_per_element
<1>1. PICK b : b = bytes[Bucket(v)]
  OBVIOUS
<1>2. PICK c : c = (b + Shift(Part(v))) % 256
  OBVIOUS
<1>3. /\ Bucket(v) \in Buckets /\ Part(v) \in Parts(W)
      /\ b \in 0..255 /\ Shift(Part(v)) \in Int
  BY <1>1, PlaceTyped
<1>4. c \in 0..255
  BY <1>2, <1>3
<1>5. Add(bytes, v) = [bytes EXCEPT ![Bucket(v)] = c]
  BY <1>1, <1>2 DEF Add
<1>6. Add(bytes, v) \in Bytes
  BY <1>3, <1>4, <1>5 DEF Bytes
<1>7. ASSUME Field(W, bytes, v) < Full(W), NEW x \in 0..m-1
      PROVE  /\ x = v => Field(W, Add(bytes, v), x) = Field(W, bytes, x) + 1
             /\ x # v => Field(W, Add(bytes, v), x) = Field(W, bytes, x)
  <2>1. /\ Bucket(x) \in Buckets /\ Part(x) \in Parts(W)
        /\ Bucket(x) = Bucket(v) /\ Part(x) = Part(v) => x = v
    BY PlaceTyped, Places, Zenon DEF Bucket, Part
  <2>2. CASE Bucket(x) # Bucket(v)
    <3>1. Add(bytes, v)[Bucket(x)] = bytes[Bucket(x)] /\ x # v
      BY <1>5, <2>1, <2>2 DEF Bytes
    <3> QED
      BY <3>1, FieldIs, Zenon
  <2>3. CASE Bucket(x) = Bucket(v)
    <3>1. Add(bytes, v)[Bucket(x)] = c /\ bytes[Bucket(x)] = b
      BY <1>1, <1>3, <1>5, <2>3 DEF Bytes
    <3>2. c = (b + One(W, Part(v))) % 256
      BY <1>2, Zenon DEF Shift, One
    <3>3. ByteField(W, b, Part(v)) < Full(W)
      BY <1>1, <1>7, FieldIs, Zenon
    <3>4. /\ Part(x) = Part(v) => ByteField(W, c, Part(x)) = ByteField(W, b, Part(x)) + 1
          /\ Part(x) # Part(v) => ByteField(W, c, Part(x)) = ByteField(W, b, Part(x))
      <4>1. PICK w \in {2, 4, 8} : w = W
        OBVIOUS
      <4>2. PICK p : p = Part(v)
        OBVIOUS
      <4>3. PICK q : q = Part(x)
        OBVIOUS
      <4>4. p \in Parts(w) /\ q \in Parts(w)
        BY <1>3, <2>1, <4>1, <4>2, <4>3, Zenon
      <4>5. ByteField(w, b, p) < Full(w)
        BY <3>3, <4>1, <4>2, Zenon
      <4>6. /\ q = p => ByteField(w, (b + One(w, p)) % 256, q) = ByteField(w, b, q) + 1
            /\ q # p => ByteField(w, (b + One(w, p)) % 256, q) = ByteField(w, b, q)
        BY <1>3, <4>4, <4>5, ByteAdd, ZenonT(60)
      <4> QED
        BY <3>2, <4>1, <4>2, <4>3, <4>6, Zenon
    <3> QED
      BY <2>1, <2>3, <3>1, <3>4, FieldIs, Zenon
  <2> QED
    BY <2>2, <2>3
<1> QED
  BY <1>6, <1>7

\* What has, remove, count and += see of a counter is at least that counter when it has
\* two bits; else it is that counter, or that counter is greater than four bits hold.
LEMMA CounterOf ==
  ASSUME bits_per_element \in {2, 4, 8}, NEW bytes \in Bytes, NEW v \in 0..m-1
  PROVE  /\ Counter(bytes, v) \in 0..15 /\ Field(bits_per_element, bytes, v) \in Int
         /\ bits_per_element = 2 => Counter(bytes, v) >= Field(bits_per_element, bytes, v)
         /\ bits_per_element # 2 => \/ Counter(bytes, v) = Field(bits_per_element, bytes, v)
                                   \/ Field(bits_per_element, bytes, v) > 15
<1> DEFINE W == bits_per_element
<1>1. PICK b : b = bytes[Bucket(v)]
  OBVIOUS
<1>2. /\ Bucket(v) \in Buckets /\ Part(v) \in Parts(W) /\ b \in 0..255
  BY <1>1, PlaceTyped
<1>3. Counter(bytes, v) = (b \div One(W, Part(v))) % 16
  BY <1>1, Zenon DEF Counter, Nibble, Shift, One
<1>4. /\ Counter(bytes, v) \in 0..15 /\ Field(W, bytes, v) \in Int
      /\ W = 2 => Counter(bytes, v) >= Field(W, bytes, v)
      /\ W # 2 => Counter(bytes, v) = Field(W, bytes, v) \/ Field(W, bytes, v) > 15
  <2>1. Field(W, bytes, v) = ByteField(W, b, Part(v))
    BY <1>1, FieldIs, Zenon
  <2>2. W \in {2, 4, 8}
    OBVIOUS
  <2> HIDE DEF W
  <2>3. ByteField(W, b, Part(v)) \in 0..Full(W)
    BY <1>2, <2>2, ByteNibble
  <2>4. ByteField(W, b, Part(v)) \in Int
    BY <2>3
  <2>5. /\ (b \div One(W, Part(v))) % 16 \in 0..15
        /\ W = 2 => (b \div One(W, Part(v))) % 16 >= ByteField(W, b, Part(v))
        /\ W # 2 => \/ (b \div One(W, Part(v))) % 16 = ByteField(W, b, Part(v))
                    \/ ByteField(W, b, Part(v)) > 15
    BY <1>2, <2>2, ByteNibble
  <2> QED
    BY <1>3, <2>1, <2>4, <2>5, Zenon
<1> QED
  BY <1>4

\* Taking from a counter that is not empty lowers that counter by one and no other; from
\* an empty one nothing is taken.
LEMMA SubtractCounts ==
  ASSUME bits_per_element \in {2, 4, 8}, NEW bytes \in Bytes, NEW v \in 0..m-1
  PROVE  /\ Subtract(bytes, v) \in Bytes
         /\ Field(bits_per_element, bytes, v) \in 1..Limit =>
              \A x \in 0..m-1 :
                /\ x = v => Field(bits_per_element, Subtract(bytes, v), x)
                              = Field(bits_per_element, bytes, x) - 1
                /\ x # v => Field(bits_per_element, Subtract(bytes, v), x)
                              = Field(bits_per_element, bytes, x)
         /\ Field(bits_per_element, bytes, v) = 0 /\ bits_per_element # 2 =>
              Subtract(bytes, v) = bytes
<1> DEFINE W == bits_per_element
<1>1. PICK b : b = bytes[Bucket(v)]
  OBVIOUS
<1>2. PICK c : c = (b - Shift(Part(v))) % 256
  OBVIOUS
<1>3. /\ Bucket(v) \in Buckets /\ Part(v) \in Parts(W)
      /\ b \in 0..255 /\ Shift(Part(v)) \in Int
  BY <1>1, PlaceTyped
<1>4. c \in 0..255
  BY <1>2, <1>3
<1>5. Subtract(bytes, v) = IF Counter(bytes, v) = 0 THEN bytes
                           ELSE [bytes EXCEPT ![Bucket(v)] = c]
  BY <1>1, <1>2 DEF Subtract
<1>6. Subtract(bytes, v) \in Bytes
  BY <1>3, <1>4, <1>5 DEF Bytes
<1>7. /\ Counter(bytes, v) \in 0..15 /\ Field(W, bytes, v) \in Int
      /\ W = 2 => Counter(bytes, v) >= Field(W, bytes, v)
      /\ W # 2 => Counter(bytes, v) = Field(W, bytes, v) \/ Field(W, bytes, v) > 15
  BY CounterOf
<1>8. ASSUME Field(W, bytes, v) \in 1..Limit, NEW x \in 0..m-1
      PROVE  /\ x = v => Field(W, Subtract(bytes, v), x) = Field(W, bytes, x) - 1
             /\ x # v => Field(W, Subtract(bytes, v), x) = Field(W, bytes, x)
  <2>0. Subtract(bytes, v) = [bytes EXCEPT ![Bucket(v)] = c]
    <3>1. Field(W, bytes, v) >= 1 /\ ~(Field(W, bytes, v) > 15)
      BY <1>7, <1>8 DEF Limit
    <3>2. Counter(bytes, v) # 0
      BY <1>7, <3>1
    <3> QED
      BY <1>5, <3>2
  <2>1. /\ Bucket(x) \in Buckets /\ Part(x) \in Parts(W)
        /\ Bucket(x) = Bucket(v) /\ Part(x) = Part(v) => x = v
    BY PlaceTyped, Places, Zenon DEF Bucket, Part
  <2>2. CASE Bucket(x) # Bucket(v)
    <3>1. Subtract(bytes, v)[Bucket(x)] = bytes[Bucket(x)] /\ x # v
      BY <2>0, <2>1, <2>2 DEF Bytes
    <3> QED
      BY <3>1, FieldIs, Zenon
  <2>3. CASE Bucket(x) = Bucket(v)
    <3>1. Subtract(bytes, v)[Bucket(x)] = c /\ bytes[Bucket(x)] = b
      BY <1>1, <1>3, <2>0, <2>3 DEF Bytes
    <3>2. c = (b - One(W, Part(v))) % 256
      BY <1>2, Zenon DEF Shift, One
    <3>3. ByteField(W, b, Part(v)) > 0
      <4>1. ByteField(W, b, Part(v)) = Field(W, bytes, v)
        BY <1>1, FieldIs, Zenon
      <4>2. Field(W, bytes, v) > 0
        BY <1>7, <1>8
      <4> QED
        BY <4>1, <4>2, Zenon
    <3>4. /\ Part(x) = Part(v) => ByteField(W, c, Part(x)) = ByteField(W, b, Part(x)) - 1
          /\ Part(x) # Part(v) => ByteField(W, c, Part(x)) = ByteField(W, b, Part(x))
      <4>1. PICK w \in {2, 4, 8} : w = W
        OBVIOUS
      <4>2. PICK p : p = Part(v)
        OBVIOUS
      <4>3. PICK q : q = Part(x)
        OBVIOUS
      <4>4. p \in Parts(w) /\ q \in Parts(w)
        BY <1>3, <2>1, <4>1, <4>2, <4>3, Zenon
      <4>5. ByteField(w, b, p) > 0
        BY <3>3, <4>1, <4>2, Zenon
      <4>6. /\ q = p => ByteField(w, (b - One(w, p)) % 256, q) = ByteField(w, b, q) - 1
            /\ q # p => ByteField(w, (b - One(w, p)) % 256, q) = ByteField(w, b, q)
        BY <1>3, <4>4, <4>5, ByteTake, ZenonT(60)
      <4> QED
        BY <3>2, <4>1, <4>2, <4>3, <4>6, Zenon
    <3> QED
      BY <2>1, <2>3, <3>1, <3>4, FieldIs, Zenon
  <2> QED
    BY <2>2, <2>3
<1>9. ASSUME Field(W, bytes, v) = 0, W # 2 PROVE Subtract(bytes, v) = bytes
  <2>1. Counter(bytes, v) = 0
    BY <1>7, <1>9
  <2> QED
    BY <1>5, <2>1
<1> QED
  BY <1>6, <1>8, <1>9

-----------------------------------------------------------------------------
(* The loops over the hash functions.                                       *)

\* How many of the first i values are v.
Times(vals, i, v) == Cardinality({j \in 1..i : vals[j] = v})

\* The values are counted one by one: one more when the next is v, and never fewer.
LEMMA TimesGrow ==
  ASSUME NEW vals, NEW v
  PROVE  /\ Times(vals, 0, v) = 0
         /\ \A i \in Nat :
              /\ Times(vals, i, v) \in Nat
              /\ vals[i + 1] = v => Times(vals, i + 1, v) = Times(vals, i, v) + 1
              /\ vals[i + 1] # v => Times(vals, i + 1, v) = Times(vals, i, v)
         /\ \A n \in Nat : \A i \in 0..n : Times(vals, i, v) <= Times(vals, n, v)
<1> DEFINE At(i) == {j \in 1..i : vals[j] = v}
<1>1. ASSUME NEW i \in Nat PROVE IsFiniteSet(At(i)) /\ Cardinality(At(i)) \in Nat
  <2>1. IsFiniteSet(1..i)
    BY FS_Interval
  <2>2. IsFiniteSet(At(i))
    BY <2>1, FS_Subset
  <2> QED
    BY <2>2, FS_CardinalityType
<1>2. Times(vals, 0, v) = 0
  <2>1. At(0) = {}
    OBVIOUS
  <2> QED
    BY <2>1, FS_EmptySet DEF Times
<1>3. ASSUME NEW i \in Nat
      PROVE  /\ Times(vals, i, v) \in Nat
             /\ vals[i + 1] = v => Times(vals, i + 1, v) = Times(vals, i, v) + 1
             /\ vals[i + 1] # v => Times(vals, i + 1, v) = Times(vals, i, v)
  <2>1. 1..(i + 1) = (1..i) \cup {i + 1} /\ i + 1 \notin 1..i
    OBVIOUS
  <2>2. CASE vals[i + 1] = v
    <3>1. At(i + 1) = At(i) \cup {i + 1} /\ i + 1 \notin At(i)
      BY <2>1, <2>2, Zenon
    <3>2. Cardinality(At(i) \cup {i + 1}) = Cardinality(At(i)) + 1
      <4> HIDE DEF At
      <4> QED
        BY <1>1, <3>1, FS_AddElement
    <3> QED
      BY <1>1, <2>2, <3>1, <3>2, Zenon DEF Times
  <2>3. CASE vals[i + 1] # v
    <3>1. At(i + 1) = At(i)
      BY <2>1, <2>3, Zenon
    <3> QED
      BY <1>1, <2>3, <3>1, Zenon DEF Times
  <2> QED
    BY <2>2, <2>3
<1>4. ASSUME NEW n \in Nat, NEW i \in 0..n PROVE Times(vals, i, v) <= Times(vals, n, v)
  <2>1. At(i) \subseteq At(n)
    OBVIOUS
  <2>2. Cardinality(At(i)) <= Cardinality(At(n))
    <3>1. At(i) \in SUBSET At(n) /\ IsFiniteSet(At(n))
      BY <1>1, <2>1
    <3> HIDE DEF At
    <3> QED
      BY <3>1, FS_Subset
  <2> QED
    BY <2>2 DEF Times
<1> QED
  BY <1>2, <1>3, <1>4

\* The greatest of some numbers is one of them.
LEMMA GreatestIn ==
  ASSUME NEW n \in Nat, NEW s \in SUBSET (1..n), s # {}
  PROVE  Max(s) \in s
<1> DEFINE T == {d \in Nat : n - d \in s}
<1>1. T \subseteq Nat
  OBVIOUS
<1>2. T # {}
  <2>1. PICK y \in s : TRUE
    OBVIOUS
  <2>2. n - y \in Nat /\ n - (n - y) = y
    OBVIOUS
  <2> QED
    BY <2>1, <2>2
<1>3. PICK d \in T : \A c \in T : d <= c
  BY <1>1, <1>2, LeastElement, Zenon
<1>4. n - d \in s
  BY <1>3
<1>5. ASSUME NEW y \in s PROVE n - d >= y
  <2>1. n - y \in T
    <3>1. n - y \in Nat /\ n - (n - y) = y
      OBVIOUS
    <3> QED
      BY <3>1
  <2>2. d <= n - y
    BY <1>3, <2>1
  <2> QED
    BY <1>3, <2>2
<1> QED
  BY <1>4, <1>5, Zenon DEF Max

\* The greatest of the first i numbers is i.
LEMMA GreatestOf ==
  ASSUME NEW i \in Nat, i # 0
  PROVE  Max(1..i) = i
<1>1. Max(1..i) \in 1..i /\ Max(1..i) >= i
  <2>1. i \in 1..i /\ \A y \in 1..i : i >= y
    OBVIOUS
  <2>2. \E x \in 1..i : \A y \in 1..i : x >= y
    BY <2>1, Zenon
  <2> QED
    BY <2>1, <2>2 DEF Max
<1>2. \A x \in 1..i : x >= i => x = i
  OBVIOUS
<1> QED
  BY <1>1, <1>2, Zenon

\* An element has k values, each the number of a counter.
LEMMA ValsTyped ==
  ASSUME NEW hs \in Hashes, NEW e \in Elements
  PROVE  /\ DOMAIN Vals(hs, e) = 1..k
         /\ \A i \in 1..k : Vals(hs, e)[i] \in 0..m-1
BY CountingBloomFilterAssumption DEF Vals, Hashes

\* The recursion that set is: each of the values is added to.
AddStep(it, bytes, vals, s) ==
  IF s = {} THEN bytes ELSE Add(it[s \ {Max(s)}], vals[Max(s)])

AddOver(bytes, vals, S) ==
  CHOOSE it : it = [s \in SUBSET S |-> AddStep(it, bytes, vals, s)]

\* The fold that set is works on one value after the other.
LEMMA AddRuns ==
  ASSUME bits_per_element \in {2, 4, 8}, NEW bytes \in Bytes,
         NEW hs \in Hashes, NEW e \in Elements
  PROVE  \E run : /\ run[0] = bytes /\ run[k] = set(bytes, hs, e)
                  /\ \A i \in 1..k : run[i] = Add(run[i - 1], Vals(hs, e)[i])
<1> DEFINE vals == Vals(hs, e)
           c == [s \in SUBSET (1..k) |-> Max(s)]
           h == [p \in (1..k) \X Bytes |-> Add(p[2], vals[p[1]])]
           it == AddOver(bytes, vals, 1..k)
           run == [i \in 0..k |-> it[1..i]]
<1>1. k \in Nat /\ IsFiniteSet(1..k) /\ k # 0
  BY CountingBloomFilterAssumption, FS_Interval
<1>2. \A s \in SUBSET (1..k) : s # {} => c[s] \in s
  BY <1>1, GreatestIn
<1>3. h \in [(1..k) \X Bytes -> Bytes]
  BY ValsTyped, AddCounts
<1>4. PICK f \in [SUBSET (1..k) -> Bytes] : Unfolds(f, 1..k, bytes, c, h)
  <2> HIDE DEF c, h
  <2> QED
    BY <1>1, <1>2, <1>3, FoldExists, Zenon
<1>5. f = [s \in SUBSET (1..k) |-> AddStep(f, bytes, vals, s)]
  <2>1. ASSUME NEW s \in SUBSET (1..k), s # {}
        PROVE  h[<<c[s], f[s \ {c[s]}]>>] = Add(f[s \ {Max(s)}], vals[Max(s)])
    <3>1. c[s] = Max(s) /\ Max(s) \in 1..k
      BY <1>2, <2>1
    <3>2. f[s \ {Max(s)}] \in Bytes
      BY <1>4, <3>1
    <3> QED
      BY <3>1, <3>2
  <2> HIDE DEF c, h, vals
  <2> QED
    BY <1>4, <2>1 DEF Unfolds, AddStep
<1>6. it = [s \in SUBSET (1..k) |-> AddStep(it, bytes, vals, s)]
  <2> HIDE DEF vals
  <2> QED
    BY <1>5 DEF AddOver
<1>7. set(bytes, hs, e) = it[1..k]
  BY ValsTyped DEF set, FoldLeft, MapThenFoldSet, AddOver, AddStep
<1>8. run[0] = bytes
  <2>1. 1..0 = {} /\ {} \in SUBSET (1..k) /\ 0 \in 0..k
    BY <1>1
  <2>2. it[{}] = bytes
    <3> HIDE DEF it
    <3> QED
      BY <1>6, <2>1, Zenon DEF AddStep
  <2> HIDE DEF it
  <2> QED
    BY <2>1, <2>2
<1>9. ASSUME NEW i \in 1..k PROVE run[i] = Add(run[i - 1], vals[i])
  <2>1. /\ 1..i \in SUBSET (1..k) /\ 1..i # {} /\ i \in 0..k /\ i - 1 \in 0..k
        /\ i \in Nat /\ i # 0 /\ (1..i) \ {i} = 1..(i - 1)
    BY <1>1
  <2>2. Max(1..i) = i
    BY <2>1, GreatestOf
  <2> HIDE DEF it, vals
  <2>3. it[1..i] = Add(it[1..(i - 1)], vals[i])
    BY <1>6, <2>1, <2>2, ZenonT(60) DEF AddStep
  <2> QED
    BY <2>1, <2>3, Zenon
<1>10. run[k] = set(bytes, hs, e)
  <2>1. k \in 0..k
    BY <1>1
  <2> HIDE DEF it
  <2> QED
    BY <1>7, <2>1
<1> HIDE DEF run, vals
<1> QED
  BY <1>8, <1>9, <1>10, Zenon DEF vals

\* The recursion that remove is.
SubtractStep(it, bytes, vals, s) ==
  IF s = {} THEN bytes ELSE Subtract(it[s \ {Max(s)}], vals[Max(s)])

SubtractOver(bytes, vals, S) ==
  CHOOSE it : it = [s \in SUBSET S |-> SubtractStep(it, bytes, vals, s)]

\* The fold that remove is works on one value after the other.
LEMMA SubtractRuns ==
  ASSUME bits_per_element \in {2, 4, 8}, NEW bytes \in Bytes,
         NEW hs \in Hashes, NEW e \in Elements
  PROVE  \E run : /\ run[0] = bytes /\ run[k] = remove(bytes, hs, e)
                  /\ \A i \in 1..k : run[i] = Subtract(run[i - 1], Vals(hs, e)[i])
<1> DEFINE vals == Vals(hs, e)
           c == [s \in SUBSET (1..k) |-> Max(s)]
           h == [p \in (1..k) \X Bytes |-> Subtract(p[2], vals[p[1]])]
           it == SubtractOver(bytes, vals, 1..k)
           run == [i \in 0..k |-> it[1..i]]
<1>1. k \in Nat /\ IsFiniteSet(1..k) /\ k # 0
  BY CountingBloomFilterAssumption, FS_Interval
<1>2. \A s \in SUBSET (1..k) : s # {} => c[s] \in s
  BY <1>1, GreatestIn
<1>3. h \in [(1..k) \X Bytes -> Bytes]
  BY ValsTyped, SubtractCounts
<1>4. PICK f \in [SUBSET (1..k) -> Bytes] : Unfolds(f, 1..k, bytes, c, h)
  <2> HIDE DEF c, h
  <2> QED
    BY <1>1, <1>2, <1>3, FoldExists, Zenon
<1>5. f = [s \in SUBSET (1..k) |-> SubtractStep(f, bytes, vals, s)]
  <2>1. ASSUME NEW s \in SUBSET (1..k), s # {}
        PROVE  h[<<c[s], f[s \ {c[s]}]>>] = Subtract(f[s \ {Max(s)}], vals[Max(s)])
    <3>1. c[s] = Max(s) /\ Max(s) \in 1..k
      BY <1>2, <2>1
    <3>2. f[s \ {Max(s)}] \in Bytes
      BY <1>4, <3>1
    <3> QED
      BY <3>1, <3>2
  <2> HIDE DEF c, h, vals
  <2> QED
    BY <1>4, <2>1 DEF Unfolds, SubtractStep
<1>6. it = [s \in SUBSET (1..k) |-> SubtractStep(it, bytes, vals, s)]
  <2> HIDE DEF vals
  <2> QED
    BY <1>5 DEF SubtractOver
<1>7. remove(bytes, hs, e) = it[1..k]
  BY ValsTyped DEF remove, FoldLeft, MapThenFoldSet, SubtractOver, SubtractStep
<1>8. run[0] = bytes
  <2>1. 1..0 = {} /\ {} \in SUBSET (1..k) /\ 0 \in 0..k
    BY <1>1
  <2>2. it[{}] = bytes
    <3> HIDE DEF it
    <3> QED
      BY <1>6, <2>1, Zenon DEF SubtractStep
  <2> HIDE DEF it
  <2> QED
    BY <2>1, <2>2
<1>9. ASSUME NEW i \in 1..k PROVE run[i] = Subtract(run[i - 1], vals[i])
  <2>1. /\ 1..i \in SUBSET (1..k) /\ 1..i # {} /\ i \in 0..k /\ i - 1 \in 0..k
        /\ i \in Nat /\ i # 0 /\ (1..i) \ {i} = 1..(i - 1)
    BY <1>1
  <2>2. Max(1..i) = i
    BY <2>1, GreatestOf
  <2> HIDE DEF it, vals
  <2>3. it[1..i] = Subtract(it[1..(i - 1)], vals[i])
    BY <1>6, <2>1, <2>2, ZenonT(60) DEF SubtractStep
  <2> QED
    BY <2>1, <2>3, Zenon
<1>10. run[k] = remove(bytes, hs, e)
  <2>1. k \in 0..k
    BY <1>1
  <2> HIDE DEF it
  <2> QED
    BY <1>7, <2>1
<1> HIDE DEF run, vals
<1> QED
  BY <1>8, <1>9, <1>10, Zenon DEF vals

\* A counter is a number, and the width of a counter leaves room for the limit.
LEMMA FieldTyped ==
  ASSUME bits_per_element \in {2, 4, 8}, NEW bytes \in Bytes, NEW v \in 0..m-1
  PROVE  /\ Field(bits_per_element, bytes, v) \in Nat
         /\ Limit \in Nat /\ Limit <= Full(bits_per_element)
         /\ Full(bits_per_element) \in Nat
<1>1. PICK w \in {2, 4, 8} : w = bits_per_element
  OBVIOUS
<1>2. Full(2) = 3 /\ Full(4) = 15 /\ Full(8) = 255
  <2>1. 2 ^ 2 = 4 /\ 2 ^ 4 = 16 /\ 2 ^ 8 = 256
    OBVIOUS
  <2> QED
    BY <2>1 DEF Full
<1>3. /\ Limit \in Nat /\ Limit <= Full(bits_per_element)
      /\ Full(bits_per_element) \in Nat
  BY <1>2 DEF Limit
<1>4. PICK b \in 0..255 : b = bytes[Bucket(v)]
  BY PlaceTyped
<1>5. PICK p \in Parts(w) : p = Part(v)
  BY <1>1, PlaceTyped
<1>6. ByteField(w, b, p) \in 0..Full(w)
  BY ByteNibble
<1>7. ByteField(w, b, p) \in Nat
  BY <1>6
<1>8. Field(bits_per_element, bytes, v) \in Nat
  BY <1>1, <1>4, <1>5, <1>7, FieldIs, Zenon
<1> QED
  BY <1>3, <1>8

\* While no counter passes the limit, set raises each by as many values as are it.
LEMMA SetCounts ==
  ASSUME bits_per_element \in {2, 4, 8}, NEW bytes \in Bytes,
         NEW hs \in Hashes, NEW e \in Elements
  PROVE  /\ set(bytes, hs, e) \in Bytes
         /\ (\A v \in 0..m-1 : Field(bits_per_element, bytes, v)
                                 + Times(Vals(hs, e), k, v) <= Limit) =>
              \A v \in 0..m-1 : Field(bits_per_element, set(bytes, hs, e), v)
                = Field(bits_per_element, bytes, v) + Times(Vals(hs, e), k, v)
<1> DEFINE W == bits_per_element
           vals == Vals(hs, e)
<1>1. k \in Nat
  BY CountingBloomFilterAssumption
<1>2. PICK run : /\ run[0] = bytes /\ run[k] = set(bytes, hs, e)
                 /\ \A i \in 1..k : run[i] = Add(run[i - 1], vals[i])
  BY AddRuns, ZenonT(60)
<1>3. \A i \in 1..k : vals[i] \in 0..m-1
  BY ValsTyped
<1> HIDE DEF vals
<1>4. run[k] \in Bytes
  <2> DEFINE I == {i \in Nat : i <= k => run[i] \in Bytes}
  <2>1. 0 \in I
    BY <1>2
  <2>2. ASSUME NEW i \in Nat, i \in I PROVE i + 1 \in I
    <3>1. CASE i + 1 <= k
      <4>1. i + 1 \in 1..k /\ (i + 1) - 1 = i /\ i <= k
        BY <1>1, <3>1
      <4>2. run[i + 1] = Add(run[i], vals[i + 1]) /\ run[i] \in Bytes
        BY <1>2, <2>2, <4>1, Zenon
      <4>3. run[i + 1] \in Bytes
        BY <1>3, <4>1, <4>2, AddCounts
      <4> QED
        BY <4>3
    <3> QED
      BY <3>1
  <2>3. k \in I
    <3> HIDE DEF I
    <3> QED
      BY <1>1, <2>1, <2>2, SetInduction
  <2> QED
    BY <1>1, <2>3
<1>5. ASSUME \A v \in 0..m-1 : Field(W, bytes, v) + Times(vals, k, v) <= Limit
      PROVE  \A v \in 0..m-1 : Field(W, run[k], v) = Field(W, bytes, v) + Times(vals, k, v)
  <2> DEFINE I == {i \in Nat : i <= k =>
                     /\ run[i] \in Bytes
                     /\ \A v \in 0..m-1 :
                          Field(W, run[i], v) = Field(W, bytes, v) + Times(vals, i, v)}
  <2>0. \A v \in 0..m-1 : Field(W, bytes, v) \in Nat
    BY FieldTyped
  <2>1. 0 \in I
    <3>1. ASSUME NEW v \in 0..m-1
          PROVE  Field(W, bytes, v) = Field(W, bytes, v) + Times(vals, 0, v)
      BY <2>0, TimesGrow
    <3> QED
      BY <1>2, <3>1
  <2>2. ASSUME NEW i \in Nat, i \in I PROVE i + 1 \in I
    <3>1. CASE i + 1 <= k
      <4>1. i + 1 \in 1..k /\ (i + 1) - 1 = i /\ i <= k /\ i + 1 \in 0..k /\ i + 1 \in Nat
        BY <1>1, <3>1
      <4>2. PICK r \in Bytes : r = run[i]
        BY <2>2, <4>1
      <4>3. PICK u \in 0..m-1 : u = vals[i + 1]
        BY <1>3, <4>1
      <4>4. run[i + 1] = Add(r, u)
        BY <1>2, <4>1, <4>2, <4>3, Zenon
      <4>5. \A v \in 0..m-1 : Field(W, r, v) = Field(W, bytes, v) + Times(vals, i, v)
        BY <2>2, <4>1, <4>2
      <4>6. Field(W, r, u) < Full(W)
        <5>1. PICK n : n = Times(vals, i, u)
          OBVIOUS
        <5>2. n \in Nat /\ Times(vals, i + 1, u) = n + 1
          BY <4>3, <5>1, TimesGrow, Zenon
        <5>3. n + 1 <= Times(vals, k, u) /\ Times(vals, k, u) \in Nat
          BY <1>1, <4>1, <5>2, TimesGrow, Zenon
        <5>4. Field(W, bytes, u) + Times(vals, k, u) <= Limit
          BY <1>5
        <5>5. Field(W, r, u) = Field(W, bytes, u) + n
          BY <4>5, <5>1, Zenon
        <5>6. Field(W, bytes, u) \in Nat /\ Limit \in Nat /\ Limit <= Full(W) /\ Full(W) \in Nat
          BY FieldTyped
        <5> HIDE DEF W
        <5> QED
          BY <5>2, <5>3, <5>4, <5>5, <5>6
      <4>7. /\ Add(r, u) \in Bytes
            /\ \A x \in 0..m-1 :
                 /\ x = u => Field(W, Add(r, u), x) = Field(W, r, x) + 1
                 /\ x # u => Field(W, Add(r, u), x) = Field(W, r, x)
        BY <4>6, AddCounts
      <4>8. ASSUME NEW v \in 0..m-1
            PROVE  Field(W, run[i + 1], v) = Field(W, bytes, v) + Times(vals, i + 1, v)
        <5>1. Field(W, r, v) = Field(W, bytes, v) + Times(vals, i, v)
          BY <4>5
        <5>2. PICK n : n = Times(vals, i, v)
          OBVIOUS
        <5>3. n \in Nat /\ Field(W, bytes, v) \in Nat
          BY <2>0, <5>2, TimesGrow
        <5>4. CASE v = u
          <6>1. Times(vals, i + 1, v) = n + 1
            BY <4>3, <5>2, <5>4, TimesGrow, Zenon
          <6>2. Field(W, run[i + 1], v) = Field(W, r, v) + 1
            BY <4>4, <4>7, <5>4
          <6> HIDE DEF W
          <6> QED
            BY <5>1, <5>2, <5>3, <6>1, <6>2
        <5>5. CASE v # u
          <6>1. Times(vals, i + 1, v) = n
            BY <4>3, <5>2, <5>5, TimesGrow, Zenon
          <6>2. Field(W, run[i + 1], v) = Field(W, r, v)
            BY <4>4, <4>7, <5>5
          <6> HIDE DEF W
          <6> QED
            BY <5>1, <5>2, <5>3, <6>1, <6>2
        <5> QED
          BY <5>4, <5>5
      <4> HIDE DEF W
      <4> QED
        BY <4>1, <4>4, <4>7, <4>8
    <3>2. CASE ~(i + 1 <= k)
      <4> HIDE DEF W
      <4> QED
        BY <3>2
    <3> QED
      BY <3>1, <3>2
  <2>3. k \in I
    <3> HIDE DEF I
    <3> QED
      BY <1>1, <2>1, <2>2, SetInduction
  <2> HIDE DEF W
  <2> QED
    BY <1>1, <2>3
<1> QED
  BY <1>2, <1>4, <1>5, Zenon DEF vals

\* While every counter holds what is taken from it and no more than the limit, remove
\* lowers each by as many values as are it; from empty counters it takes nothing.
LEMMA RemoveCounts ==
  ASSUME bits_per_element \in {2, 4, 8}, NEW bytes \in Bytes,
         NEW hs \in Hashes, NEW e \in Elements
  PROVE  /\ remove(bytes, hs, e) \in Bytes
         /\ (\A v \in 0..m-1 : /\ Times(Vals(hs, e), k, v) <= Field(bits_per_element, bytes, v)
                               /\ Field(bits_per_element, bytes, v) <= Limit) =>
              \A v \in 0..m-1 : Field(bits_per_element, remove(bytes, hs, e), v)
                = Field(bits_per_element, bytes, v) - Times(Vals(hs, e), k, v)
         /\ bits_per_element # 2
            /\ (\A i \in 1..k : Field(bits_per_element, bytes, Vals(hs, e)[i]) = 0) =>
              remove(bytes, hs, e) = bytes
<1> DEFINE W == bits_per_element
           vals == Vals(hs, e)
<1>1. k \in Nat
  BY CountingBloomFilterAssumption
<1>2. PICK run : /\ run[0] = bytes /\ run[k] = remove(bytes, hs, e)
                 /\ \A i \in 1..k : run[i] = Subtract(run[i - 1], vals[i])
  BY SubtractRuns, ZenonT(60)
<1>3. \A i \in 1..k : vals[i] \in 0..m-1
  BY ValsTyped
<1> HIDE DEF vals
<1>4. run[k] \in Bytes
  <2> DEFINE I == {i \in Nat : i <= k => run[i] \in Bytes}
  <2>1. 0 \in I
    BY <1>2
  <2>2. ASSUME NEW i \in Nat, i \in I PROVE i + 1 \in I
    <3>1. CASE i + 1 <= k
      <4>1. i + 1 \in 1..k /\ (i + 1) - 1 = i /\ i <= k
        BY <1>1, <3>1
      <4>2. run[i + 1] = Subtract(run[i], vals[i + 1]) /\ run[i] \in Bytes
        BY <1>2, <2>2, <4>1, Zenon
      <4>3. run[i + 1] \in Bytes
        BY <1>3, <4>1, <4>2, SubtractCounts
      <4> QED
        BY <4>3
    <3> QED
      BY <3>1
  <2>3. k \in I
    <3> HIDE DEF I
    <3> QED
      BY <1>1, <2>1, <2>2, SetInduction
  <2> QED
    BY <1>1, <2>3
<1>5. ASSUME \A v \in 0..m-1 : /\ Times(vals, k, v) <= Field(W, bytes, v)
                               /\ Field(W, bytes, v) <= Limit
      PROVE  \A v \in 0..m-1 : Field(W, run[k], v) = Field(W, bytes, v) - Times(vals, k, v)
  <2> DEFINE I == {i \in Nat : i <= k =>
                     /\ run[i] \in Bytes
                     /\ \A v \in 0..m-1 :
                          Field(W, run[i], v) = Field(W, bytes, v) - Times(vals, i, v)}
  <2>0. \A v \in 0..m-1 : Field(W, bytes, v) \in Nat
    BY FieldTyped
  <2>1. 0 \in I
    <3>1. ASSUME NEW v \in 0..m-1
          PROVE  Field(W, bytes, v) = Field(W, bytes, v) - Times(vals, 0, v)
      BY <2>0, TimesGrow
    <3> QED
      BY <1>2, <3>1
  <2>2. ASSUME NEW i \in Nat, i \in I PROVE i + 1 \in I
    <3>1. CASE i + 1 <= k
      <4>1. i + 1 \in 1..k /\ (i + 1) - 1 = i /\ i <= k /\ i + 1 \in 0..k /\ i + 1 \in Nat
        BY <1>1, <3>1
      <4>2. PICK r \in Bytes : r = run[i]
        BY <2>2, <4>1
      <4>3. PICK u \in 0..m-1 : u = vals[i + 1]
        BY <1>3, <4>1
      <4>4. run[i + 1] = Subtract(r, u)
        BY <1>2, <4>1, <4>2, <4>3, Zenon
      <4>5. \A v \in 0..m-1 : Field(W, r, v) = Field(W, bytes, v) - Times(vals, i, v)
        BY <2>2, <4>1, <4>2
      <4>6. Field(W, r, u) \in 1..Limit
        <5>1. PICK n : n = Times(vals, i, u)
          OBVIOUS
        <5>2. n \in Nat /\ Times(vals, i + 1, u) = n + 1
          BY <4>3, <5>1, TimesGrow, Zenon
        <5>3. n + 1 <= Times(vals, k, u) /\ Times(vals, k, u) \in Nat
          BY <1>1, <4>1, <5>2, TimesGrow, Zenon
        <5>4. Times(vals, k, u) <= Field(W, bytes, u) /\ Field(W, bytes, u) <= Limit
          BY <1>5
        <5>5. Field(W, r, u) = Field(W, bytes, u) - n
          BY <4>5, <5>1, Zenon
        <5>6. Field(W, bytes, u) \in Nat /\ Limit \in Nat
          BY FieldTyped
        <5> HIDE DEF W
        <5> QED
          BY <5>2, <5>3, <5>4, <5>5, <5>6
      <4>7. /\ Subtract(r, u) \in Bytes
            /\ \A x \in 0..m-1 :
                 /\ x = u => Field(W, Subtract(r, u), x) = Field(W, r, x) - 1
                 /\ x # u => Field(W, Subtract(r, u), x) = Field(W, r, x)
        BY <4>6, SubtractCounts
      <4>8. ASSUME NEW v \in 0..m-1
            PROVE  Field(W, run[i + 1], v) = Field(W, bytes, v) - Times(vals, i + 1, v)
        <5>1. Field(W, r, v) = Field(W, bytes, v) - Times(vals, i, v)
          BY <4>5
        <5>2. PICK n : n = Times(vals, i, v)
          OBVIOUS
        <5>3. n \in Nat /\ Field(W, bytes, v) \in Nat
          BY <2>0, <5>2, TimesGrow
        <5>4. CASE v = u
          <6>1. Times(vals, i + 1, v) = n + 1
            BY <4>3, <5>2, <5>4, TimesGrow, Zenon
          <6>2. Field(W, run[i + 1], v) = Field(W, r, v) - 1
            BY <4>4, <4>7, <5>4
          <6> HIDE DEF W
          <6> QED
            BY <5>1, <5>2, <5>3, <6>1, <6>2
        <5>5. CASE v # u
          <6>1. Times(vals, i + 1, v) = n
            BY <4>3, <5>2, <5>5, TimesGrow, Zenon
          <6>2. Field(W, run[i + 1], v) = Field(W, r, v)
            BY <4>4, <4>7, <5>5
          <6> HIDE DEF W
          <6> QED
            BY <5>1, <5>2, <5>3, <6>1, <6>2
        <5> QED
          BY <5>4, <5>5
      <4> HIDE DEF W
      <4> QED
        BY <4>1, <4>4, <4>7, <4>8
    <3>2. CASE ~(i + 1 <= k)
      <4> HIDE DEF W
      <4> QED
        BY <3>2
    <3> QED
      BY <3>1, <3>2
  <2>3. k \in I
    <3> HIDE DEF I
    <3> QED
      BY <1>1, <2>1, <2>2, SetInduction
  <2> HIDE DEF W
  <2> QED
    BY <1>1, <2>3
<1>6. ASSUME W # 2, \A i \in 1..k : Field(W, bytes, vals[i]) = 0
      PROVE  run[k] = bytes
  <2> DEFINE I == {i \in Nat : i <= k => run[i] = bytes}
  <2>1. 0 \in I
    BY <1>2
  <2>2. ASSUME NEW i \in Nat, i \in I PROVE i + 1 \in I
    <3>1. CASE i + 1 <= k
      <4>1. i + 1 \in 1..k /\ (i + 1) - 1 = i /\ i <= k
        BY <1>1, <3>1
      <4>2. run[i + 1] = Subtract(bytes, vals[i + 1])
        BY <1>2, <2>2, <4>1, Zenon
      <4>3. Subtract(bytes, vals[i + 1]) = bytes
        BY <1>3, <1>6, <4>1, SubtractCounts
      <4> QED
        BY <4>2, <4>3
    <3> QED
      BY <3>1
  <2>3. k \in I
    <3> HIDE DEF I
    <3> QED
      BY <1>1, <2>1, <2>2, SetInduction
  <2> QED
    BY <1>1, <2>3
<1> QED
  BY <1>2, <1>4, <1>5, <1>6, Zenon DEF vals

-----------------------------------------------------------------------------
(* The union of two filters.                                                *)

\* What weighs one in a part, for every width.
LEMMA OneIs ==
  ASSUME NEW w \in {2, 4, 8}, NEW p \in Parts(w)
  PROVE  /\ One(w, p) \in {1, 4, 16, 64}
         /\ w = 4 => (p = 0 /\ One(w, p) = 1) \/ (p = 1 /\ One(w, p) = 16)
         /\ w = 8 => p = 0 /\ One(w, p) = 1
<1>1. CASE w = 2
  <2>1. p = 0 \/ p = 1 \/ p = 2 \/ p = 3
    BY <1>1 DEF Parts
  <2>2. One(w, p) \in {1, 4, 16, 64}
    BY <1>1, <2>1, WeightsOfTwo, Zenon DEF One
  <2> QED
    BY <1>1, <2>2
<1>2. CASE w = 4
  <2>1. p = 0 \/ p = 1
    BY <1>2 DEF Parts
  <2>2. (p = 0 /\ One(w, p) = 1) \/ (p = 1 /\ One(w, p) = 16)
    BY <1>2, <2>1, WeightsOfFour, Zenon DEF One
  <2> QED
    BY <1>2, <2>2
<1>3. CASE w = 8
  <2>1. p = 0
    BY <1>3 DEF Parts
  <2>2. One(w, p) = 1
    BY <1>3, <2>1, WeightsOfEight, Zenon DEF One
  <2> QED
    BY <1>3, <2>1, <2>2
<1> QED
  BY <1>1, <1>2, <1>3

\* What the parts of two bytes amount to.
Counted(w, a, b) ==
  [p \in Parts(w) |->
     ((((a \div One(w, p)) % 16) + ((b \div One(w, p)) % 16)) % 16) * One(w, p)]

\* What operator+= makes of two bytes.
United(w, a, b) == SumFunction(Counted(w, a, b)) % 256

\* What the parts of two bytes amount to is a number for each part, and so is their sum.
LEMMA CountedTyped ==
  ASSUME NEW w \in {2, 4, 8}, NEW a \in 0..255, NEW b \in 0..255
  PROVE  /\ IsFiniteSet(Parts(w)) /\ \A p \in Parts(w) : Counted(w, a, b)[p] \in Int
         /\ SumFunction(Counted(w, a, b)) \in Int
         /\ SumFunction(Counted(w, a, b)) = SumFunctionOnSet(Counted(w, a, b), Parts(w))
<1>1. IsFiniteSet(Parts(w))
  <2>1. (8 \div w) - 1 \in Int
    OBVIOUS
  <2> QED
    BY <2>1, FS_Interval DEF Parts
<1>2. ASSUME NEW p \in Parts(w) PROVE Counted(w, a, b)[p] \in Int
  <2>1. PICK u \in {1, 4, 16, 64} : u = One(w, p)
    BY OneIs
  <2>2. ((((a \div u) % 16) + ((b \div u) % 16)) % 16) * u \in Int
    OBVIOUS
  <2> QED
    BY <2>1, <2>2, Zenon DEF Counted
<1>3. SumFunction(Counted(w, a, b)) = SumFunctionOnSet(Counted(w, a, b), Parts(w))
  BY DEF SumFunction, Counted
<1>4. SumFunctionOnSet(Counted(w, a, b), Parts(w)) \in Int
  BY <1>1, <1>2, SumType
<1> QED
  BY <1>1, <1>2, <1>3, <1>4

\* With one part of eight bits, or two of four, each part of the sum is that of its own
\* counts, four bits wide.
LEMMA CountedParts ==
  ASSUME NEW w \in {4, 8}, NEW a \in 0..255, NEW b \in 0..255, NEW p \in Parts(w),
         ByteField(w, a, p) + ByteField(w, b, p) <= 15
  PROVE  ByteField(w, United(w, a, b), p)
           = ByteField(w, a, p) + ByteField(w, b, p)
<1> DEFINE c == Counted(w, a, b)
<1>1. /\ IsFiniteSet(Parts(w)) /\ \A q \in Parts(w) : c[q] \in Int
      /\ SumFunction(c) = SumFunctionOnSet(c, Parts(w))
  BY CountedTyped, ZenonT(60)
<1>2. CASE w = 4
  <2>1. Parts(w) = {0, 1} /\ 0 \in Parts(w) /\ 1 \in Parts(w)
        /\ Parts(w) \ {0} = {1} /\ {1} \ {1} = {}
    BY <1>2 DEF Parts
  <2>2. One(w, 0) = 1 /\ One(w, 1) = 16 /\ 2 ^ w = 16
    <3>1. 2 ^ 4 = 16
      OBVIOUS
    <3> QED
      BY <1>2, <3>1, WeightsOfFour, Zenon DEF One
  <2> HIDE DEF c
  <2>3. SumFunctionOnSet(c, Parts(w)) = c[0] + SumFunctionOnSet(c, {1})
    BY <1>1, <2>1, SumWithout
  <2>4. SumFunctionOnSet(c, {1}) = c[1] + SumFunctionOnSet(c, {})
    <3>1. IsFiniteSet({1}) /\ \A q \in {1} : c[q] \in Int
      BY <1>1, <2>1, FS_Subset
    <3> QED
      BY <2>1, <3>1, SumWithout
  <2>5. SumFunction(c) = c[0] + c[1]
    BY <1>1, <2>1, <2>3, <2>4, SumOfNone
  <2>6. /\ c[0] = ((((a \div 1) % 16) + ((b \div 1) % 16)) % 16) * 1
        /\ c[1] = ((((a \div 16) % 16) + ((b \div 16) % 16)) % 16) * 16
    BY <2>1, <2>2, Zenon DEF c, Counted
  <2>7. PICK t : t = SumFunction(c) % 256 /\ t = United(w, a, b)
    BY Zenon DEF United, c
  <2>8. t = (((((a \div 1) % 16) + ((b \div 1) % 16)) % 16) * 1
             + ((((a \div 16) % 16) + ((b \div 16) % 16)) % 16) * 16) % 256
    BY <2>5, <2>6, <2>7, Zenon
  <2>9. CASE p = 0
    <3>1. \A d : ByteField(w, d, p) = (d \div 1) % 16
      BY <2>2, <2>9, Zenon DEF ByteField
    <3>2. ((a \div 1) % 16) + ((b \div 1) % 16) <= 15
      BY <3>1, SMT
    <3>3. (t \div 1) % 16 = ((a \div 1) % 16) + ((b \div 1) % 16)
      BY <2>8, <3>2
    <3> QED
      <4>1. ByteField(w, t, p) = ByteField(w, a, p) + ByteField(w, b, p)
        BY <3>1, <3>3, SMT
      <4> QED
        BY <2>7, <4>1, Zenon
  <2>10. CASE p = 1
    <3>1. \A d : ByteField(w, d, p) = (d \div 16) % 16
      BY <2>2, <2>10, Zenon DEF ByteField
    <3>2. ((a \div 16) % 16) + ((b \div 16) % 16) <= 15
      BY <3>1, SMT
    <3>3. (t \div 16) % 16 = ((a \div 16) % 16) + ((b \div 16) % 16)
      BY <2>8, <3>2
    <3> QED
      <4>1. ByteField(w, t, p) = ByteField(w, a, p) + ByteField(w, b, p)
        BY <3>1, <3>3, SMT
      <4> QED
        BY <2>7, <4>1, Zenon
  <2> QED
    BY <2>1, <2>9, <2>10
<1>3. CASE w = 8
  <2>1. Parts(w) = {0} /\ 0 \in Parts(w) /\ Parts(w) \ {0} = {} /\ p = 0
    BY <1>3 DEF Parts
  <2>2. One(w, 0) = 1 /\ 2 ^ w = 256
    <3>1. 2 ^ 8 = 256
      OBVIOUS
    <3> QED
      BY <1>3, <3>1, WeightsOfEight, Zenon DEF One
  <2> HIDE DEF c
  <2>3. SumFunctionOnSet(c, Parts(w)) = c[0] + SumFunctionOnSet(c, {})
    BY <1>1, <2>1, SumWithout
  <2>4. SumFunction(c) = c[0]
    BY <1>1, <2>1, <2>3, SumOfNone
  <2>5. c[0] = ((((a \div 1) % 16) + ((b \div 1) % 16)) % 16) * 1
    BY <2>1, <2>2, Zenon DEF c, Counted
  <2>6. PICK t : t = SumFunction(c) % 256 /\ t = United(w, a, b)
    BY Zenon DEF United, c
  <2>7. t = (((((a \div 1) % 16) + ((b \div 1) % 16)) % 16) * 1) % 256
    BY <2>4, <2>5, <2>6, Zenon
  <2>8. \A d : ByteField(w, d, p) = (d \div 1) % 256
    BY <2>1, <2>2, Zenon DEF ByteField
  <2>9. ((a \div 1) % 256) + ((b \div 1) % 256) <= 15
    BY <2>8, SMT
  <2>10. (t \div 1) % 256 = ((a \div 1) % 256) + ((b \div 1) % 256)
    BY <2>7, <2>9
  <2>11. ByteField(w, t, p) = ByteField(w, a, p) + ByteField(w, b, p)
    BY <2>8, <2>10, SMT
  <2> QED
    BY <2>6, <2>11, Zenon
<1> QED
  BY <1>2, <1>3

\* With parts of two bits the sum is right when the first part is all there is.
LEMMA CountedFirst ==
  ASSUME NEW a \in 0..3, NEW b \in 0..3, a + b <= 3
  PROVE  /\ United(2, a, b) = a + b
         /\ \A p \in Parts(2) :
              ByteField(2, United(2, a, b), p) = ByteField(2, a, p) + ByteField(2, b, p)
<1> DEFINE c == Counted(2, a, b)
<1>0. a \in 0..255 /\ b \in 0..255
  OBVIOUS
<1>1. /\ IsFiniteSet(Parts(2)) /\ \A q \in Parts(2) : c[q] \in Int
      /\ SumFunction(c) = SumFunctionOnSet(c, Parts(2))
  BY <1>0, CountedTyped, ZenonT(60)
<1>2. Parts(2) = {0, 1, 2, 3} /\ 0 \in Parts(2)
  BY DEF Parts
<1>3. One(2, 0) = 1 /\ One(2, 1) = 4 /\ One(2, 2) = 16 /\ One(2, 3) = 64 /\ 2 ^ 2 = 4
  <2>1. 2 ^ 2 = 4
    OBVIOUS
  <2> QED
    BY <2>1, WeightsOfTwo, Zenon DEF One
<1>4. c[0] = ((((a \div 1) % 16) + ((b \div 1) % 16)) % 16) * 1
  BY <1>2, <1>3, Zenon DEF Counted
<1>5. c[0] = a + b
  BY <1>4
<1>6. ASSUME NEW p \in Parts(2) \ {0} PROVE c[p] = 0
  <2>1. PICK u \in {4, 16, 64} : u = One(2, p)
    BY <1>2, <1>3
  <2>2. c[p] = ((((a \div u) % 16) + ((b \div u) % 16)) % 16) * u
    BY <2>1, Zenon DEF Counted
  <2>3. a \div u = 0 /\ b \div u = 0
    OBVIOUS
  <2> QED
    BY <2>2, <2>3
<1> HIDE DEF c
<1>7. SumFunctionOnSet(c, Parts(2)) = c[0] + SumFunctionOnSet(c, Parts(2) \ {0})
  BY <1>1, <1>2, SumWithout
<1>8. SumFunctionOnSet(c, Parts(2) \ {0}) = 0
  <2>1. IsFiniteSet(Parts(2) \ {0})
    BY <1>1, FS_Subset
  <2> QED
    BY <1>6, <2>1, SumOfZeros
<1>9. SumFunction(c) = a + b
  BY <1>1, <1>5, <1>7, <1>8
<1>10. PICK t : t = SumFunction(c) % 256 /\ t = United(2, a, b)
  BY Zenon DEF United, c
<1>11. t = a + b
  <2>1. (a + b) % 256 = a + b
    OBVIOUS
  <2> QED
    BY <1>9, <1>10, <2>1, Zenon
<1>12. ASSUME NEW p \in Parts(2) PROVE ByteField(2, t, p) = ByteField(2, a, p) + ByteField(2, b, p)
  <2>1. PICK u \in {1, 4, 16, 64} : u = One(2, p)
    BY <1>2, <1>3
  <2>2. \A d : ByteField(2, d, p) = (d \div u) % 4
    BY <1>3, <2>1, Zenon DEF ByteField
  <2>3. ((a + b) \div u) % 4 = ((a \div u) % 4) + ((b \div u) % 4)
    OBVIOUS
  <2>4. /\ ByteField(2, t, p) = (t \div u) % 4
        /\ ByteField(2, a, p) = (a \div u) % 4
        /\ ByteField(2, b, p) = (b \div u) % 4
    BY <2>2
  <2> QED
    BY <1>11, <2>3, <2>4
<1> QED
  BY <1>10, <1>11, <1>12, Zenon

\* The first counter of the byte of a counter of two bits.
LEMMA FirstOfByte ==
  ASSUME NEW v \in 0..m-1
  PROVE  \E u \in 0..m-1 : (u * 2) \div 8 = (v * 2) \div 8 /\ u % (8 \div 2) = 0
<1>1. m \in Nat
  BY CountingBloomFilterAssumption
<1>2. PICK u : u = 4 * (v \div 4)
  OBVIOUS
<1>3. u \in 0..m-1 /\ (u * 2) \div 8 = (v * 2) \div 8 /\ u % 4 = 0
  BY <1>1, <1>2
<1>4. 8 \div 2 = 4
  OBVIOUS
<1> QED
  BY <1>3, <1>4

\* When counters do not pass the limit together, and those of two bits are the first of
\* their bytes, operator+= adds each counter of one filter to that of the other.
LEMMA UniteCounts ==
  ASSUME bits_per_element \in {2, 4, 8}, NEW x \in Bytes, NEW y \in Bytes
  PROVE  /\ Unite(x, y) \in Bytes
         /\ ~Misread(x) /\ ~Misread(y)
            /\ (\A v \in 0..m-1 : Field(bits_per_element, x, v)
                                    + Field(bits_per_element, y, v) <= Limit) =>
              \A v \in 0..m-1 : Field(bits_per_element, Unite(x, y), v)
                = Field(bits_per_element, x, v) + Field(bits_per_element, y, v)
<1>0. PICK w \in {2, 4, 8} : w = bits_per_element
  OBVIOUS
<1>1. ASSUME NEW b \in Buckets
      PROVE  /\ x[b] \in 0..255 /\ y[b] \in 0..255
             /\ Unite(x, y)[b] = SumFunction(Counted(w, x[b], y[b])) % 256
  <2>1. x[b] \in 0..255 /\ y[b] \in 0..255
    BY DEF Bytes
  <2>2. Unite(x, y)[b] = SumFunction(Counted(w, x[b], y[b])) % 256
    BY <1>0, Zenon DEF Unite, Counted, Nibble, Shift, One, Parts
  <2> QED
    BY <2>1, <2>2
<1>2. Unite(x, y) \in Bytes
  <2>1. ASSUME NEW b \in Buckets PROVE Unite(x, y)[b] \in 0..255
    <3>1. PICK s \in Int : s = SumFunction(Counted(w, x[b], y[b]))
      BY <1>1, CountedTyped, ZenonT(60)
    <3>2. s % 256 \in 0..255
      OBVIOUS
    <3> QED
      BY <1>1, <3>1, <3>2, ZenonT(60)
  <2>2. Unite(x, y) = [b \in Buckets |-> Unite(x, y)[b]]
    BY Zenon DEF Unite
  <2> QED
    BY <2>1, <2>2 DEF Bytes
<1>3. ASSUME ~Misread(x), ~Misread(y),
             \A v \in 0..m-1 : Field(bits_per_element, x, v)
                                 + Field(bits_per_element, y, v) <= Limit,
             NEW v \in 0..m-1
      PROVE  Field(bits_per_element, Unite(x, y), v)
               = Field(bits_per_element, x, v) + Field(bits_per_element, y, v)
  <2>1. PICK b \in Buckets : b = Bucket(v)
    BY PlaceTyped
  <2>2. PICK p \in Parts(w) : p = Part(v)
    BY <1>0, PlaceTyped
  <2>3. \A z : Field(bits_per_element, z, v) = ByteField(w, z[b], p)
    BY <1>0, <2>1, <2>2, FieldIs, Zenon
  <2>4. PICK a : a = x[b]
    OBVIOUS
  <2>5. PICK c : c = y[b]
    OBVIOUS
  <2>6. a \in 0..255 /\ c \in 0..255
    BY <1>1, <2>4, <2>5
  <2>7. ASSUME w # 2
        PROVE  ByteField(w, United(w, a, c), p) = ByteField(w, a, p) + ByteField(w, c, p)
    <3>1. w \in {4, 8}
      BY <2>7
    <3>2. Limit = 15
      BY <1>0, <2>7 DEF Limit
    <3>3. ByteField(w, a, p) + ByteField(w, c, p) <= 15
      BY <1>3, <2>3, <2>4, <2>5, <3>2, Zenon
    <3> QED
      BY <2>6, <3>1, <3>3, CountedParts, ZenonT(60)
  <2>8. ASSUME w = 2
        PROVE  ByteField(w, United(w, a, c), p) = ByteField(w, a, p) + ByteField(w, c, p)
    <3>1. a \in 0..3 /\ c \in 0..3
      BY <1>0, <1>3, <2>4, <2>5, <2>6, <2>8 DEF Misread
    <3>2. PICK u \in 0..m-1 : (u * 2) \div 8 = (v * 2) \div 8 /\ u % (8 \div 2) = 0
      BY FirstOfByte
    <3>3. Bucket(u) = b /\ Part(u) = 0
      BY <1>0, <2>1, <2>8, <3>2, Zenon DEF Bucket, Part
    <3>4. \A z : Field(bits_per_element, z, u) = ByteField(2, z[b], 0)
      BY <1>0, <2>8, <3>3, FieldIs, Zenon
    <3>5. One(2, 0) = 1 /\ 2 ^ 2 = 4
      <4>1. 2 ^ 2 = 4
        OBVIOUS
      <4> QED
        BY <4>1, WeightsOfTwo, Zenon DEF One
    <3>6. \A d : ByteField(2, d, 0) = (d \div 1) % 4
      BY <3>5, Zenon DEF ByteField
    <3>7. ByteField(2, a, 0) = a /\ ByteField(2, c, 0) = c
      <4>1. (a \div 1) % 4 = a /\ (c \div 1) % 4 = c
        BY <3>1
      <4> QED
        BY <3>6, <4>1, Zenon
    <3>8. Limit = 3
      BY <1>0, <2>8 DEF Limit
    <3>9. a + c <= 3
      BY <1>3, <2>4, <2>5, <3>4, <3>7, <3>8, Zenon
    <3> QED
      BY <2>8, <3>1, <3>9, CountedFirst, ZenonT(60)
  <2>11. ByteField(w, United(w, a, c), p) = ByteField(w, a, p) + ByteField(w, c, p)
    BY <2>7, <2>8, Zenon
  <2>9. Unite(x, y)[b] = United(w, a, c)
    BY <1>1, <2>4, <2>5, Zenon DEF United
  <2>10. /\ Field(bits_per_element, Unite(x, y), v) = ByteField(w, Unite(x, y)[b], p)
         /\ Field(bits_per_element, x, v) = ByteField(w, a, p)
         /\ Field(bits_per_element, y, v) = ByteField(w, c, p)
    BY <2>3, <2>4, <2>5, Zenon
  <2> QED
    BY <2>9, <2>10, <2>11, Zenon
<1> QED
  BY <1>2, <1>3

-----------------------------------------------------------------------------
(* What the history of a filter makes of its counters.                      *)

\* What the elements of a filter add to a counter.
Parted(hs, added, v) == [e \in Elements |-> added[e] * Times(Vals(hs, e), k, v)]

\* What each element adds to a counter is a number, and their sum is what is expected of it.
LEMMA PartedTyped ==
  ASSUME NEW hs, NEW added \in [Elements -> Nat], NEW v
  PROVE  /\ \A e \in Elements : /\ Parted(hs, added, v)[e] \in Nat
                                /\ Times(Vals(hs, e), k, v) \in Nat
         /\ Expected(hs, added, v) = SumFunctionOnSet(Parted(hs, added, v), Elements)
<1>1. ASSUME NEW e \in Elements
      PROVE  Parted(hs, added, v)[e] \in Nat /\ Times(Vals(hs, e), k, v) \in Nat
  <2>1. PICK t \in Nat : t = Times(Vals(hs, e), k, v)
    BY CountingBloomFilterAssumption, TimesGrow
  <2>2. added[e] * t \in Nat
    <3>1. PICK a \in Nat : a = added[e]
      OBVIOUS
    <3>2. a * t \in Nat
      OBVIOUS
    <3> QED
      BY <3>1, <3>2
  <2> QED
    BY <2>1, <2>2, Zenon DEF Parted
<1>2. Expected(hs, added, v) = SumFunctionOnSet(Parted(hs, added, v), Elements)
  BY Zenon DEF Expected, Parted, Times, SumFunction
<1> QED
  BY <1>1, <1>2

\* What a filter expects of a counter: a number, nothing of an empty filter, of each
\* element it holds as much as that is there, of two filters together both.
LEMMA ExpectedGrows ==
  ASSUME NEW hs, NEW v
  PROVE  /\ Expected(hs, NoneAdded, v) = 0
         /\ \A added \in [Elements -> Nat] :
              /\ Expected(hs, added, v) \in Nat
              /\ \A e \in Elements :
                   added[e] * Times(Vals(hs, e), k, v) <= Expected(hs, added, v)
         /\ \A a, b, c \in [Elements -> Nat] :
              (\A e \in Elements : c[e] = a[e] + b[e]) =>
                Expected(hs, c, v) = Expected(hs, a, v) + Expected(hs, b, v)
<1>0. IsFiniteSet(Elements) /\ NoneAdded \in [Elements -> Nat]
  BY CountingBloomFilterAssumption DEF NoneAdded
<1>1. Expected(hs, NoneAdded, v) = 0
  <2>1. ASSUME NEW e \in Elements PROVE Parted(hs, NoneAdded, v)[e] = 0
    <3>1. PICK t \in Nat : t = Times(Vals(hs, e), k, v)
      BY <1>0, PartedTyped
    <3>2. Parted(hs, NoneAdded, v)[e] = 0 * t
      BY <3>1, Zenon DEF Parted, NoneAdded
    <3> QED
      BY <3>2
  <2> QED
    BY <1>0, <2>1, PartedTyped, SumOfZeros
<1>2. ASSUME NEW added \in [Elements -> Nat]
      PROVE  /\ Expected(hs, added, v) \in Nat
             /\ \A e \in Elements :
                  added[e] * Times(Vals(hs, e), k, v) <= Expected(hs, added, v)
  <2>1. \A e \in Elements : Parted(hs, added, v)[e] = added[e] * Times(Vals(hs, e), k, v)
    BY Zenon DEF Parted
  <2>2. /\ SumFunctionOnSet(Parted(hs, added, v), Elements) \in Nat
        /\ \A e \in Elements : Parted(hs, added, v)[e]
                                 <= SumFunctionOnSet(Parted(hs, added, v), Elements)
    BY <1>0, PartedTyped, SumOfNaturals
  <2> QED
    BY <2>1, <2>2, PartedTyped, Zenon
<1>3. ASSUME NEW a \in [Elements -> Nat], NEW b \in [Elements -> Nat],
             NEW c \in [Elements -> Nat], \A e \in Elements : c[e] = a[e] + b[e]
      PROVE  Expected(hs, c, v) = Expected(hs, a, v) + Expected(hs, b, v)
  <2>1. ASSUME NEW e \in Elements
        PROVE  /\ Parted(hs, a, v)[e] \in Int /\ Parted(hs, b, v)[e] \in Int
               /\ Parted(hs, c, v)[e] = Parted(hs, a, v)[e] + Parted(hs, b, v)[e]
    <3>1. PICK t \in Nat : t = Times(Vals(hs, e), k, v)
      BY PartedTyped
    <3>2. PICK x \in Nat : x = a[e]
      OBVIOUS
    <3>3. PICK y \in Nat : y = b[e]
      OBVIOUS
    <3>4. (x + y) * t = x * t + y * t
      OBVIOUS
    <3>5. /\ Parted(hs, a, v)[e] = x * t /\ Parted(hs, b, v)[e] = y * t
          /\ Parted(hs, c, v)[e] = (x + y) * t
      BY <1>3, <3>1, <3>2, <3>3, Zenon DEF Parted
    <3>6. Parted(hs, a, v)[e] \in Nat /\ Parted(hs, b, v)[e] \in Nat
      BY PartedTyped
    <3> QED
      BY <3>4, <3>5, <3>6
  <2>2. SumFunctionOnSet(Parted(hs, c, v), Elements)
          = SumFunctionOnSet(Parted(hs, a, v), Elements)
            + SumFunctionOnSet(Parted(hs, b, v), Elements)
    BY <1>0, <2>1, SumTogether
  <2> QED
    BY <2>2, PartedTyped, Zenon
<1> QED
  BY <1>1, <1>2, <1>3

\* One element more is as much more as its values are.
LEMMA ExpectedOne ==
  ASSUME NEW hs, NEW v, NEW a \in [Elements -> Nat], NEW b \in [Elements -> Nat],
         NEW e \in Elements, b[e] = a[e] + 1, \A x \in Elements \ {e} : b[x] = a[x]
  PROVE  Expected(hs, b, v) = Expected(hs, a, v) + Times(Vals(hs, e), k, v)
<1> DEFINE one == [x \in Elements |-> IF x = e THEN 1 ELSE 0]
<1>1. one \in [Elements -> Nat] /\ \A x \in Elements : b[x] = a[x] + one[x]
  OBVIOUS
<1>2. Expected(hs, b, v) = Expected(hs, a, v) + Expected(hs, one, v)
  <2> HIDE DEF one
  <2> QED
    BY <1>1, ExpectedGrows
<1>3. Expected(hs, one, v) = Times(Vals(hs, e), k, v)
  <2>0. IsFiniteSet(Elements) /\ IsFiniteSet(Elements \ {e})
    BY CountingBloomFilterAssumption, FS_Subset
  <2>1. PICK t \in Nat : t = Times(Vals(hs, e), k, v)
    BY <1>1, PartedTyped
  <2>2. Parted(hs, one, v)[e] = t
    <3>1. Parted(hs, one, v)[e] = 1 * t
      BY <2>1, Zenon DEF Parted
    <3> QED
      BY <3>1
  <2>3. ASSUME NEW x \in Elements \ {e} PROVE Parted(hs, one, v)[x] = 0
    <3>1. PICK u \in Nat : u = Times(Vals(hs, x), k, v)
      BY <1>1, PartedTyped
    <3>2. Parted(hs, one, v)[x] = 0 * u
      BY <3>1, Zenon DEF Parted
    <3> QED
      BY <3>2
  <2> HIDE DEF one
  <2>4. \A x \in Elements : Parted(hs, one, v)[x] \in Int
    BY <1>1, PartedTyped
  <2>5. SumFunctionOnSet(Parted(hs, one, v), Elements)
          = Parted(hs, one, v)[e] + SumFunctionOnSet(Parted(hs, one, v), Elements \ {e})
    BY <2>0, <2>4, SumWithout
  <2>6. SumFunctionOnSet(Parted(hs, one, v), Elements \ {e}) = 0
    BY <2>0, <2>3, SumOfZeros
  <2>7. Expected(hs, one, v) = SumFunctionOnSet(Parted(hs, one, v), Elements)
    BY <1>1, PartedTyped
  <2> QED
    BY <2>1, <2>2, <2>5, <2>6, <2>7
<1> QED
  BY <1>2, <1>3

-----------------------------------------------------------------------------
(* Counters are exact.                                                      *)

LimitOf(W) == IF W = 2 THEN 3 ELSE 15

\* The counters of an array are those of a filter that holds the elements of added, none
\* beyond its limit.
Exact(W, bytes, hs, added) ==
  /\ hs \in Hashes
  /\ \A v \in 0..m-1 : /\ Field(W, bytes, v) = Expected(hs, added, v)
                       /\ Expected(hs, added, v) <= LimitOf(W)

ExactInv ==
  \A f \in Objects :
    Known(f) => Exact(bits_per_element, memory[objects[f].bf], objects[f].hash_functions,
                      objects[f].added)

\* The inductive invariant of all of the module.
IInv == TypeOK /\ RefInv /\ ExactInv

\* What there is of an object that lives.
LEMMA ObjectTyped ==
  ASSUME TypeOK, NEW f \in Objects, Lives(f)
  PROVE  /\ objects[f] \in Filter /\ bits_per_element \in {2, 4, 8}
         /\ objects[f].bf \in Arrays /\ objects[f]._memory \in Arrays \cup {None}
         /\ objects[f].hash_functions \in Hashes \cup {Empty}
         /\ objects[f].added \in [Elements -> Nat]
         /\ objects[f].mixed \in BOOLEAN /\ objects[f].moved \in BOOLEAN
         /\ memory[objects[f].bf] \in Bytes
<1>1. objects[f] \in Filter
  BY DEF TypeOK, Lives
<1>2. bits_per_element \in {2, 4, 8}
  BY CountingBloomFilterAssumption DEF TypeOK
<1>3. /\ objects[f].bf \in Arrays /\ objects[f]._memory \in Arrays \cup {None}
      /\ objects[f].hash_functions \in Hashes \cup {Empty}
      /\ objects[f].added \in [Elements -> Nat]
      /\ objects[f].mixed \in BOOLEAN /\ objects[f].moved \in BOOLEAN
  BY <1>1 DEF Filter
<1>4. memory[objects[f].bf] \in Bytes
  BY <1>3 DEF TypeOK
<1> QED
  BY <1>1, <1>2, <1>3, <1>4

\* The types of the next state depend on the width, which stays.
LEMMA TypesStay ==
  ASSUME UNCHANGED bits_per_element
  PROVE  Bytes' = Bytes /\ Limit' = Limit /\ Zeros' = Zeros /\ Buckets' = Buckets
BY DEF Bytes, Buckets, Limit, Zeros

\* A step keeps the counters exact when each filter of which something is known after
\* it either was as it is, with the same array, or has exact counters.
LEMMA ExactFrame ==
  ASSUME ExactInv, UNCHANGED bits_per_element,
         \A g \in Objects : Known(g)' =>
           \/ /\ Known(g) /\ memory'[objects'[g].bf] = memory[objects[g].bf]
              /\ objects'[g].hash_functions = objects[g].hash_functions
              /\ objects'[g].added = objects[g].added
           \/ Exact(bits_per_element, memory'[objects'[g].bf], objects'[g].hash_functions,
                    objects'[g].added)
  PROVE  ExactInv'
<1> SUFFICES ASSUME NEW g \in Objects, Known(g)'
             PROVE  Exact(bits_per_element, memory'[objects'[g].bf],
                          objects'[g].hash_functions, objects'[g].added)
  BY DEF ExactInv
<1> QED
  BY DEF ExactInv

\* A new filter, of an array nobody else refers to, keeps the counters exact when its own
\* are, and the types.
LEMMA CreateExact ==
  ASSUME IInv, NEW f \in Objects, NEW bytes \in Bytes, NEW hs \in Hashes,
         NEW added \in [Elements -> Nat], NEW mixed \in BOOLEAN,
         Create(f, bytes, hs, added, mixed),
         ~mixed => Exact(bits_per_element, bytes, hs, added)
  PROVE  TypeOK' /\ ExactInv'
<1>1. PICK a : a = Fresh
  OBVIOUS
<1>2. a \in Arrays /\ \A g \in Alive : objects[g].bf # a
  BY <1>1, FreshArray DEF Create, IInv
<1>3. PICK o : o = [_memory |-> a, bf |-> a, hash_functions |-> hs, added |-> added,
                    mixed |-> mixed, moved |-> FALSE]
  OBVIOUS
<1>4. /\ ~Lives(f) /\ heap' = heap \cup {a} /\ memory' = [memory EXCEPT ![a] = bytes]
      /\ objects' = [objects EXCEPT ![f] = o] /\ UNCHANGED bits_per_element
  BY <1>1, <1>3 DEF Create
<1>5. o \in Filter
  BY <1>2, <1>3 DEF Filter
<1>6. /\ bits_per_element \in Widths /\ heap \subseteq Arrays /\ memory \in [Arrays -> Bytes]
      /\ objects \in [Objects -> Filter \cup {None}]
  BY DEF IInv, TypeOK
<1>7. TypeOK'
  <2>1. memory' \in [Arrays -> Bytes] /\ heap' \subseteq Arrays
    BY <1>2, <1>4, <1>6
  <2>2. objects' \in [Objects -> Filter \cup {None}]
    BY <1>4, <1>5, <1>6
  <2> QED
    BY <1>4, <1>6, <2>1, <2>2, TypesStay DEF TypeOK, Arrays, Filter, Hashes, Empty
<1>8. ASSUME NEW g \in Objects, Known(g)'
      PROVE  \/ /\ Known(g) /\ memory'[objects'[g].bf] = memory[objects[g].bf]
                /\ objects'[g].hash_functions = objects[g].hash_functions
                /\ objects'[g].added = objects[g].added
             \/ Exact(bits_per_element, memory'[objects'[g].bf], objects'[g].hash_functions,
                      objects'[g].added)
  <2>1. CASE g = f
    <3>1. objects'[g] = o /\ memory'[a] = bytes
      BY <1>2, <1>4, <1>6, <2>1
    <3>2. o.bf = a /\ o.hash_functions = hs /\ o.added = added /\ o.mixed = mixed
      BY <1>3
    <3> QED
      BY <1>8, <3>1, <3>2 DEF Known
  <2>2. CASE g # f
    <3>1. objects'[g] = objects[g]
      BY <1>4, <1>6, <2>2
    <3>2. Known(g) /\ Lives(g)
      BY <1>8, <3>1 DEF Known, Lives
    <3>3. objects[g].bf # a /\ objects[g].bf \in Arrays
      BY <1>2, <3>2, ObjectTyped DEF Alive, IInv
    <3> QED
      BY <1>4, <1>6, <3>1, <3>2, <3>3
  <2> QED
    BY <2>1, <2>2
<1>9. ExactInv'
  BY <1>4, <1>8, ExactFrame DEF IInv
<1> QED
  BY <1>7, <1>9

\* A filter that writes exact counters to its array keeps the counters exact: of others
\* that refer to the array nothing is known from then on.
LEMMA WriteExact ==
  ASSUME IInv, NEW f \in Objects, Known(f), NEW bytes \in Bytes,
         NEW added \in [Elements -> Nat], NEW mixed \in BOOLEAN,
         Write(f, bytes, added, mixed),
         ~mixed => Exact(bits_per_element, bytes, objects[f].hash_functions, added)
  PROVE  TypeOK' /\ ExactInv'
<1>1. PICK a : a = objects[f].bf
  OBVIOUS
<1>2. PICK o : o = [objects[f] EXCEPT !.added = added, !.mixed = mixed]
  OBVIOUS
<1>3. /\ memory' = [memory EXCEPT ![a] = bytes] /\ UNCHANGED <<bits_per_element, heap>>
      /\ objects' = [g \in Objects |->
           IF g = f THEN o
           ELSE IF Lives(g) /\ objects[g].bf = a THEN [objects[g] EXCEPT !.mixed = TRUE]
           ELSE objects[g]]
  BY <1>1, <1>2 DEF Write, Update
<1>4. /\ objects[f] \in Filter /\ a \in Arrays
  BY <1>1, ObjectTyped DEF Known, IInv
<1>5. /\ o \in Filter /\ o.bf = a /\ o.hash_functions = objects[f].hash_functions
      /\ o.added = added /\ o.mixed = mixed
  BY <1>1, <1>2, <1>4 DEF Filter
<1>6. /\ bits_per_element \in Widths /\ heap \subseteq Arrays /\ memory \in [Arrays -> Bytes]
      /\ objects \in [Objects -> Filter \cup {None}]
  BY DEF IInv, TypeOK
<1>7. ASSUME NEW g \in Objects, Lives(g) PROVE [objects[g] EXCEPT !.mixed = TRUE] \in Filter
  BY <1>7, ObjectTyped DEF IInv, Filter
<1>8. TypeOK'
  <2>1. memory' \in [Arrays -> Bytes]
    BY <1>3, <1>4, <1>6
  <2>2. objects' \in [Objects -> Filter \cup {None}]
    BY <1>3, <1>5, <1>6, <1>7
  <2> QED
    BY <1>3, <1>6, <2>1, <2>2, TypesStay DEF TypeOK, Arrays, Filter, Hashes, Empty
<1>9. ASSUME NEW g \in Objects, Known(g)'
      PROVE  \/ /\ Known(g) /\ memory'[objects'[g].bf] = memory[objects[g].bf]
                /\ objects'[g].hash_functions = objects[g].hash_functions
                /\ objects'[g].added = objects[g].added
             \/ Exact(bits_per_element, memory'[objects'[g].bf], objects'[g].hash_functions,
                      objects'[g].added)
  <2>1. CASE g = f
    <3>1. objects'[g] = o /\ memory'[a] = bytes
      BY <1>3, <1>4, <1>6, <2>1
    <3> QED
      BY <1>5, <1>9, <3>1 DEF Known
  <2>2. CASE g # f /\ Lives(g) /\ objects[g].bf = a
    <3>1. objects'[g] = [objects[g] EXCEPT !.mixed = TRUE]
      BY <1>3, <2>2
    <3>2. objects'[g].mixed
      BY <2>2, <3>1, ObjectTyped DEF IInv, Filter
    <3> QED
      BY <1>9, <3>2 DEF Known
  <2>3. CASE g # f /\ ~(Lives(g) /\ objects[g].bf = a)
    <3>1. objects'[g] = objects[g]
      BY <1>3, <2>3
    <3>2. Known(g) /\ Lives(g)
      BY <1>9, <3>1 DEF Known, Lives
    <3>3. objects[g].bf # a /\ objects[g].bf \in Arrays
      BY <2>3, <3>2, ObjectTyped DEF IInv
    <3> QED
      BY <1>3, <1>6, <3>1, <3>2, <3>3
  <2> QED
    BY <2>1, <2>2, <2>3
<1>10. ExactInv'
  BY <1>3, <1>9, ExactFrame DEF IInv
<1> QED
  BY <1>8, <1>10

\* t(std::move(f)): t has the counters of f in the same array, and of f nothing is known.
LEMMA MoveConstructExact ==
  ASSUME IInv, NEW t \in Objects, NEW f \in Objects, MoveConstruct(t, f)
  PROVE  TypeOK' /\ ExactInv'
<1>1. PICK o : o = [objects[f] EXCEPT !._memory = None]
  OBVIOUS
<1>2. PICK q : q = MovedFrom(f)
  OBVIOUS
<1>3. /\ Lives(f) /\ ~Lives(t) /\ UNCHANGED <<bits_per_element, heap, memory>>
      /\ objects' = [objects EXCEPT ![t] = o, ![f] = q]
  BY <1>1, <1>2 DEF MoveConstruct
<1>4. objects[f] \in Filter
  BY <1>3, ObjectTyped DEF IInv
<1>5. /\ o \in Filter /\ o.bf = objects[f].bf /\ o.added = objects[f].added
      /\ o.hash_functions = objects[f].hash_functions /\ o.mixed = objects[f].mixed
  BY <1>1, <1>4 DEF Filter
<1>6. q \in Filter /\ q.mixed
  <2>1. NoneAdded \in [Elements -> Nat]
    BY DEF NoneAdded
  <2> QED
    BY <1>2, <1>4, <2>1 DEF Filter, MovedFrom
<1>7. /\ bits_per_element \in Widths /\ heap \subseteq Arrays /\ memory \in [Arrays -> Bytes]
      /\ objects \in [Objects -> Filter \cup {None}]
  BY DEF IInv, TypeOK
<1>8. TypeOK'
  <2>1. objects' \in [Objects -> Filter \cup {None}]
    BY <1>3, <1>5, <1>6, <1>7
  <2> QED
    BY <1>3, <1>7, <2>1, TypesStay DEF TypeOK, Arrays, Filter, Hashes, Empty
<1>9. ASSUME NEW g \in Objects, Known(g)'
      PROVE  \/ /\ Known(g) /\ memory'[objects'[g].bf] = memory[objects[g].bf]
                /\ objects'[g].hash_functions = objects[g].hash_functions
                /\ objects'[g].added = objects[g].added
             \/ Exact(bits_per_element, memory'[objects'[g].bf], objects'[g].hash_functions,
                      objects'[g].added)
  <2>1. CASE g = f
    <3>1. objects'[g] = q
      BY <1>3, <1>7, <2>1
    <3> QED
      BY <1>6, <1>9, <3>1 DEF Known
  <2>2. CASE g # f /\ g = t
    <3>1. objects'[g] = o
      BY <1>3, <1>7, <2>2
    <3>2. Known(f)
      BY <1>3, <1>5, <1>9, <3>1 DEF Known
    <3> QED
      BY <1>3, <1>5, <3>1, <3>2 DEF IInv, ExactInv
  <2>3. CASE g # f /\ g # t
    <3>1. objects'[g] = objects[g]
      BY <1>3, <1>7, <2>3
    <3> QED
      BY <1>3, <1>9, <3>1 DEF Known, Lives
  <2> QED
    BY <2>1, <2>2, <2>3
<1>10. ExactInv'
  BY <1>3, <1>9, ExactFrame DEF IInv
<1> QED
  BY <1>8, <1>10

\* t = f: the array of t has the bytes of the one of f, and t what f expects of them.
LEMMA AssignExact ==
  ASSUME IInv, NEW t \in Objects, NEW f \in Objects, Assign(t, f)
  PROVE  TypeOK' /\ ExactInv'
<1>1. PICK o : o = Takes(t, f)
  OBVIOUS
<1>2. PICK a : a = objects[t].bf
  OBVIOUS
<1>3. /\ Lives(t) /\ Known(f) /\ Lives(f) /\ UNCHANGED <<bits_per_element, heap>>
      /\ memory' = [memory EXCEPT ![a] = memory[objects[f].bf]]
      /\ objects' = [g \in Objects |->
           IF g = t THEN o
           ELSE IF Lives(g) /\ objects[g].bf = a THEN [objects[g] EXCEPT !.mixed = TRUE]
           ELSE objects[g]]
  <2>1. objects' = [g \in Objects |->
           IF g = t THEN Takes(g, f)
           ELSE IF Lives(g) /\ objects[g].bf = a THEN [objects[g] EXCEPT !.mixed = TRUE]
           ELSE objects[g]]
    BY <1>2 DEF Assign, Update
  <2> QED
    BY <1>1, <1>2, <2>1 DEF Assign, Known
<1>4. objects[f] \in Filter /\ objects[t] \in Filter /\ a \in Arrays
      /\ memory[objects[f].bf] \in Bytes
  BY <1>2, <1>3, ObjectTyped DEF IInv
<1>5. /\ o \in Filter /\ o.bf = a /\ o.added = objects[f].added
      /\ o.hash_functions = objects[f].hash_functions /\ o.mixed = objects[f].mixed
  BY <1>1, <1>2, <1>4 DEF Filter, Takes
<1>6. /\ bits_per_element \in Widths /\ heap \subseteq Arrays /\ memory \in [Arrays -> Bytes]
      /\ objects \in [Objects -> Filter \cup {None}]
  BY DEF IInv, TypeOK
<1>7. ASSUME NEW g \in Objects, Lives(g) PROVE [objects[g] EXCEPT !.mixed = TRUE] \in Filter
  BY <1>7, ObjectTyped DEF IInv, Filter
<1>8. TypeOK'
  <2>1. memory' \in [Arrays -> Bytes]
    BY <1>3, <1>4, <1>6
  <2>2. objects' \in [Objects -> Filter \cup {None}]
    BY <1>3, <1>5, <1>6, <1>7
  <2> QED
    BY <1>3, <1>6, <2>1, <2>2, TypesStay DEF TypeOK, Arrays, Filter, Hashes, Empty
<1>9. ASSUME NEW g \in Objects, Known(g)'
      PROVE  \/ /\ Known(g) /\ memory'[objects'[g].bf] = memory[objects[g].bf]
                /\ objects'[g].hash_functions = objects[g].hash_functions
                /\ objects'[g].added = objects[g].added
             \/ Exact(bits_per_element, memory'[objects'[g].bf], objects'[g].hash_functions,
                      objects'[g].added)
  <2>1. CASE g = t
    <3>1. objects'[g] = o /\ memory'[a] = memory[objects[f].bf]
      BY <1>3, <1>4, <1>6, <2>1
    <3> QED
      BY <1>3, <1>5, <3>1 DEF IInv, ExactInv
  <2>2. CASE g # t /\ Lives(g) /\ objects[g].bf = a
    <3>1. objects'[g] = [objects[g] EXCEPT !.mixed = TRUE]
      BY <1>3, <2>2
    <3>2. objects'[g].mixed
      BY <2>2, <3>1, ObjectTyped DEF IInv, Filter
    <3> QED
      BY <1>9, <3>2 DEF Known
  <2>3. CASE g # t /\ ~(Lives(g) /\ objects[g].bf = a)
    <3>1. objects'[g] = objects[g]
      BY <1>3, <2>3
    <3>2. Known(g) /\ Lives(g)
      BY <1>9, <3>1 DEF Known, Lives
    <3>3. objects[g].bf # a /\ objects[g].bf \in Arrays
      BY <2>3, <3>2, ObjectTyped DEF IInv
    <3> QED
      BY <1>3, <1>6, <3>1, <3>2, <3>3
  <2> QED
    BY <2>1, <2>2, <2>3
<1>10. ExactInv'
  BY <1>3, <1>9, ExactFrame DEF IInv
<1> QED
  BY <1>8, <1>10

\* t = std::move(t): the counters are swapped with themselves.
LEMMA MoveToSelfExact ==
  ASSUME IInv, NEW f \in Objects, MoveAssign(f, f)
  PROVE  TypeOK' /\ ExactInv'
<1>1. PICK o : o = [objects[f] EXCEPT !._memory = None]
  OBVIOUS
<1>2. PICK a : a = objects[f].bf
  OBVIOUS
<1>3. /\ Lives(f) /\ UNCHANGED <<bits_per_element, heap>>
      /\ memory' = [memory EXCEPT ![a] = memory[a], ![a] = memory[a]]
      /\ objects' = [objects EXCEPT ![f]._memory = None]
  BY <1>2 DEF MoveAssign
<1>4. /\ bits_per_element \in Widths /\ heap \subseteq Arrays /\ memory \in [Arrays -> Bytes]
      /\ objects \in [Objects -> Filter \cup {None}]
  BY DEF IInv, TypeOK
<1>5. objects[f] \in Filter /\ a \in Arrays
  BY <1>2, <1>3, ObjectTyped DEF IInv
<1>6. /\ o \in Filter /\ o.bf = objects[f].bf /\ o.added = objects[f].added
      /\ o.hash_functions = objects[f].hash_functions /\ o.mixed = objects[f].mixed
  BY <1>1, <1>5 DEF Filter
<1>7. memory' = memory /\ objects' = [objects EXCEPT ![f] = o]
  BY <1>1, <1>3, <1>4, <1>5
<1>8. TypeOK'
  <2>1. objects' \in [Objects -> Filter \cup {None}]
    BY <1>4, <1>6, <1>7
  <2> QED
    BY <1>3, <1>4, <1>7, <2>1, TypesStay DEF TypeOK, Arrays, Filter, Hashes, Empty
<1>9. ASSUME NEW g \in Objects, Known(g)'
      PROVE  /\ Known(g) /\ memory'[objects'[g].bf] = memory[objects[g].bf]
             /\ objects'[g].hash_functions = objects[g].hash_functions
             /\ objects'[g].added = objects[g].added
  <2>1. CASE g = f
    <3>1. objects'[g] = o
      BY <1>4, <1>7, <2>1
    <3> QED
      BY <1>3, <1>6, <1>7, <1>9, <2>1, <3>1 DEF Known
  <2>2. CASE g # f
    <3>1. objects'[g] = objects[g]
      BY <1>4, <1>7, <2>2
    <3> QED
      BY <1>7, <1>9, <3>1 DEF Known, Lives
  <2> QED
    BY <2>1, <2>2
<1>10. ExactInv'
  BY <1>3, <1>9, ExactFrame DEF IInv
<1> QED
  BY <1>8, <1>10

\* t = std::move(f): the arrays of both swap their bytes, and t expects what f did.
LEMMA MoveAssignExact ==
  ASSUME IInv, NEW t \in Objects, NEW f \in Objects, MoveAssign(t, f), t # f
  PROVE  TypeOK' /\ ExactInv'
<1>1. PICK o : o = Takes(t, f)
  OBVIOUS
<1>2. PICK q : q = MovedFrom(f)
  OBVIOUS
<1>3. PICK a : a = objects[t].bf
  OBVIOUS
<1>4. PICK b : b = objects[f].bf
  OBVIOUS
<1>5. /\ Lives(t) /\ Lives(f) /\ UNCHANGED <<bits_per_element, heap>>
      /\ memory' = [memory EXCEPT ![a] = memory[b], ![b] = memory[a]]
      /\ objects' = [g \in Objects |->
           IF g = t THEN o ELSE IF g = f THEN q
           ELSE IF Lives(g) /\ objects[g].bf \in {a, b}
           THEN [objects[g] EXCEPT !.mixed = TRUE] ELSE objects[g]]
  <2>1. objects' = [g \in Objects |->
           IF g \in {t, f} THEN IF g = t THEN Takes(t, f) ELSE MovedFrom(f)
           ELSE IF Lives(g) /\ objects[g].bf \in {a, b}
           THEN [objects[g] EXCEPT !.mixed = TRUE] ELSE objects[g]]
    BY <1>3, <1>4 DEF MoveAssign, Update
  <2> QED
    BY <1>1, <1>2, <1>3, <1>4, <2>1 DEF MoveAssign
<1>6. /\ objects[f] \in Filter /\ objects[t] \in Filter /\ a \in Arrays /\ b \in Arrays
      /\ memory[a] \in Bytes /\ memory[b] \in Bytes
  BY <1>3, <1>4, <1>5, ObjectTyped DEF IInv
<1>7. /\ o \in Filter /\ o.bf = a /\ o.added = objects[f].added
      /\ o.hash_functions = objects[f].hash_functions /\ o.mixed = objects[f].mixed
  BY <1>1, <1>3, <1>6 DEF Filter, Takes
<1>8. q \in Filter /\ q.mixed
  <2>1. NoneAdded \in [Elements -> Nat]
    BY DEF NoneAdded
  <2> QED
    BY <1>2, <1>6, <2>1 DEF Filter, MovedFrom
<1>9. /\ bits_per_element \in Widths /\ heap \subseteq Arrays /\ memory \in [Arrays -> Bytes]
      /\ objects \in [Objects -> Filter \cup {None}]
  BY DEF IInv, TypeOK
<1>10. ASSUME NEW g \in Objects, Lives(g) PROVE [objects[g] EXCEPT !.mixed = TRUE] \in Filter
  BY <1>10, ObjectTyped DEF IInv, Filter
<1>11. TypeOK'
  <2>1. memory' \in [Arrays -> Bytes]
    BY <1>5, <1>6, <1>9
  <2>2. objects' \in [Objects -> Filter \cup {None}]
    BY <1>5, <1>7, <1>8, <1>9, <1>10
  <2> QED
    BY <1>5, <1>9, <2>1, <2>2, TypesStay DEF TypeOK, Arrays, Filter, Hashes, Empty
<1>12. ASSUME NEW g \in Objects, Known(g)'
       PROVE  \/ /\ Known(g) /\ memory'[objects'[g].bf] = memory[objects[g].bf]
                 /\ objects'[g].hash_functions = objects[g].hash_functions
                 /\ objects'[g].added = objects[g].added
              \/ Exact(bits_per_element, memory'[objects'[g].bf], objects'[g].hash_functions,
                       objects'[g].added)
  <2>1. CASE g = t
    <3>1. objects'[g] = o /\ memory'[a] = memory[b]
      BY <1>5, <1>6, <1>9, <2>1
    <3>2. Known(f)
      BY <1>5, <1>7, <1>12, <3>1 DEF Known
    <3> QED
      BY <1>4, <1>7, <3>1, <3>2 DEF IInv, ExactInv
  <2>2. CASE g # t /\ g = f
    <3>1. objects'[g] = q
      BY <1>5, <2>2
    <3> QED
      BY <1>8, <1>12, <3>1 DEF Known
  <2>3. CASE g # t /\ g # f /\ Lives(g) /\ objects[g].bf \in {a, b}
    <3>1. objects'[g] = [objects[g] EXCEPT !.mixed = TRUE]
      BY <1>5, <2>3
    <3>2. objects'[g].mixed
      BY <2>3, <3>1, ObjectTyped DEF IInv, Filter
    <3> QED
      BY <1>12, <3>2 DEF Known
  <2>4. CASE g # t /\ g # f /\ ~(Lives(g) /\ objects[g].bf \in {a, b})
    <3>1. objects'[g] = objects[g]
      BY <1>5, <2>4
    <3>2. Known(g) /\ Lives(g)
      BY <1>12, <3>1 DEF Known, Lives
    <3>3. objects[g].bf # a /\ objects[g].bf # b /\ objects[g].bf \in Arrays
      BY <2>4, <3>2, ObjectTyped DEF IInv
    <3> QED
      BY <1>5, <1>9, <3>1, <3>2, <3>3
  <2> QED
    BY <2>1, <2>2, <2>3, <2>4
<1>13. ExactInv'
  BY <1>5, <1>12, ExactFrame DEF IInv
<1> QED
  BY <1>11, <1>13

\* ~CountingBloomFilter: no filter of which something is known loses its array.
LEMMA DestroyExact ==
  ASSUME IInv, NEW f \in Objects, Destroy(f)
  PROVE  TypeOK' /\ ExactInv'
<1>1. PICK gone : gone = {a \in Arrays : \/ a = objects[f]._memory
                                         \/ \A g \in Alive \ {f} : objects[g].bf # a}
  OBVIOUS
<1>2. /\ Lives(f) /\ objects' = [objects EXCEPT ![f] = None] /\ heap' = heap \ gone
      /\ memory' = [a \in Arrays |-> IF a \in gone THEN Zeros ELSE memory[a]]
      /\ UNCHANGED bits_per_element
  BY <1>1 DEF Destroy
<1>3. /\ bits_per_element \in Widths /\ heap \subseteq Arrays /\ memory \in [Arrays -> Bytes]
      /\ objects \in [Objects -> Filter \cup {None}]
  BY DEF IInv, TypeOK
<1>4. TypeOK'
  <2>1. Zeros \in Bytes
    BY DEF Zeros, Bytes
  <2>2. memory' \in [Arrays -> Bytes] /\ heap' \subseteq Arrays
    BY <1>2, <1>3, <2>1
  <2>3. objects' \in [Objects -> Filter \cup {None}]
    BY <1>2, <1>3
  <2> QED
    BY <1>2, <1>3, <2>2, <2>3, TypesStay DEF TypeOK, Arrays, Filter, Hashes, Empty
<1>5. ASSUME NEW g \in Objects, Known(g)'
      PROVE  /\ Known(g) /\ memory'[objects'[g].bf] = memory[objects[g].bf]
             /\ objects'[g].hash_functions = objects[g].hash_functions
             /\ objects'[g].added = objects[g].added
  <2>1. g # f /\ objects'[g] = objects[g]
    BY <1>2, <1>3, <1>5 DEF Known, Lives
  <2>2. Known(g) /\ Lives(g)
    BY <1>5, <2>1 DEF Known, Lives
  <2>3. objects'[g].bf \in heap'
    <3>1. RefInv'
      BY DestroyKeeps DEF IInv
    <3>2. Lives(g)'
      BY <1>5 DEF Known
    <3> QED
      BY <3>1, <3>2 DEF RefInv, Refers, Alive
  <2>4. objects[g].bf \notin gone /\ objects[g].bf \in Arrays
    BY <1>2, <2>1, <2>2, <2>3, ObjectTyped DEF IInv
  <2> QED
    BY <1>2, <2>1, <2>2, <2>4
<1>6. ExactInv'
  BY <1>2, <1>5, ExactFrame DEF IInv
<1> QED
  BY <1>4, <1>6

\* The lists addHashes accepts are lists of k functions.
LEMMA HashesTyped == addHashes \subseteq Hashes
<1>1. ASSUME NEW l \in Lists, Len(l) = 1 PROVE generateHashes(l[1]) \in Hashes
  <2>1. ASSUME NEW i \in 1..k, NEW e \in Elements PROVE BitXor(l[1][e], Rand[i]) \in Nat
    BY <1>1, CountingBloomFilterAssumption
  <2> QED
    BY <2>1 DEF generateHashes, Hashes
<1>2. ASSUME NEW l \in Lists, Len(l) = k PROVE l \in Hashes
  <2>1. l \in Seq([Elements -> Nat])
    BY CountingBloomFilterAssumption
  <2>2. l \in [1..Len(l) -> [Elements -> Nat]]
    BY <2>1
  <2> QED
    BY <1>2, <2>2, Zenon DEF Hashes
<1>3. ASSUME NEW hs \in addHashes PROVE hs \in Hashes
  <2>1. PICK l \in Lists : /\ Len(l) \in {1, k}
                           /\ hs = IF Len(l) = 1 THEN generateHashes(l[1]) ELSE l
    BY DEF addHashes
  <2> QED
    BY <1>1, <1>2, <2>1
<1> QED
  BY <1>3

\* What there is of a filter of which something is known.
LEMMA KnownTyped ==
  ASSUME IInv, NEW f \in Objects, Known(f)
  PROVE  /\ bits_per_element \in {2, 4, 8} /\ memory[objects[f].bf] \in Bytes
         /\ objects[f].hash_functions \in Hashes
         /\ objects[f].added \in [Elements -> Nat]
         /\ Exact(bits_per_element, memory[objects[f].bf], objects[f].hash_functions,
                  objects[f].added)
         /\ Limit = LimitOf(bits_per_element)
<1>1. Exact(bits_per_element, memory[objects[f].bf], objects[f].hash_functions,
            objects[f].added)
  BY DEF IInv, ExactInv
<1>2. Lives(f) /\ TypeOK
  BY DEF Known, IInv
<1>3. Limit = LimitOf(bits_per_element)
  BY DEF Limit, LimitOf
<1> QED
  BY <1>1, <1>2, <1>3, ObjectTyped DEF Exact

\* The zeros of a new array are the counters of an empty filter.
LEMMA ZerosExact ==
  ASSUME bits_per_element \in {2, 4, 8}, NEW hs \in Hashes
  PROVE  /\ Zeros \in Bytes /\ NoneAdded \in [Elements -> Nat]
         /\ Exact(bits_per_element, Zeros, hs, NoneAdded)
<1>1. Zeros \in Bytes /\ NoneAdded \in [Elements -> Nat]
  BY DEF Zeros, Bytes, NoneAdded
<1>2. ASSUME NEW v \in 0..m-1 PROVE Field(bits_per_element, Zeros, v) = 0
  <2>1. PICK w \in {2, 4, 8} : w = bits_per_element
    OBVIOUS
  <2>2. PICK p \in Parts(w) : p = Part(v)
    BY <2>1, PlaceTyped, <1>1
  <2>3. PICK u \in {1, 4, 16, 64} : u = One(w, p)
    BY OneIs
  <2>4. Zeros[Bucket(v)] = 0
    BY <1>1, PlaceTyped DEF Zeros
  <2>5. Field(bits_per_element, Zeros, v) = (0 \div u) % (2 ^ w)
    BY <2>1, <2>2, <2>3, <2>4, FieldIs, Zenon DEF ByteField
  <2>6. 2 ^ 2 = 4 /\ 2 ^ 4 = 16 /\ 2 ^ 8 = 256
    OBVIOUS
  <2>7. 0 \div u = 0
    OBVIOUS
  <2>8. 0 % 4 = 0 /\ 0 % 16 = 0 /\ 0 % 256 = 0
    OBVIOUS
  <2>9. 0 % (2 ^ w) = 0
    <3>1. CASE w = 2
      BY <2>6, <2>8, <3>1, Zenon
    <3>2. CASE w = 4
      BY <2>6, <2>8, <3>2, Zenon
    <3>3. CASE w = 8
      BY <2>6, <2>8, <3>3, Zenon
    <3> QED
      BY <3>1, <3>2, <3>3
  <2> QED
    BY <2>5, <2>7, <2>9, Zenon
<1>3. ASSUME NEW v \in 0..m-1
      PROVE  Expected(hs, NoneAdded, v) = 0 /\ 0 <= LimitOf(bits_per_element)
  BY ExpectedGrows DEF LimitOf
<1> QED
  BY <1>1, <1>2, <1>3 DEF Exact

\* A filter made of a list of hash functions is empty, and so are its counters.
LEMMA ConstructExact ==
  ASSUME IInv, NEW f \in Objects, Construct(f)
  PROVE  TypeOK' /\ ExactInv'
<1>1. PICK hs \in addHashes : Create(f, Zeros, hs, NoneAdded, FALSE)
  BY DEF Construct
<1>2. hs \in Hashes
  BY HashesTyped
<1>3. bits_per_element \in {2, 4, 8}
  BY CountingBloomFilterAssumption DEF IInv, TypeOK
<1>4. /\ Zeros \in Bytes /\ NoneAdded \in [Elements -> Nat]
      /\ Exact(bits_per_element, Zeros, hs, NoneAdded)
  BY <1>2, <1>3, ZerosExact
<1> QED
  BY <1>1, <1>2, <1>4, CreateExact

\* A filter restored from the bytes of another has its counters, which it is sure of when
\* it was given the same hash functions.
LEMMA RestoreExact ==
  ASSUME IInv, NEW f \in Objects, NEW g \in Objects, Restore(f, g)
  PROVE  TypeOK' /\ ExactInv'
<1> DEFINE o == objects[g]
<1>1. PICK hs \in addHashes :
        Create(f, memory[o.bf], hs, IF o.hash_functions = hs THEN o.added ELSE NoneAdded,
               ~(o.hash_functions = hs))
  BY DEF Restore
<1>2. Known(g)
  BY DEF Restore
<1>3. hs \in Hashes
  BY HashesTyped
<1>4. PICK mixed \in BOOLEAN : mixed = ~(o.hash_functions = hs)
  OBVIOUS
<1>5. PICK added : added = IF o.hash_functions = hs THEN o.added ELSE NoneAdded
  OBVIOUS
<1>6. added \in [Elements -> Nat]
  BY <1>2, <1>5, KnownTyped DEF NoneAdded
<1>7. PICK bytes \in Bytes : bytes = memory[o.bf]
  BY <1>2, KnownTyped
<1>8. ~mixed => Exact(bits_per_element, bytes, hs, added)
  BY <1>2, <1>4, <1>5, <1>7, KnownTyped
<1>9. Create(f, bytes, hs, added, mixed)
  BY <1>1, <1>4, <1>5, <1>7
<1> QED
  BY <1>3, <1>6, <1>8, <1>9, CreateExact

\* t(f): a copy has the bytes, the hash functions and the elements of its original.
LEMMA CopyConstructExact ==
  ASSUME IInv, NEW t \in Objects, NEW f \in Objects, CopyConstruct(t, f)
  PROVE  TypeOK' /\ ExactInv'
<1>1. /\ Known(f)
      /\ Create(t, memory[objects[f].bf], objects[f].hash_functions, objects[f].added, FALSE)
  BY DEF CopyConstruct
<1>2. PICK bytes \in Bytes : bytes = memory[objects[f].bf]
  BY <1>1, KnownTyped
<1>3. PICK hs \in Hashes : hs = objects[f].hash_functions
  BY <1>1, KnownTyped
<1>4. PICK added \in [Elements -> Nat] : added = objects[f].added
  BY <1>1, KnownTyped
<1>5. Exact(bits_per_element, bytes, hs, added)
  BY <1>1, <1>2, <1>3, <1>4, KnownTyped
<1>6. Create(t, bytes, hs, added, FALSE)
  BY <1>1, <1>2, <1>3, <1>4
<1> QED
  BY <1>5, <1>6, CreateExact

\* While no counter would pass the limit set keeps them exact.
LEMMA SetExact ==
  ASSUME IInv, NEW f \in Objects, Set(f)
  PROVE  TypeOK' /\ ExactInv'
<1>1. PICK hs : hs = objects[f].hash_functions
  OBVIOUS
<1>2. PICK a : a = objects[f].added
  OBVIOUS
<1>3. PICK bytes : bytes = memory[objects[f].bf]
  OBVIOUS
<1>4. PICK e \in Elements :
        LET added == [a EXCEPT ![e] = @ + 1]
        IN  Write(f, set(bytes, hs, e), added, Exceeds(hs, added))
  BY <1>1, <1>2, <1>3 DEF Set
<1>5. Known(f)
  BY DEF Set
<1>6. /\ bits_per_element \in {2, 4, 8} /\ bytes \in Bytes /\ hs \in Hashes
      /\ a \in [Elements -> Nat] /\ Exact(bits_per_element, bytes, hs, a)
      /\ Limit = LimitOf(bits_per_element)
  BY <1>1, <1>2, <1>3, <1>5, KnownTyped
<1>7. PICK added : added = [a EXCEPT ![e] = @ + 1]
  OBVIOUS
<1>8. PICK mixed \in BOOLEAN : mixed = Exceeds(hs, added)
  BY DEF Exceeds
<1>9. PICK new : new = set(bytes, hs, e)
  OBVIOUS
<1>10. Write(f, new, added, mixed)
  BY <1>4, <1>7, <1>8, <1>9
<1>11. /\ added \in [Elements -> Nat] /\ added[e] = a[e] + 1
       /\ \A x \in Elements \ {e} : added[x] = a[x]
  BY <1>6, <1>7
<1>12. new \in Bytes
  BY <1>6, <1>9, SetCounts
<1>13. ASSUME ~mixed PROVE Exact(bits_per_element, new, hs, added)
  <2>1. ASSUME NEW v \in 0..m-1
        PROVE  /\ Expected(hs, added, v) <= Limit
               /\ Field(bits_per_element, bytes, v) = Expected(hs, a, v)
               /\ Expected(hs, added, v) = Expected(hs, a, v) + Times(Vals(hs, e), k, v)
    <3>1. ~(Expected(hs, added, v) > Limit)
      BY <1>8, <1>13 DEF Exceeds
    <3>2. Expected(hs, added, v) \in Nat /\ Limit \in Nat
      BY <1>11, ExpectedGrows DEF Limit
    <3>3. Expected(hs, added, v) = Expected(hs, a, v) + Times(Vals(hs, e), k, v)
      BY <1>6, <1>11, ExpectedOne
    <3>4. Expected(hs, added, v) <= Limit
      BY <3>1, <3>2
    <3> QED
      BY <1>6, <3>3, <3>4 DEF Exact
  <2>2. \A v \in 0..m-1 : Field(bits_per_element, bytes, v) + Times(Vals(hs, e), k, v) <= Limit
    BY <2>1
  <2>3. \A v \in 0..m-1 : Field(bits_per_element, new, v)
                            = Field(bits_per_element, bytes, v) + Times(Vals(hs, e), k, v)
    BY <1>6, <1>9, <2>2, SetCounts
  <2> QED
    BY <1>6, <2>1, <2>3 DEF Exact
<1> QED
  BY <1>1, <1>5, <1>10, <1>11, <1>12, <1>13, WriteExact

\* remove keeps the counters exact of the filter it takes an element from, and of one that
\* has none of it and nothing in its counters.
LEMMA RemoveExact ==
  ASSUME IInv, NEW f \in Objects, RemoveFrom(f)
  PROVE  TypeOK' /\ ExactInv'
<1>1. PICK hs : hs = objects[f].hash_functions
  OBVIOUS
<1>2. PICK a : a = objects[f].added
  OBVIOUS
<1>3. PICK bytes : bytes = memory[objects[f].bf]
  OBVIOUS
<1>4. PICK e \in Elements :
        Write(f, remove(bytes, hs, e), [a EXCEPT ![e] = Max({0, @ - 1})],
              Disturbs(objects[f], e))
  BY <1>1, <1>2, <1>3 DEF RemoveFrom
<1>5. Known(f)
  BY DEF RemoveFrom
<1>6. /\ bits_per_element \in {2, 4, 8} /\ bytes \in Bytes /\ hs \in Hashes
      /\ a \in [Elements -> Nat] /\ Exact(bits_per_element, bytes, hs, a)
      /\ Limit = LimitOf(bits_per_element)
  BY <1>1, <1>2, <1>3, <1>5, KnownTyped
<1>7. PICK added : added = [a EXCEPT ![e] = Max({0, @ - 1})]
  OBVIOUS
<1>8. PICK mixed \in BOOLEAN : mixed = Disturbs(objects[f], e)
  BY DEF Disturbs
<1>9. PICK new : new = remove(bytes, hs, e)
  OBVIOUS
<1>10. Write(f, new, added, mixed)
  BY <1>4, <1>7, <1>8, <1>9
<1>11. Max({0, a[e] - 1}) = IF a[e] = 0 THEN 0 ELSE a[e] - 1
  <2>1. PICK n \in Nat : n = a[e]
    BY <1>6
  <2>2. Max({0, n - 1}) = IF n = 0 THEN 0 ELSE n - 1
    <3>1. PICK x : x = IF n = 0 THEN 0 ELSE n - 1
      OBVIOUS
    <3>2. x \in {0, n - 1} /\ \A y \in {0, n - 1} : x >= y
      BY <3>1
    <3>3. \A z \in {0, n - 1} : (\A y \in {0, n - 1} : z >= y) => z = x
      BY <3>1
    <3> QED
      BY <3>1, <3>2, <3>3, Zenon DEF Max
  <2> QED
    BY <2>1, <2>2, Zenon
<1>12. /\ added \in [Elements -> Nat]
       /\ a[e] = 0 => added = a
       /\ a[e] # 0 => a[e] = added[e] + 1 /\ \A x \in Elements \ {e} : a[x] = added[x]
  BY <1>6, <1>7, <1>11
<1>13. new \in Bytes
  BY <1>6, <1>9, RemoveCounts
<1>14. ASSUME ~mixed PROVE Exact(bits_per_element, new, hs, added)
  <2>1. CASE a[e] = 0
    <3>1. /\ bits_per_element # 2
          /\ \A i \in 1..k : ~(Expected(hs, a, Vals(hs, e)[i]) > 0)
      BY <1>1, <1>2, <1>8, <1>14, <2>1 DEF Disturbs
    <3>2. ASSUME NEW i \in 1..k PROVE Field(bits_per_element, bytes, Vals(hs, e)[i]) = 0
      <4>1. PICK v \in 0..m-1 : v = Vals(hs, e)[i]
        BY <1>6, ValsTyped
      <4>2. Expected(hs, a, v) \in Nat /\ ~(Expected(hs, a, v) > 0)
        BY <1>6, <3>1, <4>1, ExpectedGrows
      <4>3. Expected(hs, a, v) = 0
        BY <4>2
      <4> QED
        BY <1>6, <4>1, <4>3 DEF Exact
    <3>3. new = bytes
      BY <1>6, <1>9, <3>1, <3>2, RemoveCounts
    <3> QED
      BY <1>6, <1>12, <2>1, <3>3
  <2>2. CASE a[e] # 0
    <3>1. ASSUME NEW v \in 0..m-1
          PROVE  /\ Expected(hs, a, v) = Expected(hs, added, v) + Times(Vals(hs, e), k, v)
                 /\ Expected(hs, added, v) \in Nat /\ Times(Vals(hs, e), k, v) \in Nat
                 /\ Field(bits_per_element, bytes, v) = Expected(hs, a, v)
                 /\ Expected(hs, a, v) <= Limit /\ Limit \in Nat
      <4>1. Expected(hs, a, v) = Expected(hs, added, v) + Times(Vals(hs, e), k, v)
        BY <1>12, <1>6, <2>2, ExpectedOne
      <4>2. Expected(hs, added, v) \in Nat /\ Times(Vals(hs, e), k, v) \in Nat
        BY <1>12, ExpectedGrows, PartedTyped
      <4>3. /\ Field(bits_per_element, bytes, v) = Expected(hs, a, v)
            /\ Expected(hs, a, v) <= Limit
        BY <1>6 DEF Exact
      <4> QED
        BY <4>1, <4>2, <4>3 DEF Limit
    <3>2. \A v \in 0..m-1 :
            /\ Times(Vals(hs, e), k, v) <= Field(bits_per_element, bytes, v)
            /\ Field(bits_per_element, bytes, v) <= Limit
      BY <3>1
    <3>3. \A v \in 0..m-1 : Field(bits_per_element, new, v)
                              = Field(bits_per_element, bytes, v) - Times(Vals(hs, e), k, v)
      BY <1>6, <1>9, <3>2, RemoveCounts
    <3>4. ASSUME NEW v \in 0..m-1
          PROVE  /\ Field(bits_per_element, new, v) = Expected(hs, added, v)
                 /\ Expected(hs, added, v) <= LimitOf(bits_per_element)
      BY <1>6, <3>1, <3>3
    <3> QED
      BY <1>6, <3>4 DEF Exact
  <2> QED
    BY <2>1, <2>2
<1> QED
  BY <1>1, <1>5, <1>10, <1>12, <1>13, <1>14, WriteExact

\* operator+= keeps them exact of two filters with the same functions that do not pass the
\* limit together.
LEMMA AddAssignExact ==
  ASSUME IInv, NEW f \in Objects, NEW g \in Objects, AddAssign(f, g)
  PROVE  TypeOK' /\ ExactInv'
<1>1. PICK hs : hs = objects[f].hash_functions
  OBVIOUS
<1>2. PICK a : a = objects[f].added
  OBVIOUS
<1>3. PICK b : b = objects[g].added
  OBVIOUS
<1>4. PICK x : x = memory[objects[f].bf]
  OBVIOUS
<1>5. PICK y : y = memory[objects[g].bf]
  OBVIOUS
<1>6. PICK same \in BOOLEAN : same = (objects[g].hash_functions = hs)
  OBVIOUS
<1>7. PICK added : added = [e \in Elements |-> a[e] + IF same THEN b[e] ELSE 0]
  OBVIOUS
<1>8. PICK mixed \in BOOLEAN :
        mixed = (~same \/ Misread(x) \/ Misread(y) \/ Exceeds(hs, added))
  BY DEF Misread, Exceeds
<1>9. /\ Known(f) /\ Known(g) /\ \A e \in Elements : added[e] \in Amounts[e]
      /\ Write(f, Unite(x, y), added, mixed)
  BY <1>1, <1>2, <1>3, <1>4, <1>5, <1>6, <1>7, <1>8 DEF AddAssign
<1>10. /\ bits_per_element \in {2, 4, 8} /\ x \in Bytes /\ hs \in Hashes
       /\ a \in [Elements -> Nat] /\ Exact(bits_per_element, x, hs, a)
       /\ Limit = LimitOf(bits_per_element)
  BY <1>1, <1>2, <1>4, <1>9, KnownTyped
<1>11. /\ y \in Bytes /\ b \in [Elements -> Nat]
       /\ Exact(bits_per_element, y, objects[g].hash_functions, b)
  BY <1>3, <1>5, <1>9, KnownTyped
<1>12. PICK new : new = Unite(x, y)
  OBVIOUS
<1>13. Write(f, new, added, mixed)
  BY <1>9, <1>12
<1>14. new \in Bytes
  BY <1>10, <1>11, <1>12, UniteCounts
<1>15. added \in [Elements -> Nat]
  <2>1. \A e \in Elements : added[e] \in Nat
    BY <1>9, CountingBloomFilterAssumption
  <2> QED
    BY <1>7, <2>1
<1>16. ASSUME ~mixed PROVE Exact(bits_per_element, new, hs, added)
  <2>1. same /\ ~Misread(x) /\ ~Misread(y) /\ ~Exceeds(hs, added)
    BY <1>8, <1>16
  <2>2. \A e \in Elements : added[e] = a[e] + b[e]
    BY <1>7, <2>1
  <2>3. Exact(bits_per_element, y, hs, b)
    BY <1>6, <1>11, <2>1
  <2>4. ASSUME NEW v \in 0..m-1
        PROVE  /\ Expected(hs, added, v) <= Limit
               /\ Field(bits_per_element, x, v) = Expected(hs, a, v)
               /\ Field(bits_per_element, y, v) = Expected(hs, b, v)
               /\ Expected(hs, added, v) = Expected(hs, a, v) + Expected(hs, b, v)
    <3>1. ~(Expected(hs, added, v) > Limit)
      BY <2>1 DEF Exceeds
    <3>2. Expected(hs, added, v) \in Nat /\ Limit \in Nat
      BY <1>15, ExpectedGrows DEF Limit
    <3>3. Expected(hs, added, v) = Expected(hs, a, v) + Expected(hs, b, v)
      BY <1>10, <1>11, <1>15, <2>2, ExpectedGrows
    <3>4. Expected(hs, added, v) <= Limit
      BY <3>1, <3>2
    <3> QED
      BY <1>10, <2>3, <3>3, <3>4 DEF Exact
  <2>5. \A v \in 0..m-1 : Field(bits_per_element, x, v) + Field(bits_per_element, y, v) <= Limit
    BY <2>4
  <2>6. \A v \in 0..m-1 : Field(bits_per_element, new, v)
                            = Field(bits_per_element, x, v) + Field(bits_per_element, y, v)
    BY <1>10, <1>11, <1>12, <2>1, <2>5, UniteCounts
  <2> QED
    BY <1>10, <2>4, <2>6 DEF Exact
<1> QED
  BY <1>1, <1>9, <1>13, <1>14, <1>15, <1>16, WriteExact

\* Before anything is constructed there is nothing of which something is known.
LEMMA InitExact == Init => IInv
<1> SUFFICES ASSUME Init PROVE IInv
  OBVIOUS
<1>1. Zeros \in Bytes
  BY DEF Zeros, Bytes
<1>2. TypeOK
  BY <1>1 DEF Init, TypeOK
<1>3. RefInv
  BY DEF Init, RefInv, Alive, Lives
<1>4. ExactInv
  BY DEF Init, ExactInv, Known, Lives
<1> QED
  BY <1>2, <1>3, <1>4 DEF IInv

\* Every step keeps the counters exact.
LEMMA ExactStep == IInv /\ [Next]_vars => IInv'
<1> SUFFICES ASSUME IInv, [Next]_vars PROVE TypeOK' /\ ExactInv'
  BY RefStep DEF IInv
<1>1. ASSUME NEW f \in Objects, Construct(f) PROVE TypeOK' /\ ExactInv'
  BY <1>1, ConstructExact
<1>2. ASSUME NEW f \in Objects, NEW g \in Objects, Restore(f, g)
      PROVE  TypeOK' /\ ExactInv'
  BY <1>2, RestoreExact
<1>3. ASSUME NEW f \in Objects, NEW g \in Objects, CopyConstruct(f, g)
      PROVE  TypeOK' /\ ExactInv'
  BY <1>3, CopyConstructExact
<1>4. ASSUME NEW f \in Objects, Set(f) PROVE TypeOK' /\ ExactInv'
  BY <1>4, SetExact
<1>5. ASSUME NEW f \in Objects, RemoveFrom(f) PROVE TypeOK' /\ ExactInv'
  BY <1>5, RemoveExact
<1>6. ASSUME NEW f \in Objects, NEW g \in Objects, AddAssign(f, g)
      PROVE  TypeOK' /\ ExactInv'
  BY <1>6, AddAssignExact
<1>7. ASSUME NEW f \in Objects, NEW g \in Objects, MoveConstruct(f, g)
      PROVE  TypeOK' /\ ExactInv'
  BY <1>7, MoveConstructExact
<1>8. ASSUME NEW f \in Objects, NEW g \in Objects, Assign(f, g)
      PROVE  TypeOK' /\ ExactInv'
  BY <1>8, AssignExact
<1>9. ASSUME NEW f \in Objects, NEW g \in Objects, MoveAssign(f, g)
      PROVE  TypeOK' /\ ExactInv'
  BY <1>9, MoveToSelfExact, MoveAssignExact
<1>10. ASSUME NEW f \in Objects, Destroy(f) PROVE TypeOK' /\ ExactInv'
  BY <1>10, DestroyExact
<1>11. CASE UNCHANGED vars
  <2>1. UNCHANGED <<bits_per_element, heap, memory, objects>>
    BY <1>11 DEF vars
  <2>2. TypeOK'
    BY <2>1, TypesStay DEF IInv, TypeOK, Arrays, Filter, Hashes, Empty
  <2>3. ExactInv'
    BY <2>1, ExactFrame DEF IInv, Known, Lives
  <2> QED
    BY <2>2, <2>3
<1> QED
  BY <1>1, <1>2, <1>3, <1>4, <1>5, <1>6, <1>7, <1>8, <1>9, <1>10, <1>11 DEF Next

-----------------------------------------------------------------------------
(* What count answers.                                                      *)

\* The least of some numbers is one of them and not greater than any.
LEMMA LeastIn ==
  ASSUME NEW s \in SUBSET Nat, s # {}
  PROVE  Min(s) \in s /\ \A x \in s : Min(s) <= x
<1>1. PICK n \in s : \A x \in s : n <= x
  BY LeastElement, Zenon
<1> QED
  BY <1>1, Zenon DEF Min

\* An element has a part in each of its counters.
LEMMA TimesSome ==
  ASSUME NEW vals, NEW i \in 1..k
  PROVE  Times(vals, k, vals[i]) \in Nat /\ Times(vals, k, vals[i]) >= 1
<1>0. k \in Nat
  BY CountingBloomFilterAssumption
<1>1. PICK v : v = vals[i]
  OBVIOUS
<1>2. PICK j \in Nat : j + 1 = i
  <2>1. i - 1 \in Nat /\ (i - 1) + 1 = i
    BY <1>0
  <2> QED
    BY <2>1
<1>3. Times(vals, j, v) \in Nat /\ Times(vals, i, v) = Times(vals, j, v) + 1
  BY <1>1, <1>2, TimesGrow
<1>4. i \in 0..k
  BY <1>0
<1>5. Times(vals, i, v) <= Times(vals, k, v) /\ Times(vals, k, v) \in Nat
  BY <1>0, <1>4, TimesGrow
<1> QED
  BY <1>1, <1>3, <1>5

\* A filter expects at least as much of the counters of an element as it holds of it.
LEMMA ExpectedHolds ==
  ASSUME NEW hs, NEW added \in [Elements -> Nat], NEW e \in Elements, NEW i \in 1..k
  PROVE  /\ Expected(hs, added, Vals(hs, e)[i]) \in Nat
         /\ added[e] <= Expected(hs, added, Vals(hs, e)[i])
<1>1. PICK t \in Nat : t = Times(Vals(hs, e), k, Vals(hs, e)[i]) /\ t >= 1
  BY TimesSome
<1>2. PICK a \in Nat : a = added[e]
  OBVIOUS
<1>3. PICK n \in Nat : n = Expected(hs, added, Vals(hs, e)[i])
  BY ExpectedGrows
<1>4. a * t <= n
  BY <1>1, <1>2, <1>3, ExpectedGrows
<1>5. PICK u \in Nat : t = u + 1
  <2>1. t - 1 \in Nat /\ t = (t - 1) + 1
    BY <1>1
  <2> QED
    BY <2>1
<1>6. a * t = a * u + a /\ a * u \in Nat
  BY <1>5
<1>7. a <= n
  BY <1>4, <1>6
<1> QED
  BY <1>2, <1>3, <1>7

\* The least that is expected of a counter of e.
Least(hs, added, e) == Min({Expected(hs, added, Vals(hs, e)[i]) : i \in 1..k})

\* What has and count find in a filter of exact counters.
LEMMA CountsOf ==
  ASSUME bits_per_element \in {2, 4, 8}, NEW bytes \in Bytes, NEW hs,
         NEW added \in [Elements -> Nat], NEW e \in Elements,
         Exact(bits_per_element, bytes, hs, added)
  PROVE  /\ added[e] > 0 => has(bytes, hs, e)
         /\ count(bytes, hs, e) >= added[e]
         /\ bits_per_element # 2 => count(bytes, hs, e) = Least(hs, added, e)
<1> DEFINE C(i) == Counter(bytes, Vals(hs, e)[i])
           E(i) == Expected(hs, added, Vals(hs, e)[i])
           Cs == {C(i) : i \in 1..k}
           Es == {E(i) : i \in 1..k}
<1>0. k \in Nat \ {0} /\ 1 \in 1..k
  BY CountingBloomFilterAssumption
<1>1. ASSUME NEW i \in 1..k
      PROVE  /\ C(i) \in 0..15 /\ E(i) \in Nat /\ added[e] <= E(i) /\ E(i) <= C(i)
             /\ E(i) <= 15
             /\ bits_per_element # 2 => C(i) = E(i)
  <2>1. PICK v \in 0..m-1 : v = Vals(hs, e)[i]
    BY ValsTyped DEF Exact
  <2>2. /\ Field(bits_per_element, bytes, v) = E(i)
        /\ E(i) <= LimitOf(bits_per_element)
    BY <2>1 DEF Exact
  <2>3. E(i) \in Nat /\ added[e] <= E(i)
    BY ExpectedHolds
  <2>4. /\ C(i) \in 0..15
        /\ bits_per_element = 2 => C(i) >= Field(bits_per_element, bytes, v)
        /\ bits_per_element # 2 => \/ C(i) = Field(bits_per_element, bytes, v)
                                   \/ Field(bits_per_element, bytes, v) > 15
    BY <2>1, CounterOf
  <2> HIDE DEF C, E
  <2>5. LimitOf(bits_per_element) <= 15
    BY DEF LimitOf
  <2>6. E(i) <= 15
    <3>1. LimitOf(bits_per_element) \in Nat
      BY DEF LimitOf
    <3> QED
      BY <2>2, <2>3, <2>5, <3>1
  <2> QED
    BY <2>2, <2>3, <2>4, <2>6
<1>2. count(bytes, hs, e) = Min({15} \cup Cs)
  BY DEF count
<1>3. has(bytes, hs, e) <=> \A i \in 1..k : C(i) # 0
  BY DEF has
<1>4. added[e] \in Nat
  OBVIOUS
<1> HIDE DEF C, E
<1>5. /\ {15} \cup Cs \in SUBSET Nat /\ {15} \cup Cs # {}
      /\ Es \in SUBSET Nat /\ Es # {}
  BY <1>0, <1>1
<1>6. /\ Min({15} \cup Cs) \in {15} \cup Cs /\ \A x \in {15} \cup Cs : Min({15} \cup Cs) <= x
      /\ Min(Es) \in Es /\ \A x \in Es : Min(Es) <= x
  <2> HIDE DEF Cs, Es
  <2> QED
    BY <1>5, LeastIn
<1>7. added[e] > 0 => has(bytes, hs, e)
  BY <1>1, <1>3, <1>4
<1>8. count(bytes, hs, e) >= added[e]
  <2>1. added[e] <= 15
    BY <1>0, <1>1, <1>4
  <2>2. \A x \in {15} \cup Cs : x \in Nat /\ added[e] <= x
    BY <1>1, <1>4, <2>1
  <2> HIDE DEF Cs, Es
  <2> QED
    BY <1>2, <1>4, <1>6, <2>2
<1>9. ASSUME bits_per_element # 2 PROVE count(bytes, hs, e) = Min(Es)
  <2>1. Cs = Es /\ \A x \in Es : x <= 15
    BY <1>1, <1>9
  <2> HIDE DEF Cs, Es
  <2>2. PICK n \in Nat : n = Min({15} \cup Cs)
    BY <1>5, <1>6
  <2>3. PICK l \in Nat : l = Min(Es)
    BY <1>5, <1>6
  <2>4. n <= l /\ l <= 15
    BY <1>6, <2>1, <2>2, <2>3
  <2>5. l <= n
    BY <1>6, <2>1, <2>2, <2>3, <2>4
  <2> QED
    BY <1>2, <2>2, <2>3, <2>4, <2>5
<1> QED
  BY <1>7, <1>8, <1>9, Zenon DEF E, Least

-----------------------------------------------------------------------------
\* Objects and arrays stay of their types: no constructor fails to find an array, no
\* byte leaves its range, and no filter holds an element less than zero times.
THEOREM TypeAlwaysOK == Spec => []TypeOK
<1>1. IInv => TypeOK
  BY DEF IInv
<1> QED
  BY <1>1, InitExact, ExactStep, PTL DEF Spec

\* Each counter of a filter that is not mixed holds exactly what the elements in the
\* filter amount to, for every number of counters, hash functions, elements and objects,
\* and for every width.  A union of counters of two bits mixes a filter, for the code gets
\* it wrong, unless all counters but the first of each byte are zero.
THEOREM CountersAlwaysExact == Spec => []CountersExact
<1>1. IInv => CountersExact
  <2> SUFFICES ASSUME IInv, NEW f \in Objects, Known(f), NEW v \in 0..m-1
               PROVE  (memory[objects[f].bf][Bucket(v)] \div Shift(Part(v)))
                          % (2 ^ bits_per_element)
                        = Expected(objects[f].hash_functions, objects[f].added, v)
    BY DEF CountersExact
  <2>1. PICK bytes : bytes = memory[objects[f].bf]
    OBVIOUS
  <2>2. Field(bits_per_element, bytes, v)
          = Expected(objects[f].hash_functions, objects[f].added, v)
    BY <2>1, KnownTyped DEF Exact
  <2>3. Field(bits_per_element, bytes, v)
          = (bytes[Bucket(v)] \div Shift(Part(v))) % (2 ^ bits_per_element)
    BY FieldIs, Zenon DEF ByteField, One, Shift
  <2> QED
    BY <2>1, <2>2, <2>3, Zenon
<1> QED
  BY <1>1, InitExact, ExactStep, PTL DEF Spec

\* No element in a filter that is not mixed is denied, none is counted less often than
\* it is there, and with counters of four bits or more none is counted more often than the
\* elements that share its counters make it.  Unions of counters of two bits are excepted
\* as above.
THEOREM CountsAlwaysKept == Spec => []CountsKept
<1>1. IInv => CountsKept
  <2> SUFFICES ASSUME IInv, NEW f \in Objects, Known(f), NEW e \in Elements
               PROVE  LET o == objects[f]
                          n == count(memory[o.bf], o.hash_functions, e)
                          least == Min({Expected(o.hash_functions, o.added,
                                                 Vals(o.hash_functions, e)[i]) : i \in 1..k})
                      IN  /\ o.added[e] > 0 => has(memory[o.bf], o.hash_functions, e)
                          /\ n >= o.added[e]
                          /\ bits_per_element # 2 => n = least
    BY DEF CountsKept
  <2>1. PICK bytes : bytes = memory[objects[f].bf]
    OBVIOUS
  <2>2. PICK hs : hs = objects[f].hash_functions
    OBVIOUS
  <2>3. PICK added : added = objects[f].added
    OBVIOUS
  <2>4. /\ bits_per_element \in {2, 4, 8} /\ bytes \in Bytes
        /\ added \in [Elements -> Nat] /\ Exact(bits_per_element, bytes, hs, added)
    BY <2>1, <2>2, <2>3, KnownTyped
  <2>5. /\ added[e] > 0 => has(bytes, hs, e)
        /\ count(bytes, hs, e) >= added[e]
        /\ bits_per_element # 2 => count(bytes, hs, e) = Least(hs, added, e)
    BY <2>4, CountsOf
  <2> QED
    BY <2>1, <2>2, <2>3, <2>5, Zenon DEF Least
<1> QED
  BY <1>1, InitExact, ExactStep, PTL DEF Spec
==============================================================================

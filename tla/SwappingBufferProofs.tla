------------------------ MODULE SwappingBufferProofs ------------------------
(* Theorems about a SwappingBuffer and its readers, for every threshold and *)
(* every number and size of chunks.                                         *)
EXTENDS SwappingBufferInvariants, FiniteSetTheorems, SequenceTheorems,
        WellFoundedInduction, TLAPS

-----------------------------------------------------------------------------
(* Lists.                                                                  *)

\* A sequence is a list of its elements.
LEMMA ListOfElements ==
  ASSUME NEW S, NEW s \in Seq(S)
  PROVE  IsList(s) /\ Elements(s) \subseteq S
  BY DEF IsList, Elements

\* The empty list has no elements.
LEMMA EmptyList == IsList(<<>>) /\ Elements(<<>>) = {} /\ Len(<<>>) = 0
  BY DEF IsList, Elements

\* What push_back does to a queue: one element more, at its end.
LEMMA AppendList ==
  ASSUME NEW s, IsList(s), NEW x
  PROVE  /\ IsList(Append(s, x))
         /\ Elements(Append(s, x)) = Elements(s) \cup {x}
         /\ Len(s) \in Nat /\ Len(Append(s, x)) = Len(s) + 1
         /\ \A i \in 1..Len(s) : Append(s, x)[i] = s[i]
         /\ Append(s, x)[Len(s) + 1] = x
<1> DEFINE T == Elements(s) \cup {x}
<1>1. s \in Seq(T) /\ x \in T
  BY DEF IsList
<1>2. /\ Append(s, x) \in Seq(T)
      /\ Len(s) \in Nat /\ Len(Append(s, x)) = Len(s) + 1
      /\ \A i \in 1..Len(s) : Append(s, x)[i] = s[i]
      /\ Append(s, x)[Len(s) + 1] = x
  <2> HIDE DEF T
  <2> QED
    BY <1>1, AppendProperties
<1>3. Elements(Append(s, x)) = T
  <2> DEFINE a == Append(s, x)
             n == Len(s)
  <2>1. /\ n \in Nat /\ Len(a) = n + 1 /\ a[n + 1] = x
        /\ \A i \in 1..n : a[i] = s[i]
    BY <1>2
  <2> HIDE DEF a, n
  <2>2. Elements(a) = {a[i] : i \in 1..(n + 1)}
    BY <2>1 DEF Elements
  <2>3. Elements(s) = {s[i] : i \in 1..n}
    BY DEF Elements, n
  <2>4. {a[i] : i \in 1..(n + 1)} = {s[i] : i \in 1..n} \cup {x}
    BY <2>1
  <2> QED
    BY <2>2, <2>3, <2>4 DEF a
<1> QED
  BY <1>2, <1>3 DEF IsList

\* What pop_front does to a queue: its first element goes, the others move up.
LEMMA TailList ==
  ASSUME NEW s, IsList(s), s # <<>>
  PROVE  /\ IsList(Tail(s))
         /\ Head(s) = s[1] /\ Head(s) \in Elements(s)
         /\ Elements(Tail(s)) \subseteq Elements(s)
         /\ Elements(s) \subseteq Elements(Tail(s)) \cup {Head(s)}
         /\ Len(s) \in Nat /\ Len(s) >= 1
         /\ Len(Tail(s)) \in Nat /\ Len(Tail(s)) = Len(s) - 1
         /\ \A i \in 1..Len(Tail(s)) : i + 1 \in 1..Len(s) /\ Tail(s)[i] = s[i + 1]
<1> DEFINE T == Elements(s)
<1>1. s \in Seq(T)
  BY DEF IsList
<1>2. /\ Tail(s) \in Seq(T) /\ Len(s) \in Nat /\ Len(s) >= 1
      /\ Len(Tail(s)) = Len(s) - 1
      /\ \A i \in 1..Len(Tail(s)) : Tail(s)[i] = s[i + 1]
      /\ Head(s) = s[1]
  <2> HIDE DEF T
  <2>1. Len(s) \in Nat /\ Len(s) # 0
    BY <1>1, EmptySeq, LenProperties
  <2> QED
    BY <1>1, <2>1, HeadTailProperties
<1>3. \A i \in 1..Len(Tail(s)) : i + 1 \in 1..Len(s)
  BY <1>2
<1>4. \A i \in 1..Len(s) : i = 1 \/ (i - 1 \in 1..Len(Tail(s)) /\ Tail(s)[i - 1] = s[i])
  BY <1>2
<1>5. IsList(Tail(s)) /\ Elements(Tail(s)) \subseteq Elements(s)
  BY <1>2, ListOfElements
<1>6. Elements(s) \subseteq Elements(Tail(s)) \cup {Head(s)}
  <2> SUFFICES ASSUME NEW i \in 1..Len(s)
               PROVE  s[i] \in Elements(Tail(s)) \cup {Head(s)}
    BY Zenon DEF Elements
  <2> QED
    BY <1>2, <1>4 DEF Elements
<1>7. 1 \in 1..Len(s)
  BY <1>2
<1>8. Head(s) \in Elements(s)
  BY <1>2, <1>7 DEF Elements
<1> HIDE DEF T
<1> QED
  BY <1>2, <1>3, <1>5, <1>6, <1>8

OperationOf(c) == [task |-> "operation", call |-> c]

OperationsOf(l) == {OperationOf(c) : c \in Elements(l)}

PostedAt(s, l, i) == (s \o Tasks(l))[Len(s) + i]

\* A call of next_chunk posts one task.
LEMMA AskPosts ==
  ASSUME Ask
  PROVE  \E t : t.task \in {"answer", "of_file", "of_tmp_file", "cached"} /\ io_' = Append(io_, t)
BY SMTT(60) DEF Ask, AskStream, CacheNext, PostedAnswer, Posted

\* What is posted when a list of calls is: the operations of these calls.
LEMMA PostList ==
  ASSUME NEW s, IsList(s), NEW l, IsList(l)
  PROVE  /\ IsList(s \o Tasks(l))
         /\ Len(s) \in Nat /\ Len(l) \in Nat /\ Len(s \o Tasks(l)) = Len(s) + Len(l)
         /\ \A i \in 1..Len(s) : (s \o Tasks(l))[i] = s[i]
         /\ \A i \in 1..Len(l) : PostedAt(s, l, i) = OperationOf(l[i])
         /\ Elements(s \o Tasks(l)) =
              Elements(s) \cup OperationsOf(l)
<1> DEFINE O == OperationsOf(l)
           T == Elements(s) \cup O
           m == Len(s)
           n == Len(l)
<1>1. m \in Nat /\ n \in Nat /\ DOMAIN l = 1..n
  BY DEF IsList
<1>2. Tasks(l) = [i \in 1..n |-> OperationOf(l[i])]
  BY <1>1 DEF Tasks, OperationOf
<1>3. \A i \in 1..n : l[i] \in Elements(l)
  BY DEF Elements
<1>4. Tasks(l) \in Seq(O) /\ Len(Tasks(l)) = n
  <2>1. Tasks(l) \in [1..n -> O]
    <3> HIDE DEF n
    <3> QED
      BY <1>2, <1>3 DEF OperationsOf
  <2> HIDE DEF O, n
  <2>2. Tasks(l) \in Seq(O)
    BY <1>1, <2>1, SeqDef
  <2> QED
    BY <1>1, <2>1, <2>2
<1>5. s \in Seq(T) /\ Tasks(l) \in Seq(T)
  BY <1>4 DEF IsList
<1>6. /\ s \o Tasks(l) \in Seq(T)
      /\ Len(s \o Tasks(l)) = m + n
      /\ \A i \in 1..m : (s \o Tasks(l))[i] = s[i]
      /\ \A i \in 1..n : (s \o Tasks(l))[m + i] = OperationOf(l[i])
  <2>1. \A i \in 1..(m + n) : (s \o Tasks(l))[i] = IF i <= m THEN s[i] ELSE Tasks(l)[i - m]
    <3> HIDE DEF T, O
    <3> QED
      BY <1>1, <1>4, <1>5, ConcatProperties
  <2>2. s \o Tasks(l) \in Seq(T) /\ Len(s \o Tasks(l)) = m + n
    <3> HIDE DEF T, O
    <3>1. Len(s \o Tasks(l)) = Len(s) + Len(Tasks(l))
      BY <1>5, ConcatProperties, Zenon
    <3> QED
      BY <1>4, <1>5, <3>1, ConcatProperties, Zenon
  <2> HIDE DEF m, n, T
  <2> QED
    BY <1>1, <1>2, <2>1, <2>2
<1>7. Elements(s \o Tasks(l)) = T
  <2> DEFINE a == s \o Tasks(l)
  <2>1. /\ Len(a) = m + n
        /\ \A i \in 1..m : a[i] = s[i]
        /\ \A i \in 1..n : a[m + i] = OperationOf(l[i])
    BY <1>6
  <2>2. \A i \in 1..(m + n) : i \in 1..m \/ (i - m \in 1..n /\ i = m + (i - m))
    BY <1>1
  <2>2a. (\A i \in 1..m : i \in 1..(m + n)) /\ \A i \in 1..n : m + i \in 1..(m + n)
    BY <1>1
  <2>3. Elements(s) = {s[i] : i \in 1..m} /\ Elements(a) = {a[i] : i \in 1..(m + n)}
    BY <2>1, Zenon DEF Elements, m
  <2>4. O = {OperationOf(l[i]) : i \in 1..n}
    BY DEF Elements, OperationsOf, O, n
  <2> HIDE DEF a, m, n
  <2>5. {a[i] : i \in 1..(m + n)} = {s[i] : i \in 1..m} \cup {OperationOf(l[i]) : i \in 1..n}
    BY <2>1, <2>2, <2>2a
  <2> QED
    BY <2>3, <2>4, <2>5 DEF a
<1> QED
  BY <1>1, <1>6, <1>7 DEF IsList, PostedAt

\* A list without repetitions that is given a new element.
LEMMA OnceAppend ==
  ASSUME NEW s, IsList(s), IsOnce(s), NEW c, c \notin Elements(s)
  PROVE  IsOnce(Append(s, c))
<1> DEFINE a == Append(s, c)
           n == Len(s)
<1>1. /\ n \in Nat /\ Len(a) = n + 1 /\ a[n + 1] = c
      /\ \A i \in 1..n : a[i] = s[i] /\ s[i] # c
  BY AppendList DEF Elements
<1>2. \A i \in 1..(n + 1) : i \in 1..n \/ i = n + 1
  BY <1>1
<1>3. \A i, j \in 1..n : s[i] = s[j] => i = j
  BY DEF IsOnce
<1> HIDE DEF a, n
<1>4. \A i, j \in 1..(n + 1) : a[i] = a[j] => i = j
  BY <1>1, <1>2, <1>3
<1> QED
  BY <1>1, <1>4 DEF IsOnce, a

\* The requests when one is added for a call that has none.
LEMMA FsAppend ==
  ASSUME NEW s, IsList(s), FsOnce(s), NEW r, r.call \notin FsCalls(s)
  PROVE  FsOnce(Append(s, r)) /\ FsCalls(Append(s, r)) = FsCalls(s) \cup {r.call}
<1> DEFINE a == Append(s, r)
           n == Len(s)
<1>1. /\ n \in Nat /\ Len(a) = n + 1 /\ a[n + 1] = r
      /\ \A i \in 1..n : a[i] = s[i] /\ s[i].call # r.call
  BY AppendList DEF Elements, FsCalls
<1>2. \A i \in 1..(n + 1) : i \in 1..n \/ i = n + 1
  BY <1>1
<1>3. \A i, j \in 1..n : s[i].call = s[j].call => i = j
  BY DEF FsOnce
<1>4. Elements(a) = Elements(s) \cup {r}
  BY AppendList
<1> HIDE DEF a, n
<1>5. \A i, j \in 1..(n + 1) : a[i].call = a[j].call => i = j
  BY <1>1, <1>2, <1>3
<1>6. FsCalls(a) = FsCalls(s) \cup {r.call}
  BY <1>4 DEF FsCalls
<1> QED
  BY <1>1, <1>5, <1>6 DEF FsOnce, a

\* The requests when the first has been performed.
LEMMA FsTail ==
  ASSUME NEW s, IsList(s), FsOnce(s), s # <<>>
  PROVE  /\ FsOnce(Tail(s)) /\ Head(s).call \in FsCalls(s)
         /\ FsCalls(Tail(s)) = FsCalls(s) \ {Head(s).call}
<1> DEFINE a == Tail(s)
           n == Len(a)
           h == Head(s)
<1>1. /\ n \in Nat /\ Len(s) = n + 1 /\ h = s[1]
      /\ \A i \in 1..n : i + 1 \in 1..Len(s) /\ a[i] = s[i + 1]
      /\ Elements(a) \subseteq Elements(s) /\ Elements(s) \subseteq Elements(a) \cup {h}
      /\ h \in Elements(s)
  BY TailList
<1>2. \A i, j \in 1..Len(s) : s[i].call = s[j].call => i = j
  BY DEF FsOnce
<1>2a. Elements(a) = {a[i] : i \in 1..n}
  BY DEF Elements
<1> HIDE DEF a, n, h
<1>3. \A i, j \in 1..n : a[i].call = a[j].call => i = j
  <2> SUFFICES ASSUME NEW i \in 1..n, NEW j \in 1..n, a[i].call = a[j].call
               PROVE  i = j
    OBVIOUS
  <2>1. i + 1 = j + 1
    BY <1>1, <1>2
  <2> QED
    BY <1>1, <2>1
<1>4. \A i \in 1..n : a[i].call # h.call
  <2> SUFFICES ASSUME NEW i \in 1..n, a[i].call = h.call
               PROVE  FALSE
    OBVIOUS
  <2>1. 1 \in 1..Len(s)
    BY <1>1
  <2>2. i + 1 = 1
    BY <1>1, <1>2, <2>1
  <2> QED
    BY <1>1, <2>2
<1>5. FsCalls(a) = FsCalls(s) \ {h.call}
  BY <1>1, <1>2a, <1>4 DEF FsCalls
<1>6. h.call \in FsCalls(s)
  BY <1>1 DEF FsCalls
<1> QED
  BY <1>3, <1>5, <1>6 DEF FsOnce, a, n, h

\* The tasks when one is posted, for a call that has none or for no call.
LEMMA IoAppend ==
  ASSUME NEW s, IsList(s), IoOnce(s), NEW t, Own(t) => t.call \notin IoCalls(s)
  PROVE  /\ IoOnce(Append(s, t))
         /\ IoCalls(Append(s, t)) = IoCalls(s) \cup (IF Own(t) THEN {t.call} ELSE {})
<1> DEFINE a == Append(s, t)
           n == Len(s)
<1>1. /\ n \in Nat /\ Len(a) = n + 1 /\ a[n + 1] = t
      /\ \A i \in 1..n : a[i] = s[i] /\ (Own(t) /\ Own(s[i]) => s[i].call # t.call)
  BY AppendList DEF Elements, IoCalls
<1>2. \A i \in 1..(n + 1) : i \in 1..n \/ i = n + 1
  BY <1>1
<1>3. \A i, j \in 1..n : Own(s[i]) /\ Own(s[j]) /\ s[i].call = s[j].call => i = j
  BY DEF IoOnce
<1>4. Elements(a) = Elements(s) \cup {t}
  BY AppendList
<1> HIDE DEF a, n
<1>5. \A i, j \in 1..(n + 1) : Own(a[i]) /\ Own(a[j]) /\ a[i].call = a[j].call => i = j
  BY <1>1, <1>2, <1>3
<1>6. IoCalls(a) = IoCalls(s) \cup (IF Own(t) THEN {t.call} ELSE {})
  BY <1>4 DEF IoCalls
<1> QED
  BY <1>1, <1>5, <1>6 DEF IoOnce, a

\* The tasks when the first is run.
LEMMA IoTail ==
  ASSUME NEW s, IsList(s), IoOnce(s), s # <<>>
  PROVE  /\ IoOnce(Tail(s))
         /\ Own(Head(s)) => /\ Head(s).call \in IoCalls(s)
                            /\ IoCalls(Tail(s)) = IoCalls(s) \ {Head(s).call}
         /\ ~Own(Head(s)) => IoCalls(Tail(s)) = IoCalls(s)
<1> DEFINE a == Tail(s)
           n == Len(a)
           h == Head(s)
<1>1. /\ n \in Nat /\ Len(s) = n + 1 /\ h = s[1]
      /\ \A i \in 1..n : i + 1 \in 1..Len(s) /\ a[i] = s[i + 1]
      /\ Elements(a) \subseteq Elements(s) /\ Elements(s) \subseteq Elements(a) \cup {h}
      /\ h \in Elements(s)
  BY TailList
<1>2. \A i, j \in 1..Len(s) : Own(s[i]) /\ Own(s[j]) /\ s[i].call = s[j].call => i = j
  BY DEF IoOnce
<1>2a. Elements(a) = {a[i] : i \in 1..n}
  BY DEF Elements
<1> HIDE DEF a, n, h
<1>3. \A i, j \in 1..n : Own(a[i]) /\ Own(a[j]) /\ a[i].call = a[j].call => i = j
  <2> SUFFICES ASSUME NEW i \in 1..n, NEW j \in 1..n, Own(a[i]), Own(a[j]),
                      a[i].call = a[j].call
               PROVE  i = j
    OBVIOUS
  <2>1. i + 1 = j + 1
    BY <1>1, <1>2
  <2> QED
    BY <1>1, <2>1
<1>4. \A i \in 1..n : Own(h) /\ Own(a[i]) => a[i].call # h.call
  <2> SUFFICES ASSUME NEW i \in 1..n, Own(h), Own(a[i]), a[i].call = h.call
               PROVE  FALSE
    OBVIOUS
  <2>1. 1 \in 1..Len(s)
    BY <1>1
  <2>2. i + 1 = 1
    BY <1>1, <1>2, <2>1
  <2> QED
    BY <1>1, <2>2
<1>5. ASSUME Own(h)
      PROVE  h.call \in IoCalls(s) /\ IoCalls(a) = IoCalls(s) \ {h.call}
  BY <1>1, <1>2a, <1>4, <1>5 DEF IoCalls
<1>6. ASSUME ~Own(h)
      PROVE  IoCalls(a) = IoCalls(s)
  BY <1>1, <1>6 DEF IoCalls
<1> QED
  BY <1>3, <1>5, <1>6 DEF IoOnce, a, n, h

\* The tasks when the postponed operations are posted: performPendingOperations.
LEMMA IoPost ==
  ASSUME NEW s, IsList(s), IoOnce(s), NEW l, IsList(l), IsOnce(l),
         Elements(l) \cap IoCalls(s) = {}
  PROVE  IoOnce(s \o Tasks(l)) /\ IoCalls(s \o Tasks(l)) = IoCalls(s) \cup Elements(l)
<1> DEFINE a == s \o Tasks(l)
           m == Len(s)
           n == Len(l)
<1>1. /\ m \in Nat /\ n \in Nat /\ Len(a) = m + n
      /\ \A i \in 1..m : a[i] = s[i]
      /\ \A i \in 1..n : a[m + i] = OperationOf(l[i])
      /\ Elements(a) = Elements(s) \cup OperationsOf(l)
  <2>1. m \in Nat /\ n \in Nat
    BY PostList
  <2>2. Len(a) = m + n
    BY PostList
  <2>3. \A i \in 1..m : a[i] = s[i]
    BY PostList
  <2>4. \A i \in 1..n : a[m + i] = OperationOf(l[i])
    <3>1. \A i \in 1..Len(l) : PostedAt(s, l, i) = OperationOf(l[i])
      BY PostList
    <3> QED
      BY <3>1 DEF PostedAt
  <2>5. Elements(a) = Elements(s) \cup OperationsOf(l)
    BY PostList
  <2> QED
    BY <2>1, <2>2, <2>3, <2>4, <2>5
<1>2. \A c : Own(OperationOf(c)) /\ OperationOf(c).call = c
  BY DEF Own, OperationOf
<1>3. \A i \in 1..(m + n) : i \in 1..m \/ (i - m \in 1..n /\ i = m + (i - m))
  BY <1>1
<1>4. \A i, j \in 1..m : Own(s[i]) /\ Own(s[j]) /\ s[i].call = s[j].call => i = j
  BY DEF IoOnce
<1>5. \A i, j \in 1..n : l[i] = l[j] => i = j
  BY DEF IsOnce
<1>6. \A i \in 1..m, j \in 1..n : Own(s[i]) => s[i].call # l[j]
  BY DEF IoCalls, Elements
<1> HIDE DEF a, m, n
<1>7. \A i, j \in 1..(m + n) : Own(a[i]) /\ Own(a[j]) /\ a[i].call = a[j].call => i = j
  <2> SUFFICES ASSUME NEW i \in 1..(m + n), NEW j \in 1..(m + n), Own(a[i]), Own(a[j]),
                      a[i].call = a[j].call
               PROVE  i = j
    OBVIOUS
  <2>1. i \in 1..m \/ (i - m \in 1..n /\ a[i].call = l[i - m])
    BY <1>1, <1>2, <1>3
  <2>2. j \in 1..m \/ (j - m \in 1..n /\ a[j].call = l[j - m])
    BY <1>1, <1>2, <1>3
  <2>3. CASE i \in 1..m /\ j \in 1..m
    BY <1>1, <1>4, <2>3
  <2>4. CASE i \in 1..m /\ j \notin 1..m
    BY <1>1, <1>6, <2>2, <2>4
  <2>5. CASE i \notin 1..m /\ j \in 1..m
    BY <1>1, <1>6, <2>1, <2>5
  <2>6. CASE i \notin 1..m /\ j \notin 1..m
    <3>1. i - m = j - m
      BY <1>5, <2>1, <2>2, <2>6
    <3> QED
      BY <1>1, <3>1
  <2> QED
    BY <2>3, <2>4, <2>5, <2>6
<1>8. IoCalls(a) = IoCalls(s) \cup Elements(l)
  BY <1>1, <1>2 DEF IoCalls, OperationsOf
<1> QED
  BY <1>1, <1>7, <1>8 DEF IoOnce, a

-----------------------------------------------------------------------------
(* Each call waits in one place.  What the kinds of steps do to the places. *)

\* The calls and answers of a step that makes no call and answers at most c.
AnswersOnly(c) ==
  /\ UNCHANGED calls
  /\ DOMAIN answers' = DOMAIN answers
  /\ \A d \in Ids : d # c => answers'[d] = answers[d]

NoCall == UNCHANGED <<calls, answers>>

\* Without a call or an answer nothing changes for the calls that wait.
LEMMA OldUnanswered ==
  ASSUME NoCall
  PROVE  Unanswered' = Unanswered /\ (DOMAIN answers)' = DOMAIN answers /\ Len(calls)' = Len(calls)
BY DEF NoCall, Unanswered

\* The task of a call has been run, and the call may have been answered.
LEMMA Finished ==
  ASSUME TokenInv, io_ # <<>>, Own(Head(io_)), io_' = Tail(io_),
         UNCHANGED <<callbacks, fs>>, AnswersOnly(Head(io_).call)
  PROVE  TokenInv'
<1> DEFINE h == Head(io_)
<1>1. /\ IsList(Tail(io_)) /\ IoOnce(Tail(io_)) /\ h.call \in IoCalls(io_)
      /\ IoCalls(Tail(io_)) = IoCalls(io_) \ {h.call}
  BY TailList, IoTail DEF TokenInv, Lists
<1>2. Lists'
  BY <1>1 DEF TokenInv, Lists, AnswersOnly
<1>3. Unanswered \ {h.call} \subseteq Unanswered'
  <2>1. \A c \in 1..Len(calls) : c \in Ids
    BY SwappingBufferAssumption DEF TokenInv, Lists, Ids
  <2> QED
    BY <2>1 DEF Unanswered, AnswersOnly
<1> QED
  BY <1>1, <1>2, <1>3 DEF TokenInv, Outstanding

\* A task that stands for nobody has been run.
LEMMA Dropped ==
  ASSUME TokenInv, io_ # <<>>, io_' = Tail(io_), UNCHANGED <<callbacks, fs>>, NoCall
  PROVE  TokenInv'
<1>1. /\ IsList(Tail(io_)) /\ IoOnce(Tail(io_)) /\ IoCalls(Tail(io_)) \subseteq IoCalls(io_)
  BY TailList, IoTail DEF TokenInv, Lists
<1> QED
  BY <1>1, OldUnanswered DEF TokenInv, Lists, Outstanding, NoCall

\* The task of a call has been run and has submitted the next request of it.
LEMMA Submitted ==
  ASSUME TokenInv, io_ # <<>>, Own(Head(io_)), io_' = Tail(io_),
         NEW r, r.call = Head(io_).call, fs' = Append(fs, r),
         UNCHANGED callbacks, NoCall
  PROVE  TokenInv'
<1> DEFINE h == Head(io_)
<1>1. /\ IsList(Tail(io_)) /\ IoOnce(Tail(io_)) /\ h.call \in IoCalls(io_)
      /\ IoCalls(Tail(io_)) = IoCalls(io_) \ {h.call}
  BY TailList, IoTail DEF TokenInv, Lists
<1>2. IsList(Append(fs, r))
  BY AppendList DEF TokenInv, Lists
<1>3. FsOnce(Append(fs, r)) /\ FsCalls(Append(fs, r)) = FsCalls(fs) \cup {h.call}
  BY <1>1, FsAppend DEF TokenInv, Lists
<1> QED
  BY <1>1, <1>2, <1>3, OldUnanswered DEF TokenInv, Lists, Outstanding, NoCall

\* A task has been run and has posted another one.
LEMMA Reposted ==
  ASSUME TokenInv, io_ # <<>>, NEW t, io_' = Append(Tail(io_), t),
         Own(t) => Own(Head(io_)) /\ t.call = Head(io_).call,
         UNCHANGED <<callbacks, fs>>, NoCall
  PROVE  TokenInv'
<1> DEFINE h == Head(io_)
           q == Tail(io_)
<1>1. /\ IsList(q) /\ IoOnce(q) /\ IoCalls(q) \subseteq IoCalls(io_)
      /\ Own(h) => h.call \in IoCalls(io_) /\ IoCalls(q) = IoCalls(io_) \ {h.call}
  BY TailList, IoTail DEF TokenInv, Lists
<1>2. IsList(Append(q, t))
  BY <1>1, AppendList
<1>3. IoOnce(Append(q, t)) /\ IoCalls(Append(q, t)) = IoCalls(q) \cup (IF Own(t) THEN {t.call} ELSE {})
  BY <1>1, IoAppend
<1>4. IoCalls(io_') \subseteq IoCalls(io_)
  BY <1>1, <1>3
<1> QED
  BY <1>2, <1>3, <1>4, OldUnanswered DEF TokenInv, Lists, Outstanding, NoCall

\* A task that stands for no call of the buffer has been posted.
LEMMA Asked ==
  ASSUME TokenInv, NEW t, ~Own(t), io_' = Append(io_, t),
         UNCHANGED <<callbacks, fs>>, NoCall
  PROVE  TokenInv'
<1>1. IsList(Append(io_, t)) /\ IoOnce(Append(io_, t)) /\ IoCalls(Append(io_, t)) = IoCalls(io_)
  BY AppendList, IoAppend DEF TokenInv, Lists
<1> QED
  BY <1>1, OldUnanswered DEF TokenInv, Lists, Outstanding, NoCall

\* The worker has performed a request and posted its handler.
LEMMA Performed ==
  ASSUME TokenInv, fs # <<>>, NEW t, Own(t), t.call = Head(fs).call,
         fs' = Tail(fs), io_' = Append(io_, t), UNCHANGED callbacks, NoCall
  PROVE  TokenInv'
<1> DEFINE c == Head(fs).call
<1>1. /\ IsList(Tail(fs)) /\ FsOnce(Tail(fs)) /\ c \in FsCalls(fs)
      /\ FsCalls(Tail(fs)) = FsCalls(fs) \ {c}
  BY TailList, FsTail DEF TokenInv, Lists
<1>2. IsList(Append(io_, t))
  BY AppendList DEF TokenInv, Lists
<1>3. IoOnce(Append(io_, t)) /\ IoCalls(Append(io_, t)) = IoCalls(io_) \cup {c}
  BY <1>1, IoAppend DEF TokenInv, Lists
<1> QED
  BY <1>1, <1>2, <1>3, OldUnanswered DEF TokenInv, Lists, Outstanding, NoCall

\* The operations that waited have been posted.
LEMMA PostedAll ==
  ASSUME TokenInv, Post(callbacks), UNCHANGED fs, NoCall
  PROVE  TokenInv'
<1> DEFINE a == io_ \o Tasks(callbacks)
<1>1. IsList(a) /\ IoOnce(a) /\ IoCalls(a) = IoCalls(io_) \cup Elements(callbacks)
  <2>1. Elements(callbacks) \cap IoCalls(io_) = {}
    BY DEF TokenInv
  <2> QED
    BY <2>1, PostList, IoPost DEF TokenInv, Lists
<1>2. IsList(<<>>) /\ Elements(<<>>) = {} /\ IsOnce(<<>>)
  BY EmptyList DEF IsOnce
<1> QED
  BY <1>1, <1>2, OldUnanswered DEF TokenInv, Lists, Outstanding, NoCall, Post

\* A call is made: its number is that of no call before.
NewCall == Len(calls) < MaxCalls /\ \E x : calls' = Append(calls, x)

\* What MayCall adds to the calls.
LEMMA CalledIs ==
  ASSUME Lists, NEW op, NEW size, MayCall(op, size)
  PROVE  NewCall /\ calls'[New] = [op |-> op, size |-> size]
<1> DEFINE x == [op |-> op, size |-> size]
<1>1. calls' = Append(calls, x) /\ Len(calls) < MaxCalls
  BY DEF MayCall
<1>2. IsList(calls)
  BY DEF Lists
<1> HIDE DEF x
<1>3. calls'[New] = x
  BY <1>1, <1>2, AppendList DEF New
<1> QED
  BY <1>1, <1>3 DEF x, NewCall

\* The number of a new call is the next one.
LEMMA Called ==
  ASSUME Lists, NewCall
  PROVE  /\ New \in Ids /\ New > Len(calls) /\ New \notin 1..Len(calls)
         /\ IsList(calls') /\ Len(calls') \in 0..MaxCalls
         /\ 1..Len(calls') = (1..Len(calls)) \cup {New}
         /\ \A c \in 1..Len(calls) : c \in Ids /\ calls'[c] = calls[c]
<1>1. /\ IsList(calls') /\ Len(calls) \in Nat /\ Len(calls') = Len(calls) + 1
      /\ \A c \in 1..Len(calls) : calls'[c] = calls[c]
  BY AppendList DEF Lists, NewCall
<1>2. Len(calls) < MaxCalls /\ MaxCalls \in Nat
  BY SwappingBufferAssumption DEF NewCall
<1> QED
  BY <1>1, <1>2 DEF New, Ids

\* A new call has no answer yet.
LEMMA NewUnanswered ==
  ASSUME Lists, NewCall, UNCHANGED answers, answers[New] = <<>>
  PROVE  Unanswered' = Unanswered \cup {New} /\ New \notin Unanswered
BY Called DEF Unanswered

\* Calls beyond those made have no answers.
Unasked == \A c \in Ids : c > Len(calls) => answers[c] = <<>>

\* A call that is answered at once: the append that fits into memory.
LEMMA CalledAndAnswered ==
  ASSUME TokenInv, NewCall, NEW a, Answer(New, a), UNCHANGED queueVars
  PROVE  TokenInv'
<1>1. Lists'
  BY Called DEF TokenInv, Lists, queueVars, Answer
<1>2. Unanswered \subseteq Unanswered'
  <2> SUFFICES ASSUME NEW c \in Unanswered PROVE c \in Unanswered'
    OBVIOUS
  <2>1. c \in 1..Len(calls) /\ answers[c] = <<>> /\ c # New /\ c \in Ids /\ c \in 1..Len(calls')
    BY Called DEF TokenInv, Unanswered
  <2>2. answers'[c] = answers[c]
    BY <2>1 DEF Answer, TokenInv, Lists
  <2> QED
    BY <2>1, <2>2 DEF Unanswered
<1> QED
  BY <1>1, <1>2 DEF TokenInv, Outstanding, queueVars

\* A call that submits a request at once: the append that starts a swap.
LEMMA CalledAndSubmitted ==
  ASSUME TokenInv, Unasked, NewCall, UNCHANGED answers,
         NEW r, r.call = New, fs' = Append(fs, r), UNCHANGED <<callbacks, io_>>
  PROVE  TokenInv'
<1>1. New \in Ids /\ New > Len(calls)
  BY Called DEF TokenInv
<1>2. Unanswered' = Unanswered \cup {New} /\ New \notin Unanswered
  BY <1>1, NewUnanswered DEF TokenInv, Unasked
<1>3. IsList(Append(fs, r)) /\ FsOnce(Append(fs, r)) /\ FsCalls(Append(fs, r)) = FsCalls(fs) \cup {New}
  BY <1>1, <1>2, AppendList, FsAppend DEF TokenInv, Lists, Outstanding
<1>4. Lists'
  BY <1>3, Called DEF TokenInv, Lists
<1> QED
  BY <1>1, <1>2, <1>3, <1>4 DEF TokenInv, Outstanding

\* A call that waits for its turn, or is posted.
LEMMA CalledAndEnqueued ==
  ASSUME TokenInv, Unasked, NewCall, UNCHANGED answers,
         enqueueAndRun(New), UNCHANGED fs
  PROVE  TokenInv'
<1> DEFINE l == Append(callbacks, New)
           a == io_ \o Tasks(l)
<1>1. New \in Ids /\ New > Len(calls)
  BY Called DEF TokenInv
<1>2. Unanswered' = Unanswered \cup {New} /\ New \notin Unanswered
  BY <1>1, NewUnanswered DEF TokenInv, Unasked
<1>3. IsList(l) /\ IsOnce(l) /\ Elements(l) = Elements(callbacks) \cup {New}
  BY <1>1, <1>2, AppendList, OnceAppend DEF TokenInv, Lists, Outstanding
<1>4. CASE swapping
  <2>1. Lists'
    BY <1>3, <1>4, Called DEF TokenInv, Lists, enqueueAndRun
  <2> QED
    BY <1>1, <1>2, <1>3, <1>4, <2>1 DEF TokenInv, Outstanding, enqueueAndRun
<1>5. CASE ~swapping
  <2>1. IsList(a) /\ IoOnce(a) /\ IoCalls(a) = IoCalls(io_) \cup Elements(l)
    <3>1. Elements(l) \cap IoCalls(io_) = {}
      BY <1>1, <1>2, <1>3 DEF TokenInv, Outstanding
    <3> HIDE DEF l
    <3> QED
      BY <1>3, <3>1, PostList, IoPost DEF TokenInv, Lists
  <2>2. IsList(<<>>) /\ Elements(<<>>) = {} /\ IsOnce(<<>>)
    BY EmptyList DEF IsOnce
  <2>3. io_' = a /\ callbacks' = <<>>
    BY <1>5 DEF enqueueAndRun, Post
  <2>4. Lists'
    BY <2>1, <2>2, <2>3, Called DEF TokenInv, Lists
  <2> HIDE DEF a, l
  <2> QED
    BY <1>1, <1>2, <1>3, <2>1, <2>2, <2>3, <2>4 DEF TokenInv, Outstanding
<1> QED
  BY <1>4, <1>5

-----------------------------------------------------------------------------
(* The calls and their answers, as the kinds of steps change them.         *)

\* The task that is run stands for a call that has no answer yet.
LEMMA HeadOfIo ==
  ASSUME TokenInv, io_ # <<>>
  PROVE  /\ Head(io_) \in Elements(io_)
         /\ Own(Head(io_)) => /\ Turn \in 1..Len(calls) /\ Turn \in Ids
                              /\ answers[Turn] = <<>>
<1>1. Head(io_) \in Elements(io_)
  BY TailList DEF TokenInv, Lists
<1>2. ASSUME Own(Head(io_))
      PROVE  Turn \in Unanswered
  <2>1. Turn \in IoCalls(io_)
    BY <1>2, IoTail DEF TokenInv, Lists, Turn
  <2> QED
    BY <2>1 DEF TokenInv, Outstanding
<1>3. \A c \in 1..Len(calls) : c \in Ids
  BY SwappingBufferAssumption DEF TokenInv, Lists, Ids
<1> QED
  BY <1>1, <1>2, <1>3 DEF Unanswered

\* Only calls that were made have answers.
LEMMA UnaskedByAnswers ==
  ASSUME AnswerInv, TokenInv
  PROVE  Unasked
<1>1. Len(calls) \in Nat /\ \A c \in Ids : c \in Int
  BY DEF TokenInv, Lists, Ids
<1> QED
  BY <1>1 DEF AnswerInv, Unasked

\* A task answers its call, and that is the end of it.
LEMMA FinishedStep ==
  ASSUME TokenInv, RequestInv, AnswerInv, io_ # <<>>, Own(Head(io_)), io_' = Tail(io_),
         UNCHANGED <<callbacks, fs, calls>>, NEW a, Answer(Turn, a)
  PROVE  CallInv'
<1>1. Head(io_) \in Elements(io_) /\ Turn \in 1..Len(calls) /\ Turn \in Ids
      /\ answers[Turn] = <<>>
  BY HeadOfIo
<1>2. DOMAIN answers' = DOMAIN answers /\ answers'[Turn] = <<a>>
      /\ \A c \in Ids : c # Turn => answers'[c] = answers[c]
  BY <1>1 DEF Answer, TokenInv, Lists
<1>3. TokenInv'
  BY <1>2, Finished DEF AnswersOnly, Turn
<1>4. RequestInv'
  <2>1. Elements(Tail(io_)) \subseteq Elements(io_)
    BY TailList DEF TokenInv, Lists
  <2> QED
    BY <2>1 DEF RequestInv, SaveRequest
<1>5. AnswerInv'
  <2>1. Len(<<a>>) = 1 /\ Turn <= Len(calls)
    BY <1>1 DEF TokenInv, Lists
  <2> QED
    BY <1>2, <2>1 DEF AnswerInv
<1> QED
  BY <1>3, <1>4, <1>5 DEF CallInv

\* An operation that runs stands for its call.
LEMMA RunOwn ==
  ASSUME NEW op, Running(op)
  PROVE  io_ # <<>> /\ Own(Head(io_)) /\ Head(io_).task = "operation"
BY DEF Running, Own

\* A handler that runs stands for its call.
LEMMA HandlingOwn ==
  ASSUME NEW step, Handling(step)
  PROVE  io_ # <<>> /\ Own(Head(io_)) /\ Head(io_).task = "handler" /\ io_' = Tail(io_)
BY DEF Handling, Own

\* A task submits the next request of its call.
LEMMA SubmittedStep ==
  ASSUME TokenInv, RequestInv, AnswerInv, io_ # <<>>, Own(Head(io_)), io_' = Tail(io_),
         UNCHANGED <<callbacks, calls, answers>>,
         NEW r, r.call = Turn, SaveRequest(r), Submit(r)
  PROVE  CallInv'
<1>1. TokenInv'
  BY Submitted DEF Turn, Submit, NoCall
<1>2. RequestInv'
  <2>1. /\ Elements(Tail(io_)) \subseteq Elements(io_)
        /\ Elements(Append(fs, r)) = Elements(fs) \cup {r}
    BY TailList, AppendList DEF TokenInv, Lists
  <2> QED
    BY <2>1 DEF RequestInv, SaveRequest, Submit
<1> QED
  BY <1>1, <1>2 DEF CallInv, AnswerInv

\* The worker turns a request into its handler.
LEMMA PerformedStep ==
  ASSUME TokenInv, RequestInv, AnswerInv, fs # <<>>, fs' = Tail(fs),
         NEW code, NEW data, Handler(Head(fs), code, data),
         UNCHANGED <<callbacks, calls, answers>>
  PROVE  CallInv'
<1> DEFINE r == Head(fs)
           t == [task |-> "handler", call |-> r.call, request |-> r, ec |-> code, data |-> data]
<1>1. Own(t) /\ t.task = "handler" /\ t.call = r.call /\ t.request = r
  BY DEF Own
<1>2. io_' = Append(io_, t)
  BY DEF Handler
<1> HIDE DEF t
<1>3. TokenInv'
  BY <1>1, <1>2, Performed DEF NoCall
<1>4. RequestInv'
  <2>1. /\ Elements(Tail(fs)) \subseteq Elements(fs) /\ r \in Elements(fs)
        /\ Elements(Append(io_, t)) = Elements(io_) \cup {t}
    BY TailList, AppendList DEF TokenInv, Lists
  <2> HIDE DEF r
  <2> QED
    BY <1>1, <1>2, <2>1 DEF RequestInv, SaveRequest
<1> QED
  BY <1>3, <1>4 DEF CallInv, AnswerInv

\* A task posts another one for its call, or for none.
LEMMA RepostedStep ==
  ASSUME TokenInv, RequestInv, AnswerInv, io_ # <<>>, NEW t, t.task # "handler",
         io_' = Append(Tail(io_), t), Own(t) => Own(Head(io_)) /\ t.call = Turn,
         UNCHANGED <<callbacks, fs, calls, answers>>
  PROVE  CallInv'
<1>1. TokenInv'
  BY Reposted DEF Turn, NoCall
<1>2. RequestInv'
  <2>1. IsList(Tail(io_)) /\ Elements(Tail(io_)) \subseteq Elements(io_)
    BY TailList DEF TokenInv, Lists
  <2>2. Elements(io_') = Elements(Tail(io_)) \cup {t}
    BY <2>1, AppendList
  <2> QED
    BY <2>1, <2>2 DEF RequestInv, SaveRequest
<1> QED
  BY <1>1, <1>2 DEF CallInv, AnswerInv

\* A chunk is asked for: no call of the buffer is concerned.
LEMMA AskedStep ==
  ASSUME TokenInv, RequestInv, AnswerInv, NEW t, t.task # "handler", ~Own(t),
         io_' = Append(io_, t), UNCHANGED <<callbacks, fs, calls, answers>>
  PROVE  CallInv'
<1>1. TokenInv'
  BY Asked DEF NoCall
<1>2. Elements(io_') = Elements(io_) \cup {t}
  BY AppendList DEF TokenInv, Lists
<1>3. RequestInv'
  BY <1>2 DEF RequestInv, SaveRequest
<1> QED
  BY <1>1, <1>3 DEF CallInv, AnswerInv

\* A task of a reader is run.
LEMMA DroppedStep ==
  ASSUME TokenInv, RequestInv, AnswerInv, io_ # <<>>, io_' = Tail(io_),
         UNCHANGED <<callbacks, fs, calls, answers>>
  PROVE  CallInv'
<1>1. TokenInv'
  BY Dropped DEF NoCall
<1>2. Elements(Tail(io_)) \subseteq Elements(io_)
  BY TailList DEF TokenInv, Lists
<1>3. RequestInv'
  BY <1>2 DEF RequestInv, SaveRequest
<1> QED
  BY <1>1, <1>3 DEF CallInv, AnswerInv

\* The requests and their handlers stand for calls made before.
LEMMA RequestsOfOldCalls ==
  ASSUME TokenInv, RequestInv
  PROVE  /\ \A r \in Elements(fs) : r.call \in 1..Len(calls)
         /\ \A t \in Elements(io_) : t.task = "handler" => t.request.call \in 1..Len(calls)
<1>1. \A c \in Outstanding : c \in 1..Len(calls)
  BY DEF TokenInv, Unanswered
<1>2. \A r \in Elements(fs) : r.call \in Outstanding
  BY DEF Outstanding, FsCalls
<1>3. \A t \in Elements(io_) : t.task = "handler" => t.call \in Outstanding
  BY DEF Outstanding, IoCalls, Own
<1> QED
  BY <1>1, <1>2, <1>3 DEF RequestInv

\* The answers when a call is made.
LEMMA CallAnswers ==
  ASSUME TokenInv, AnswerInv, NewCall,
         UNCHANGED answers \/ \E a : Answer(New, a)
  PROVE  AnswerInv'
<1>1. /\ New \in Ids /\ New \notin 1..Len(calls) /\ Len(calls) \in Nat /\ New > Len(calls)
      /\ Len(calls') = New
      /\ \A c \in 1..Len(calls) : calls'[c] = calls[c]
  BY Called, AppendList DEF TokenInv, Lists, New, NewCall
<1>2. answers[New] = <<>>
  BY <1>1, UnaskedByAnswers DEF Unasked
<1>3. \A c \in Ids : c <= Len(calls) => c \in 1..Len(calls) /\ c <= Len(calls')
  BY <1>1 DEF Ids
<1>4. CASE UNCHANGED answers
  BY <1>1, <1>3, <1>4 DEF AnswerInv
<1>5. ASSUME NEW a, Answer(New, a)
      PROVE  AnswerInv'
  <2>1. answers'[New] = <<a>> /\ \A c \in Ids : c # New => answers'[c] = answers[c]
    BY <1>1, <1>2, <1>5 DEF Answer, TokenInv, Lists
  <2>2. Len(<<a>>) = 1 /\ New <= Len(calls')
    BY <1>1 DEF Ids
  <2> QED
    BY <1>1, <1>3, <2>1, <2>2 DEF AnswerInv
<1> QED
  BY <1>4, <1>5

\* The requests when a call is made.
LEMMA CallRequests ==
  ASSUME TokenInv, RequestInv, NewCall,
         \A r \in Elements(fs') : r \in Elements(fs) \/ r.step = "swap",
         \A t \in Elements(io_') : t \in Elements(io_) \/ t.task = "operation"
  PROVE  RequestInv'
<1>1. \A c \in 1..Len(calls) : calls'[c] = calls[c]
  BY Called DEF TokenInv
<1>2. /\ \A r \in Elements(fs) : r.call \in 1..Len(calls)
      /\ \A t \in Elements(io_) : t.task = "handler" => t.request.call \in 1..Len(calls)
  BY RequestsOfOldCalls
<1> QED
  BY <1>1, <1>2 DEF RequestInv, SaveRequest, SaveSteps

\* A call waits for its turn, or is posted.
LEMMA EnqueueStep ==
  ASSUME TokenInv, RequestInv, AnswerInv, NewCall, enqueueAndRun(New), UNCHANGED <<fs, answers>>
  PROVE  CallInv'
<1>1. TokenInv'
  BY CalledAndEnqueued, UnaskedByAnswers
<1>2. \A t \in Elements(io_') : t \in Elements(io_) \/ t.task = "operation"
  <2>1. CASE swapping
    BY <2>1 DEF enqueueAndRun
  <2>2. CASE ~swapping
    <3>1. IsList(Append(callbacks, New))
      BY AppendList DEF TokenInv, Lists
    <3>2. Elements(io_') = Elements(io_) \cup OperationsOf(Append(callbacks, New))
      BY <2>2, <3>1, PostList DEF TokenInv, Lists, enqueueAndRun, Post
    <3> QED
      BY <3>2 DEF OperationsOf, OperationOf
  <2> QED
    BY <2>1, <2>2
<1>3. RequestInv'
  BY <1>2, CallRequests
<1> QED
  BY <1>1, <1>3, CallAnswers DEF CallInv

-----------------------------------------------------------------------------
(* The calls and their answers, action by action.                          *)

\* Every call of the application preserves CallInv.
LEMMA AppCallCalls ==
  ASSUME CallInv, AppCall \/ Enqueue("make_chunked_stream")
  PROVE  CallInv'
<1> USE DEF CallInv
<1>0. Lists
  BY DEF TokenInv
<1>1. ASSUME NEW size \in Sizes, AppendInMemory(size)
      PROVE  CallInv'
  <2>1. NewCall /\ UNCHANGED queueVars /\ Answer(New, Size(realSize'))
    BY <1>0, <1>1, CalledIs DEF AppendInMemory, AppendCall
  <2>2. TokenInv'
    BY <2>1, CalledAndAnswered
  <2>3. RequestInv'
    BY <2>1, CallRequests DEF queueVars
  <2>4. AnswerInv'
    BY <2>1, CallAnswers
  <2> QED
    BY <2>2, <2>3, <2>4
<1>2. ASSUME NEW size \in Sizes, AppendHuge(size) \/ AppendAndSwap(size)
      PROVE  CallInv'
  <2>1. /\ NewCall /\ UNCHANGED <<callbacks, io_, answers>>
        /\ \E r : r.call = New /\ r.step = "swap" /\ fs' = Append(fs, r)
    BY <1>0, <1>2, CalledIs DEF AppendHuge, AppendAndSwap, AppendCall, startSwapping,
       swappingOperation, Submit, Request
  <2>2. PICK r : r.call = New /\ r.step = "swap" /\ fs' = Append(fs, r)
    BY <2>1
  <2>3. TokenInv'
    BY <2>1, <2>2, CalledAndSubmitted, UnaskedByAnswers
  <2>4. Elements(fs') = Elements(fs) \cup {r}
    BY <1>0, <2>2, AppendList DEF Lists
  <2>5. RequestInv'
    BY <2>1, <2>2, <2>4, CallRequests
  <2> QED
    BY <2>1, <2>3, <2>5, CallAnswers
<1>3. ASSUME NEW size \in Sizes, AppendDuringSwap(size)
      PROVE  CallInv'
  <2>1. NewCall /\ UNCHANGED <<fs, answers>> /\ enqueueAndRun(New)
    BY <1>0, <1>3, CalledIs DEF AppendDuringSwap, AppendCall
  <2> QED
    BY <2>1, EnqueueStep
<1>4. ASSUME NEW op, Enqueue(op)
      PROVE  CallInv'
  <2>1. NewCall /\ UNCHANGED <<fs, answers>> /\ enqueueAndRun(New)
    BY <1>0, <1>4, CalledIs DEF Enqueue
  <2> QED
    BY <2>1, EnqueueStep
<1> QED
  BY <1>1, <1>2, <1>3, <1>4 DEF AppCall

\* Every operation that is run preserves CallInv.
LEMMA RunCalls ==
  ASSUME CallInv, Run
  PROVE  CallInv'
<1> USE DEF CallInv
<1>1. ASSUME RunAppend
      PROVE  CallInv'
  <2>1. /\ io_ # <<>> /\ Own(Head(io_)) /\ io_' = Tail(io_)
        /\ UNCHANGED <<callbacks, calls, answers>>
        /\ \E r : r.call = Turn /\ r.step = "swap" /\ Submit(r)
    BY <1>1, RunOwn DEF RunAppend, startSwapping, swappingOperation, Request
  <2> QED
    BY <2>1, SubmittedStep DEF SaveRequest, SaveSteps
<1>2. ASSUME RunSize
      PROVE  CallInv'
  BY <1>2, RunOwn, FinishedStep DEF RunSize
<1>3. ASSUME RunClear
      PROVE  CallInv'
  <2>1. [task |-> "cleared", call |-> Turn].task = "cleared"
        /\ [task |-> "cleared", call |-> Turn].call = Turn
    OBVIOUS
  <2>2. /\ io_ # <<>> /\ Own(Head(io_))
        /\ io_' = Append(Tail(io_), [task |-> "cleared", call |-> Turn])
        /\ UNCHANGED <<callbacks, fs, calls, answers>>
    BY <1>3, RunOwn DEF RunClear
  <2> QED
    BY <2>1, <2>2, RepostedStep
<1>4. ASSUME RunCleared
      PROVE  CallInv'
  BY <1>4, FinishedStep DEF RunCleared, Own
<1>5. ASSUME RunReadAll
      PROVE  CallInv'
  <2>1. io_ # <<>> /\ Own(Head(io_)) /\ io_' = Tail(io_) /\ UNCHANGED <<callbacks, calls>>
    BY <1>5, RunOwn DEF RunReadAll
  <2>2. \/ UNCHANGED fs /\ \E a : Answer(Turn, a)
        \/ UNCHANGED answers /\ \E r : r.call = Turn /\ r.step = "read" /\ Submit(r)
    BY <1>5 DEF RunReadAll, Request
  <2> QED
    BY <2>1, <2>2, SubmittedStep, FinishedStep DEF SaveRequest, SaveSteps
<1>6. ASSUME RunSave
      PROVE  CallInv'
  <2>1. /\ io_ # <<>> /\ Own(Head(io_)) /\ io_' = Tail(io_) /\ UNCHANGED <<callbacks, calls>>
        /\ calls[Turn].op = "save"
    BY <1>6, RunOwn DEF RunSave, Running, Turn
  <2>2. \/ UNCHANGED fs /\ \E a : Answer(Turn, a)
        \/ UNCHANGED answers /\ \E r : r.call = Turn /\ Submit(r)
    BY <1>6 DEF RunSave, SaveLocal, NextChunk, Request
  <2> QED
    BY <2>1, <2>2, SubmittedStep, FinishedStep DEF SaveRequest
<1>7. Run
  OBVIOUS
<1> QED
  BY <1>1, <1>2, <1>3, <1>4, <1>5, <1>6, <1>7 DEF Run

\* What a handler finds: a call that has no answer yet and, for the steps of a save,
\* is one.
LEMMA HandlerOf ==
  ASSUME CallInv, NEW step, Handling(step)
  PROVE  /\ io_ # <<>> /\ Own(Head(io_)) /\ io_' = Tail(io_)
         /\ Turn \in Ids /\ Turn \in 1..Len(calls) /\ answers[Turn] = <<>>
         /\ step \in SaveSteps => calls[Turn].op = "save"
<1>1. /\ io_ # <<>> /\ Own(Head(io_)) /\ io_' = Tail(io_) /\ Head(io_).task = "handler"
      /\ Head(io_).request.step = step
  BY DEF Handling, Own
<1>2. /\ Turn \in Ids /\ Turn \in 1..Len(calls) /\ answers[Turn] = <<>>
      /\ Head(io_) \in Elements(io_)
  BY <1>1, HeadOfIo DEF CallInv
<1>3. Turn = Head(io_).request.call /\ SaveRequest(Head(io_).request)
  BY <1>1, <1>2 DEF CallInv, RequestInv, Turn
<1> QED
  BY <1>1, <1>2, <1>3 DEF SaveRequest

\* Every handler of a request preserves CallInv.
LEMMA HandleCalls ==
  ASSUME CallInv, Handle
  PROVE  CallInv'
<1>0. TokenInv /\ RequestInv /\ AnswerInv
  BY DEF CallInv
<1>1. ASSUME SwapDone
      PROVE  CallInv'
  BY <1>0, <1>1, HandlerOf, FinishedStep DEF SwapDone
<1>2. ASSUME SwapRetry
      PROVE  CallInv'
  <2>1. /\ UNCHANGED <<callbacks, calls, answers>>
        /\ \E r : r.call = Turn /\ r.step = "swap" /\ Submit(r)
    BY <1>2 DEF SwapRetry, swappingOperation, Request
  <2> QED
    BY <1>0, <1>2, <2>1, HandlerOf, SubmittedStep DEF SwapRetry, SaveRequest, SaveSteps
<1>3. ASSUME SwapFailed
      PROVE  CallInv'
  BY <1>0, <1>3, HandlerOf, FinishedStep DEF SwapFailed
<1>4. ASSUME LocalSaved
      PROVE  CallInv'
  <2>1. UNCHANGED <<callbacks, calls>> /\ Handling("local")
    BY <1>4 DEF LocalSaved, Settled
  <2>2. \/ UNCHANGED fs /\ \E a : Answer(Turn, a)
        \/ UNCHANGED answers /\ \E r : r.call = Turn /\ Submit(r)
    BY <1>4 DEF LocalSaved, SaveLocal, Request
  <2>3. calls[Turn].op = "save"
    BY <2>1, HandlerOf DEF SaveSteps
  <2> QED
    BY <1>0, <2>1, <2>2, <2>3, HandlerOf, SubmittedStep, FinishedStep DEF SaveRequest
<1>5. ASSUME RestSaved
      PROVE  CallInv'
  <2>1. UNCHANGED <<callbacks, calls, fs>> /\ \E a : Answer(Turn, a)
    BY <1>5 DEF RestSaved, Settled
  <2> QED
    BY <1>0, <1>5, <2>1, HandlerOf, FinishedStep DEF RestSaved
<1>6. ASSUME MoveFailed
      PROVE  CallInv'
  <2>1. UNCHANGED <<callbacks, calls, fs>> /\ (UNCHANGED answers \/ \E a : Answer(Turn, a))
    BY <1>6 DEF MoveFailed, Settled
  <2> QED
    BY <1>0, <1>6, <2>1, HandlerOf, FinishedStep, DroppedStep DEF MoveFailed
<1>7. ASSUME CopyChunk
      PROVE  CallInv'
  <2>1. UNCHANGED <<callbacks, calls>> /\ Handling("chunk")
    BY <1>7 DEF CopyChunk, Settled
  <2>2. \/ UNCHANGED fs /\ \E a : Answer(Turn, a)
        \/ UNCHANGED answers /\ \E r : r.call = Turn /\ Submit(r)
    BY <1>7 DEF CopyChunk, Request
  <2>3. calls[Turn].op = "save"
    BY <2>1, HandlerOf DEF SaveSteps
  <2> QED
    BY <1>0, <2>1, <2>2, <2>3, HandlerOf, SubmittedStep, FinishedStep DEF SaveRequest
<1>8. ASSUME ChunkCopied
      PROVE  CallInv'
  <2>1. UNCHANGED <<callbacks, calls>> /\ (Handling("copied") \/ Handling("last"))
    BY <1>8 DEF ChunkCopied, Settled
  <2>2. \/ UNCHANGED fs /\ \E a : Answer(Turn, a)
        \/ UNCHANGED answers /\ \E r : r.call = Turn /\ Submit(r)
    BY <1>8 DEF ChunkCopied, NextChunk, Request
  <2>3. calls[Turn].op = "save"
    BY <2>1, HandlerOf DEF SaveSteps
  <2> QED
    BY <1>0, <2>1, <2>2, <2>3, HandlerOf, SubmittedStep, FinishedStep DEF SaveRequest
<1>9. ASSUME TailSaved
      PROVE  CallInv'
  <2> DEFINE given == IF Ec = "success" THEN <<Done>> ELSE <<Failed, Done>>
  <2>1. /\ io_ # <<>> /\ Own(Head(io_)) /\ io_' = Tail(io_)
        /\ Turn \in Ids /\ Turn \in 1..Len(calls) /\ answers[Turn] = <<>>
        /\ calls[Turn].op = "save"
    BY <1>9, HandlerOf DEF TailSaved, SaveSteps
  <2>2. UNCHANGED <<callbacks, calls, fs>> /\ answers' = [answers EXCEPT ![Turn] = @ \o given]
    BY <1>9 DEF TailSaved, Settled
  <2>3. <<>> \o given = given
    OBVIOUS
  <2> HIDE DEF given
  <2>4. DOMAIN answers' = DOMAIN answers /\ answers'[Turn] = given
        /\ \A c \in Ids : c # Turn => answers'[c] = answers[c]
    BY <1>0, <2>1, <2>2, <2>3 DEF TokenInv, Lists
  <2>5. TokenInv'
    BY <1>0, <2>1, <2>2, <2>4, Finished DEF AnswersOnly, Turn
  <2>6. RequestInv'
    <3>1. Elements(Tail(io_)) \subseteq Elements(io_)
      BY <1>0, <2>1, TailList DEF TokenInv, Lists
    <3> QED
      BY <1>0, <2>1, <2>2, <3>1 DEF RequestInv, SaveRequest
  <2>7. AnswerInv'
    <3>1. (Len(given) = 1 \/ given = <<Failed, Done>>) /\ Turn <= Len(calls)
      BY <1>0, <2>1 DEF given, TokenInv, Lists
    <3> QED
      BY <1>0, <2>1, <2>2, <2>4, <3>1 DEF AnswerInv
  <2> QED
    BY <2>5, <2>6, <2>7 DEF CallInv
<1>10. ASSUME ReadDone
      PROVE  CallInv'
  <2>1. UNCHANGED <<callbacks, calls>> /\ Handling("read")
    BY <1>10 DEF ReadDone, Settled
  <2>2. \/ UNCHANGED fs /\ \E a : Answer(Turn, a)
        \/ UNCHANGED answers /\ \E r : r.call = Turn /\ r.step = "read_tmp" /\ Submit(r)
    BY <1>10 DEF ReadDone, Request
  <2> QED
    BY <1>0, <2>1, <2>2, HandlerOf, SubmittedStep, FinishedStep DEF SaveRequest, SaveSteps
<1>11. ASSUME ReadTmpDone
      PROVE  CallInv'
  <2>1. UNCHANGED <<callbacks, calls, fs>> /\ \E a : Answer(Turn, a)
    BY <1>11 DEF ReadTmpDone, Settled
  <2> QED
    BY <1>0, <1>11, <2>1, HandlerOf, FinishedStep DEF ReadTmpDone
<1>12. Handle
  OBVIOUS
<1> QED
  BY <1>1, <1>2, <1>3, <1>4, <1>5, <1>6, <1>7, <1>8, <1>9, <1>10, <1>11, <1>12 DEF Handle

\* The worker, and the return of a callback, preserve CallInv.
LEMMA WorkerCalls ==
  ASSUME CallInv, Worker \/ CallbackReturns
  PROVE  CallInv'
<1>0. TokenInv /\ RequestInv /\ AnswerInv
  BY DEF CallInv
<1>1. ASSUME PerformRequest
      PROVE  CallInv'
  <2>1. fs # <<>> /\ fs' = Tail(fs) /\ UNCHANGED <<callbacks, calls, answers>>
        /\ \E code, data : Handler(Head(fs), code, data)
    BY <1>1 DEF PerformRequest
  <2> QED
    BY <1>0, <2>1, PerformedStep
<1>2. ASSUME FailRequest
      PROVE  CallInv'
  <2>1. fs # <<>> /\ fs' = Tail(fs) /\ UNCHANGED <<callbacks, calls, answers>>
        /\ \E code, data : Handler(Head(fs), code, data)
    BY <1>2 DEF FailRequest
  <2> QED
    BY <1>0, <2>1, PerformedStep
<1>3. ASSUME CallbackReturns
      PROVE  CallInv'
  <2>1. UNCHANGED <<fs, calls, answers>> /\ Post(callbacks)
    BY <1>3 DEF CallbackReturns
  <2>2. TokenInv'
    BY <1>0, <2>1, PostedAll DEF NoCall
  <2>3. Elements(io_') = Elements(io_) \cup OperationsOf(callbacks)
    BY <1>0, <2>1, PostList DEF TokenInv, Lists, Post
  <2>4. RequestInv'
    BY <1>0, <2>1, <2>3 DEF RequestInv, SaveRequest, OperationsOf, OperationOf
  <2> QED
    BY <1>0, <2>1, <2>2, <2>4 DEF CallInv, AnswerInv
<1> QED
  BY <1>1, <1>2, <1>3 DEF Worker

\* The readers preserve CallInv.
LEMMA ReaderCalls ==
  ASSUME CallInv, ReaderRuns \/ Ask \/ Stop
  PROVE  CallInv'
<1>0. TokenInv /\ RequestInv /\ AnswerInv
  BY DEF CallInv
<1>1. ASSUME RunMake
      PROVE  CallInv'
  <2> DEFINE t == [task |-> "made", call |-> Turn, reader |-> NewReader']
  <2>1. t.task = "made" /\ t.call = Turn
    OBVIOUS
  <2>2. io_ # <<>> /\ Own(Head(io_)) /\ io_' = Append(Tail(io_), t)
        /\ UNCHANGED <<callbacks, fs, calls, answers>>
    BY <1>1, RunOwn DEF RunMake, BufferRests
  <2> HIDE DEF t
  <2> QED
    BY <1>0, <2>1, <2>2, RepostedStep
<1>2. ASSUME MakeFails
      PROVE  CallInv'
  BY <1>0, <1>2, RunOwn, FinishedStep DEF MakeFails
<1>3. ASSUME RunMade
      PROVE  CallInv'
  BY <1>0, <1>3, FinishedStep DEF RunMade, Own
<1>4. ASSUME OfFile \/ PassOn \/ OfTmpFile \/ Cached \/ Deliver
      PROVE  CallInv'
  <2>1. io_ # <<>> /\ UNCHANGED <<callbacks, fs, calls, answers>>
    BY <1>4 DEF OfFile, PassOn, OfTmpFile, Cached, Deliver, Task, BufferRests
  <2>2. \/ io_' = Tail(io_)
        \/ \E t : t.task \in {"answer", "pass_on", "cached"} /\ io_' = Append(Tail(io_), t)
    BY <1>4 DEF OfFile, PassOn, OfTmpFile, Cached, Deliver, EndOfTmpFile, AskStream,
       CacheNext, PostedAnswer, Posted
  <2> QED
    BY <1>0, <2>1, <2>2, DroppedStep, RepostedStep DEF Own
<1>5. ASSUME Ask
      PROVE  CallInv'
  <2>1. UNCHANGED <<callbacks, fs, calls, answers>>
    BY <1>5 DEF Ask, BufferRests
  <2>2. \E t : t.task \in {"answer", "of_file", "of_tmp_file", "cached"} /\ io_' = Append(io_, t)
    BY <1>5, AskPosts
  <2> QED
    BY <1>0, <2>1, <2>2, AskedStep DEF Own
<1>6. ASSUME Stop
      PROVE  CallInv'
  BY <1>6 DEF Stop, vars, queueVars, CallInv, TokenInv, Lists, RequestInv, AnswerInv, Outstanding,
     Unanswered, SaveRequest
<1> QED
  BY <1>1, <1>2, <1>3, <1>4, <1>5, <1>6 DEF ReaderRuns

-----------------------------------------------------------------------------
(* Which calls overlap, and what a swap is.                                *)

\* A call that is made is allowed beside each one that has no answer.
LEMMA AllowedCall ==
  ASSUME NEW op, NEW size, MayCall(op, size), SwapsAwaited
  PROVE  /\ \A c \in Unanswered : <<Key(c), <<op, size>>>> \in Overlaps
         /\ pc = "callback" => Unanswered = {}
BY DEF MayCall, Key, SwapsAwaited

\* An append that may come beside others comes before nothing that waits.
LEMMA AppendAllowed ==
  ASSUME TokenInv, OverlapInv, SwapsAwaited, NEW size, MayCall("append", size)
  PROVE  /\ callbacks = <<>> /\ PostedOperations = {}
         /\ Unanswered = {} \/ size <= maxBufferSize
<1>1. ASSUME NEW c \in Unanswered
      PROVE  /\ calls[c].op = "append" /\ ~Follower(c)
             /\ size <= maxBufferSize
  <2> DEFINE q == <<Key(c), <<"append", size>>>>
  <2>1. q \in Overlaps
    BY <1>1, AllowedCall
  <2>2. q[1] = Key(c) /\ q[2] = <<"append", size>> /\ q[2][1] = "append" /\ q[2][2] = size
        /\ q[1][1] = calls[c].op
    BY DEF Key
  <2> HIDE DEF q
  <2>3. calls[c].op = "append" /\ size <= maxBufferSize
    BY <2>1, <2>2 DEF SwapsAwaited
  <2>4. ASSUME NEW p \in Overlaps, p[2] = Key(c)
        PROVE  FALSE
    <3>1. p[2][1] = "append"
      BY <2>3, <2>4 DEF Key
    <3> QED
      BY <2>1, <2>2, <2>4, <3>1 DEF SwapsAwaited
  <2> QED
    BY <2>3, <2>4 DEF Follower
<1>2. ASSUME NEW t \in PostedOperations
      PROVE  FALSE
  <2>1. t.call \in Unanswered
    BY <1>2 DEF TokenInv, Outstanding, IoCalls, PostedOperations, Own
  <2> QED
    BY <1>1, <1>2, <2>1 DEF OverlapInv, Queued
<1>3. Elements(callbacks) = {}
  <2> SUFFICES ASSUME NEW c \in Elements(callbacks)
               PROVE  FALSE
    OBVIOUS
  <2>1. c \in Unanswered
    BY DEF TokenInv, Outstanding
  <2> QED
    BY <1>1, <2>1 DEF OverlapInv, Queued
<1>4. callbacks = <<>>
  <2> SUFFICES ASSUME callbacks # <<>>
               PROVE  FALSE
    OBVIOUS
  <2>1. Head(callbacks) \in Elements(callbacks)
    BY TailList DEF TokenInv, Lists
  <2> QED
    BY <1>3, <2>1
<1>5. Unanswered = {} \/ size <= maxBufferSize
  BY <1>1
<1> QED
  BY <1>2, <1>4, <1>5

\* An append that waits waits alone.
LEMMA PostedAppendAlone ==
  ASSUME TokenInv, OverlapInv, SwapsAwaited, NEW t \in PostedOperations,
         calls[t.call].op = "append"
  PROVE  Queued = {t.call}
<1> DEFINE c == t.call
<1>1. c \in Unanswered
  BY DEF TokenInv, Outstanding, IoCalls, PostedOperations, Own
<1>2. PICK p \in Overlaps : p[2] = Key(c)
  BY DEF OverlapInv, Follower, Queued
<1>3. Key(c)[1] = "append"
  BY DEF Key
<1>4. /\ \A q \in Overlaps : q[1] # Key(c)
      /\ \A q \in Overlaps : q[2] = Key(c) => q[1][1] = "append"
  BY <1>2, <1>3 DEF SwapsAwaited
<1>4a. Queued \subseteq Unanswered
  BY DEF TokenInv, Outstanding, IoCalls, PostedOperations, Own, Queued
<1>5. ASSUME NEW d \in Queued, d # c
      PROVE  FALSE
  <2> DEFINE q == <<Key(c), Key(d)>>
             r == <<Key(d), Key(c)>>
  <2>1. c \in Int /\ d \in Int
    BY <1>1, <1>4a DEF Unanswered
  <2>2. q[1] = Key(c) /\ r[1] = Key(d) /\ r[2] = Key(c)
    OBVIOUS
  <2>3. q \in Overlaps \/ r \in Overlaps
    BY <1>1, <1>4a, <1>5, <2>1 DEF OverlapInv
  <2> HIDE DEF q, r
  <2>4. r \in Overlaps
    BY <1>4, <2>2, <2>3
  <2>5. calls[d].op = "append"
    <3>1. Key(d)[1] = "append"
      BY <1>4, <2>2, <2>4
    <3> QED
      BY <3>1 DEF Key
  <2>6. PICK pd \in Overlaps : pd[2] = Key(d)
    BY <1>5, <2>5 DEF OverlapInv, Follower
  <2>7. Key(d)[1] = "append"
    BY <2>5 DEF Key
  <2> QED
    BY <2>2, <2>4, <2>6, <2>7 DEF SwapsAwaited
<1>6. c \in Queued
  BY DEF Queued
<1> HIDE DEF c
<1> QED
  BY <1>1, <1>5, <1>6 DEF c

\* The set of requests when one is added or performed.
LEMMA FsSets ==
  ASSUME TokenInv
  PROVE  /\ \A r : fs' = Append(fs, r) => Elements(fs') = Elements(fs) \cup {r}
         /\ fs # <<>> /\ fs' = Tail(fs) => /\ Elements(fs') = Elements(fs) \ {Head(fs)}
                                           /\ Head(fs) \in Elements(fs)
<1>1. ASSUME NEW r, fs' = Append(fs, r)
      PROVE  Elements(fs') = Elements(fs) \cup {r}
  BY <1>1, AppendList DEF TokenInv, Lists
<1>2. ASSUME fs # <<>>, fs' = Tail(fs)
      PROVE  Elements(fs') = Elements(fs) \ {Head(fs)} /\ Head(fs) \in Elements(fs)
  <2>1. /\ Elements(Tail(fs)) \subseteq Elements(fs) /\ Head(fs) \in Elements(fs)
        /\ Elements(fs) \subseteq Elements(Tail(fs)) \cup {Head(fs)}
    BY <1>2, TailList DEF TokenInv, Lists
  <2>2. FsCalls(Tail(fs)) = FsCalls(fs) \ {Head(fs).call}
    BY <1>2, FsTail DEF TokenInv, Lists
  <2>3. Head(fs) \notin Elements(Tail(fs))
    BY <2>2 DEF FsCalls
  <2> QED
    BY <1>2, <2>1, <2>3
<1> QED
  BY <1>1, <1>2

\* The set of tasks when the first is run.
LEMMA IoSets ==
  ASSUME TokenInv, io_ # <<>>
  PROVE  /\ Elements(Tail(io_)) \subseteq Elements(io_)
         /\ Elements(io_) \subseteq Elements(Tail(io_)) \cup {Head(io_)}
         /\ IsList(Tail(io_))
         /\ Head(io_) \in Elements(io_)
         /\ Own(Head(io_)) => Elements(Tail(io_)) = Elements(io_) \ {Head(io_)}
<1>1. /\ Elements(Tail(io_)) \subseteq Elements(io_) /\ Head(io_) \in Elements(io_)
      /\ Elements(io_) \subseteq Elements(Tail(io_)) \cup {Head(io_)} /\ IsList(Tail(io_))
  BY TailList DEF TokenInv, Lists
<1>2. ASSUME Own(Head(io_))
      PROVE  Head(io_) \notin Elements(Tail(io_))
  <2>1. IoCalls(Tail(io_)) = IoCalls(io_) \ {Head(io_).call}
    BY <1>2, IoTail DEF TokenInv, Lists
  <2> QED
    BY <1>2, <2>1 DEF IoCalls
<1> QED
  BY <1>1, <1>2

\* A step that neither begins nor ends a swap and posts no operation.
LEMMA QuietStep ==
  ASSUME OverlapInv, SwapInv,
         SwapRequests' = SwapRequests, SwapHandlers' = SwapHandlers,
         PostedOperations' \subseteq PostedOperations,
         UNCHANGED <<callbacks, swapping, currentBuffer, calls, pc>>,
         Unanswered' \subseteq Unanswered
  PROVE  OverlapInv' /\ SwapInv'
<1>1. OverlapInv'
  BY DEF OverlapInv, Key, Follower, Queued
<1>2. SwapInv'
  BY DEF SwapInv, SwapRequest, swappingBuffer
<1> QED
  BY <1>1, <1>2

-----------------------------------------------------------------------------
(* Overlaps and swaps: the calls of the application.                       *)

\* A swap in progress stands for a call that has no answer.
LEMMA SwappingUnanswered ==
  ASSUME TokenInv, SwapInv, swapping
  PROVE  Unanswered # {}
<1>1. SwapRequests # {} \/ SwapHandlers # {}
  BY DEF SwapInv
<1>2. \A r \in SwapRequests : r.call \in Outstanding
  BY DEF Outstanding, FsCalls, SwapRequests
<1>3. \A t \in SwapHandlers : t.call \in Outstanding
  BY DEF Outstanding, IoCalls, SwapHandlers, Own
<1> QED
  BY <1>1, <1>2, <1>3 DEF TokenInv

\* OverlapInv when a call is made.
LEMMA CallOverlaps ==
  ASSUME TokenInv, OverlapInv, SwapsAwaited, NEW op, NEW size, MayCall(op, size),
         Unanswered' \subseteq Unanswered \cup {New},
         Queued' \subseteq Queued \cup {New},
         op = "append" /\ New \in Queued' => Unanswered # {}
  PROVE  OverlapInv'
<1>0. New = Len(calls) + 1 /\ Len(calls) \in Nat
  BY DEF TokenInv, Lists, New
<1> PICK n \in Nat : n = New /\ n = Len(calls) + 1
  BY <1>0
<1>1. NewCall /\ calls'[n] = [op |-> op, size |-> size]
  BY CalledIs DEF TokenInv
<1>2. /\ \A c \in 1..Len(calls) : calls'[c] = calls[c]
  BY <1>1, Called DEF TokenInv
<1>3. Queued \subseteq Unanswered /\ Unanswered \subseteq 1..Len(calls)
  BY DEF TokenInv, Outstanding, IoCalls, PostedOperations, Own, Queued, Unanswered
<1>4. /\ \A c \in Unanswered : Key(c)' = Key(c) /\ c < n /\ c \in Int
      /\ Key(n)' = <<op, size>>
  BY <1>0, <1>1, <1>2, <1>3 DEF Key
<1>5. \A c \in Unanswered : <<Key(c), <<op, size>>>> \in Overlaps
  BY AllowedCall
<1>6. ASSUME NEW c \in Unanswered', NEW d \in Unanswered', c < d
      PROVE  <<Key(c)', Key(d)'>> \in Overlaps
  <2>1. CASE d \in Unanswered
    <3>1. c \in Unanswered
      BY <1>4, <1>6, <2>1
    <3> QED
      BY <1>4, <1>6, <2>1, <3>1 DEF OverlapInv
  <2>2. CASE d = n
    <3>1. c \in Unanswered
      BY <1>6, <2>2
    <3> QED
      BY <1>4, <1>5, <2>2, <3>1
  <2> QED
    BY <1>6, <2>1, <2>2
<1>7. ASSUME NEW c \in Queued', calls'[c].op = "append"
      PROVE  Follower(c)'
  <2>1. CASE c \in Queued
    <3>1. calls'[c] = calls[c]
      BY <1>2, <1>3, <2>1
    <3>2. Follower(c)
      BY <1>7, <2>1, <3>1 DEF OverlapInv
    <3> QED
      BY <3>1, <3>2 DEF Follower, Key
  <2>2. CASE c = n
    <3>1. op = "append"
      BY <1>1, <1>7, <2>2
    <3>2. PICK d \in Unanswered : TRUE
      BY <1>7, <2>2, <3>1
    <3>3. <<Key(d), <<op, size>>>> \in Overlaps
      BY <1>5
    <3> QED
      BY <1>4, <2>2, <3>3 DEF Follower
  <2> QED
    BY <1>7, <2>1, <2>2
<1> QED
  BY <1>6, <1>7 DEF OverlapInv

\* A call that is answered at once is not left waiting.
LEMMA CallAnswered ==
  ASSUME TokenInv, AnswerInv, NewCall, NEW a, Answer(New, a)
  PROVE  Unanswered' \subseteq Unanswered
<1>1. /\ New \in Ids /\ 1..Len(calls') = (1..Len(calls)) \cup {New} /\ New > Len(calls)
      /\ \A c \in 1..Len(calls) : c \in Ids
  BY Called DEF TokenInv
<1>2. /\ answers'[New] = Append(answers[New], a)
      /\ \A c \in Ids : c # New => answers'[c] = answers[c]
  BY <1>1 DEF Answer, TokenInv, Lists
<1>3. answers[New] = <<>>
  BY <1>1, UnaskedByAnswers DEF Unasked
<1>4. answers'[New] # <<>>
  BY <1>2, <1>3
<1> QED
  BY <1>1, <1>2, <1>4 DEF Unanswered

\* The operations of a list of calls stand for just these calls.
LEMMA CallsOfOperations ==
  ASSUME NEW l
  PROVE  {t.call : t \in OperationsOf(l)} = Elements(l)
<1>1. \A c : OperationOf(c).call = c
  BY DEF OperationOf
<1> QED
  BY <1>1 DEF OperationsOf

\* What enqueueAndRun adds to what waits.
LEMMA EnqueueSets ==
  ASSUME TokenInv, NEW c, enqueueAndRun(c)
  PROVE  /\ Queued' = Queued \cup {c}
         /\ SwapHandlers' = SwapHandlers
         /\ swapping => PostedOperations' = PostedOperations
<1>1. IsList(Append(callbacks, c)) /\ Elements(Append(callbacks, c)) = Elements(callbacks) \cup {c}
  BY AppendList DEF TokenInv, Lists
<1>2. CASE swapping
  <2>1. callbacks' = Append(callbacks, c) /\ io_' = io_
    BY <1>2 DEF enqueueAndRun
  <2>2. PostedOperations' = PostedOperations /\ SwapHandlers' = SwapHandlers
    BY <2>1 DEF PostedOperations, SwapHandlers
  <2> QED
    BY <1>1, <2>1, <2>2 DEF Queued
<1>3. CASE ~swapping
  <2>1. callbacks' = <<>> /\ Elements(io_') = Elements(io_) \cup OperationsOf(Append(callbacks, c))
    BY <1>1, <1>3, PostList DEF TokenInv, Lists, enqueueAndRun, Post
  <2>2. Elements(callbacks') = {}
    BY <2>1, EmptyList
  <2>3. SwapHandlers' = SwapHandlers
    BY <2>1 DEF SwapHandlers, OperationsOf, OperationOf
  <2>4. PostedOperations' = PostedOperations \cup OperationsOf(Append(callbacks, c))
    BY <2>1 DEF PostedOperations, OperationsOf, OperationOf
  <2>5. {t.call : t \in OperationsOf(Append(callbacks, c))} = Elements(Append(callbacks, c))
    BY CallsOfOperations
  <2> QED
    BY <1>1, <1>3, <2>2, <2>3, <2>4, <2>5 DEF Queued
<1> QED
  BY <1>2, <1>3

\* A call that waits, or is posted, neither begins nor ends a swap.
LEMMA EnqueueSwaps ==
  ASSUME TokenInv, OverlapInv, SwapInv, SwapsAwaited, NEW op, NEW size, MayCall(op, size),
         enqueueAndRun(New), UNCHANGED <<fs, swapping, currentBuffer, pc, answers>>,
         AnswerInv, op = "append" => swapping
  PROVE  OverlapInv' /\ SwapInv' /\ SwapRequests' = SwapRequests /\ SwapHandlers' = SwapHandlers
<1>0. NewCall
  BY CalledIs DEF TokenInv
<1>1. Unanswered' = Unanswered \cup {New}
  <2>1. answers[New] = <<>>
    BY <1>0, Called, UnaskedByAnswers DEF Unasked, TokenInv
  <2> QED
    BY <1>0, <2>1, NewUnanswered DEF TokenInv
<1>2. OverlapInv'
  BY <1>1, EnqueueSets, SwappingUnanswered, CallOverlaps
<1>3. SwapHandlers' = SwapHandlers /\ SwapRequests' = SwapRequests
      /\ (swapping => PostedOperations' = PostedOperations)
  BY EnqueueSets DEF SwapRequests
<1>4. ~(swapping /\ pc = "callback")
  BY AllowedCall, SwappingUnanswered
<1>5. SwapInv'
  BY <1>3, <1>4 DEF SwapInv, SwapRequest, swappingBuffer
<1> QED
  BY <1>2, <1>3, <1>5

\* A swap begins: nothing else is waiting.
LEMMA BeginSwap ==
  ASSUME TokenInv, SwapInv, ~swapping, NEW c, NEW content, NEW added,
         startSwapping(c, content, added),
         SwapHandlers' = SwapHandlers, PostedOperations' = {},
         pc' = "callback" => callbacks' = <<>>
  PROVE  /\ SwapInv' /\ SwapHandlers' = {} /\ SwapRequests' # {}
         /\ \A r \in SwapRequests' : r.mode = "write" => ~isOnDisk
<1>1. PICK r : /\ fs' = Append(fs, r) /\ r.step = "swap" /\ r.file = "tmp" /\ r.buf = currentBuffer
               /\ r.mode \in {"append", "write"} /\ (r.mode = "write" => ~isOnDisk)
  BY DEF startSwapping, swappingOperation, Submit, Request
<1>2. SwapRequests = {} /\ SwapHandlers = {}
  BY DEF SwapInv
<1>3. SwapRequests' = {r}
  BY <1>1, <1>2, FsSets DEF SwapRequests
<1>4. currentBuffer' = swappingBuffer /\ swappingBuffer' = currentBuffer /\ swapping' = TRUE
      /\ currentBuffer' \in {"bufA", "bufB"}
  BY DEF startSwapping, swappingBuffer, SwapInv
<1>5. SwapInv'
  BY <1>1, <1>2, <1>3, <1>4 DEF SwapInv, SwapRequest
<1> QED
  BY <1>1, <1>2, <1>3, <1>5

\* Every call of the application preserves OverlapInv and SwapInv.
LEMMA AppCallSwaps ==
  ASSUME CallInv, OverlapInv, SwapInv, SwapsAwaited,
         AppCall \/ Enqueue("make_chunked_stream")
  PROVE  OverlapInv' /\ SwapInv'
<1>0. TokenInv /\ AnswerInv
  BY DEF CallInv
<1>1. ASSUME NEW size \in Sizes, AppendInMemory(size)
      PROVE  OverlapInv' /\ SwapInv'
  <2>1. /\ MayCall("append", size) /\ UNCHANGED <<callbacks, io_, fs, swapping, currentBuffer, pc>>
        /\ Answer(New, Size(realSize'))
    BY <1>1 DEF AppendInMemory, AppendCall, queueVars
  <2>2. Unanswered' \subseteq Unanswered
    BY <1>0, <2>1, CalledIs, CallAnswered DEF TokenInv
  <2>3. Queued' = Queued /\ SwapRequests' = SwapRequests /\ SwapHandlers' = SwapHandlers
        /\ PostedOperations' = PostedOperations
    BY <2>1 DEF Queued, SwapRequests, SwapHandlers, PostedOperations
  <2>4. New \notin Queued
    <3>1. NewCall
      BY <1>0, <2>1, CalledIs DEF TokenInv
    <3>2. New \notin 1..Len(calls)
      BY <1>0, <3>1, Called DEF TokenInv
    <3> QED
      BY <1>0, <3>2 DEF TokenInv, Outstanding, IoCalls, PostedOperations, Own, Queued, Unanswered
  <2>5. OverlapInv'
    BY <1>0, <2>1, <2>2, <2>3, <2>4, CallOverlaps
  <2>6. SwapInv'
    BY <2>1, <2>3 DEF SwapInv, SwapRequest, swappingBuffer
  <2> QED
    BY <2>5, <2>6
<1>2. ASSUME NEW size \in Sizes, AppendHuge(size) \/ AppendAndSwap(size)
      PROVE  OverlapInv' /\ SwapInv'
  <2>1. /\ MayCall("append", size) /\ UNCHANGED <<callbacks, io_, answers, pc>>
        /\ \E content, added : startSwapping(New, content, added)
    BY <1>2 DEF AppendHuge, AppendAndSwap, AppendCall
  <2>2. ~swapping
    <3>1. CASE AppendAndSwap(size)
      BY <3>1 DEF AppendAndSwap
    <3>2. CASE AppendHuge(size)
      <4>1. ~(size <= maxBufferSize)
        BY <3>2, SwappingBufferAssumption DEF AppendHuge
      <4>2. Unanswered = {}
        BY <1>0, <2>1, <4>1, AppendAllowed
      <4> QED
        BY <1>0, <4>2, SwappingUnanswered
    <3> QED
      BY <1>2, <3>1, <3>2
  <2>3. callbacks = <<>> /\ PostedOperations = {}
    BY <1>0, <2>1, AppendAllowed
  <2>4. SwapHandlers' = SwapHandlers /\ PostedOperations' = {} /\ callbacks' = <<>> /\ Queued' = Queued
    BY <2>1, <2>3 DEF SwapHandlers, PostedOperations, Queued
  <2>5. SwapInv'
    BY <1>0, <2>1, <2>2, <2>4, BeginSwap
  <2>6. NewCall
    BY <1>0, <2>1, CalledIs DEF TokenInv
  <2>7. Unanswered' \subseteq Unanswered \cup {New} /\ New \notin Queued
    BY <1>0, <2>1, <2>6, NewUnanswered, Called, UnaskedByAnswers, <2>3, EmptyList DEF TokenInv, Unasked, Queued
  <2>8. OverlapInv'
    BY <1>0, <2>1, <2>4, <2>7, CallOverlaps
  <2> QED
    BY <2>5, <2>8
<1>3. ASSUME NEW size \in Sizes, AppendDuringSwap(size)
      PROVE  OverlapInv' /\ SwapInv'
  <2>1. /\ MayCall("append", size) /\ enqueueAndRun(New) /\ swapping
        /\ UNCHANGED <<fs, swapping, currentBuffer, pc, answers>>
    BY <1>3 DEF AppendDuringSwap, AppendCall
  <2> QED
    BY <1>0, <2>1, EnqueueSwaps
<1>4. ASSUME NEW op, op # "append", Enqueue(op)
      PROVE  OverlapInv' /\ SwapInv'
  <2>1. /\ MayCall(op, 0) /\ enqueueAndRun(New)
        /\ UNCHANGED <<fs, swapping, currentBuffer, pc, answers>>
    BY <1>4 DEF Enqueue, bufferVars
  <2> QED
    BY <1>0, <1>4, <2>1, EnqueueSwaps
<1> QED
  BY <1>1, <1>2, <1>3, <1>4 DEF AppCall

-----------------------------------------------------------------------------
(* Overlaps and swaps: the other steps.                                    *)

\* A step that makes no call.
Answering ==
  /\ UNCHANGED calls
  /\ \/ UNCHANGED answers
     \/ io_ # <<>> /\ Own(Head(io_)) /\ \E a : answers' = [answers EXCEPT ![Turn] = a]

\* All steps but those of the application's calls make no call.
LEMMA AnsweringStep ==
  ASSUME Run \/ Handle \/ CallbackReturns \/ Worker \/ ReaderRuns \/ Ask \/ Stop
  PROVE  Answering
<1>1. ASSUME Run
      PROVE  Answering
  BY <1>1 DEF Run, RunAppend, RunSize, RunClear, RunCleared, RunReadAll, RunSave, Running, Own,
     Answer, Answering
<1>2. ASSUME Handle
      PROVE  Answering
  <2>1. ASSUME SwapDone \/ SwapRetry \/ SwapFailed
        PROVE  Answering
    BY <2>1 DEF SwapDone, SwapRetry, SwapFailed, Handling, Own, Answer, Answering
  <2>2. ASSUME LocalSaved \/ RestSaved \/ MoveFailed
        PROVE  Answering
    BY <2>2 DEF LocalSaved, RestSaved, MoveFailed, Handling, Own, Answer, Answering, Settled
  <2>3. ASSUME CopyChunk \/ ChunkCopied \/ TailSaved
        PROVE  Answering
    BY <2>3 DEF CopyChunk, ChunkCopied, TailSaved, Handling, Own, Answer, Answering, Settled
  <2>4. ASSUME ReadDone \/ ReadTmpDone
        PROVE  Answering
    BY <2>4 DEF ReadDone, ReadTmpDone, Handling, Own, Answer, Answering, Settled
  <2>5. Handle
    BY <1>2
  <2> QED
    BY <2>1, <2>2, <2>3, <2>4, <2>5 DEF Handle
<1>3. ASSUME CallbackReturns \/ Worker
      PROVE  Answering
  BY <1>3 DEF CallbackReturns, Worker, PerformRequest, FailRequest, Answering
<1>4. ASSUME ReaderRuns
      PROVE  Answering
  BY <1>4 DEF ReaderRuns, RunMake, MakeFails, RunMade, OfFile, PassOn, OfTmpFile, Cached,
     Deliver, Task, BufferRests, Running, Own, Answer, Answering
<1>5. ASSUME Ask \/ Stop
      PROVE  Answering
  BY <1>5 DEF Ask, Stop, BufferRests, vars, Answering
<1> QED
  BY <1>1, <1>2, <1>3, <1>4, <1>5

\* They answer calls and leave none waiting anew.
LEMMA AnsweringShrinks ==
  ASSUME TokenInv, Answering
  PROVE  Unanswered' \subseteq Unanswered
<1>1. CASE UNCHANGED answers
  BY <1>1 DEF Answering, Unanswered
<1>2. CASE io_ # <<>> /\ Own(Head(io_)) /\ \E a : answers' = [answers EXCEPT ![Turn] = a]
  <2>1. Turn \in Unanswered
    BY <1>2, HeadOfIo DEF Unanswered
  <2>2. \A c \in 1..Len(calls) : c \in Ids /\ (c # Turn => answers'[c] = answers[c])
    BY <1>2, SwappingBufferAssumption DEF TokenInv, Lists, Ids
  <2> QED
    BY <2>1, <2>2 DEF Answering, Unanswered
<1> QED
  BY <1>1, <1>2 DEF Answering

\* A step that neither begins nor ends a swap and posts no operation.
Quiet ==
  /\ SwapRequests' = SwapRequests /\ SwapHandlers' = SwapHandlers
  /\ PostedOperations' \subseteq PostedOperations
  /\ UNCHANGED <<callbacks, swapping, currentBuffer, calls, pc>>

\* What is taken from the queue of the io_service, and posted to it.
LEMMA QuietIo ==
  ASSUME TokenInv, io_ # <<>>, Head(io_) \notin SwapHandlers,
         \/ io_' = Tail(io_)
         \/ \E t : t.task \notin {"handler", "operation"} /\ io_' = Append(Tail(io_), t)
  PROVE  SwapHandlers' = SwapHandlers /\ PostedOperations' \subseteq PostedOperations
<1>1. /\ Elements(Tail(io_)) \subseteq Elements(io_) /\ IsList(Tail(io_))
      /\ Elements(io_) \subseteq Elements(Tail(io_)) \cup {Head(io_)}
  BY IoSets
<1>2. CASE io_' = Tail(io_)
  BY <1>1, <1>2 DEF SwapHandlers, PostedOperations
<1>3. ASSUME NEW t, t.task \notin {"handler", "operation"}, io_' = Append(Tail(io_), t)
      PROVE  SwapHandlers' = SwapHandlers /\ PostedOperations' \subseteq PostedOperations
  <2>1. Elements(io_') = Elements(Tail(io_)) \cup {t}
    BY <1>1, <1>3, AppendList
  <2> QED
    BY <1>1, <1>3, <2>1 DEF SwapHandlers, PostedOperations
<1> QED
  BY <1>2, <1>3

\* The swap requests when another request is submitted.
LEMMA QuietFs ==
  ASSUME TokenInv, \/ UNCHANGED fs
                   \/ \E r : r.step # "swap" /\ Submit(r)
  PROVE  SwapRequests' = SwapRequests
<1>1. CASE UNCHANGED fs
  BY <1>1 DEF SwapRequests
<1>2. ASSUME NEW r, r.step # "swap", Submit(r)
      PROVE  SwapRequests' = SwapRequests
  BY <1>2, FsSets DEF Submit, SwapRequests
<1> QED
  BY <1>1, <1>2

\* The operations other than an append neither begin nor end a swap.
LEMMA QuietRun ==
  ASSUME TokenInv, RunSize \/ RunClear \/ RunCleared \/ RunReadAll \/ RunSave
  PROVE  Quiet
<1>1. /\ io_ # <<>> /\ Head(io_) \notin SwapHandlers
      /\ UNCHANGED <<callbacks, swapping, currentBuffer, calls, pc>>
      /\ \/ io_' = Tail(io_)
         \/ io_' = Append(Tail(io_), [task |-> "cleared", call |-> Turn])
  BY DEF RunSize, RunClear, RunCleared, RunReadAll, RunSave, Running, SwapHandlers, bufferVars
<1>2. [task |-> "cleared", call |-> Turn].task = "cleared"
  OBVIOUS
<1>3. UNCHANGED fs \/ \E r : r.step # "swap" /\ Submit(r)
  BY DEF RunSize, RunClear, RunCleared, RunReadAll, RunSave, SaveLocal, NextChunk, Request
<1>4. SwapHandlers' = SwapHandlers /\ PostedOperations' \subseteq PostedOperations
  <2> DEFINE t == [task |-> "cleared", call |-> Turn]
  <2>1. t.task \notin {"handler", "operation"}
    BY <1>2
  <2>2. io_' = Tail(io_) \/ io_' = Append(Tail(io_), t)
    BY <1>1
  <2> HIDE DEF t
  <2> QED
    BY <1>1, <2>1, <2>2, QuietIo
<1> QED
  BY <1>1, <1>3, <1>4, QuietFs DEF Quiet

OtherHandle ==
  LocalSaved \/ RestSaved \/ MoveFailed \/ CopyChunk \/ ChunkCopied \/ TailSaved \/ ReadDone \/ ReadTmpDone

\* Nor do the handlers of the other requests.
LEMMA QuietHandle ==
  ASSUME TokenInv, OtherHandle
  PROVE  Quiet
<1>1. Settled /\ \E step \in SaveSteps \cup {"read", "read_tmp"} : Handling(step)
  BY DEF OtherHandle, LocalSaved, RestSaved, MoveFailed, CopyChunk, ChunkCopied, TailSaved, ReadDone,
     ReadTmpDone, SaveSteps
<1>2. io_ # <<>> /\ Head(io_) \notin SwapHandlers /\ io_' = Tail(io_)
  BY <1>1 DEF Handling, SwapHandlers, SaveSteps
<1>3. UNCHANGED fs \/ \E r : r.step # "swap" /\ Submit(r)
  <2>1. ASSUME LocalSaved \/ RestSaved \/ MoveFailed \/ CopyChunk
        PROVE  UNCHANGED fs \/ \E r : r.step # "swap" /\ Submit(r)
    BY <2>1 DEF LocalSaved, RestSaved, MoveFailed, CopyChunk, SaveLocal, Request
  <2>2. ASSUME ChunkCopied \/ TailSaved \/ ReadDone \/ ReadTmpDone
        PROVE  UNCHANGED fs \/ \E r : r.step # "swap" /\ Submit(r)
    BY <2>2 DEF ChunkCopied, TailSaved, ReadDone, ReadTmpDone, NextChunk, Request
  <2> QED
    BY <2>1, <2>2 DEF OtherHandle
<1> QED
  BY <1>1, <1>2, <1>3, QuietIo, QuietFs DEF Quiet, Settled

\* Nor do the readers.
LEMMA QuietReader ==
  ASSUME TokenInv, ReaderRuns \/ Ask \/ Stop
  PROVE  Quiet
<1>1. ASSUME ReaderRuns
      PROVE  Quiet
  <2>1. /\ io_ # <<>> /\ Head(io_) \notin SwapHandlers
        /\ UNCHANGED <<fs, callbacks, swapping, currentBuffer, calls, pc>>
    BY <1>1 DEF ReaderRuns, RunMake, MakeFails, RunMade, OfFile, PassOn, OfTmpFile, Cached,
       Deliver, Task, BufferRests, Running, SwapHandlers, bufferVars
  <2>2. \/ io_' = Tail(io_)
        \/ \E t : t.task \in {"made", "answer", "pass_on", "cached"} /\ io_' = Append(Tail(io_), t)
    <3>1. CASE RunMake
      <4> DEFINE t == [task |-> "made", call |-> Turn, reader |-> NewReader']
      <4>1. t.task = "made"
        OBVIOUS
      <4>2. io_' = Append(Tail(io_), t)
        BY <3>1 DEF RunMake
      <4> HIDE DEF t
      <4> QED
        BY <4>1, <4>2
    <3>2. CASE MakeFails \/ RunMade \/ OfFile \/ PassOn \/ OfTmpFile \/ Cached \/ Deliver
      BY <3>2 DEF MakeFails, RunMade, OfFile, PassOn, OfTmpFile, Cached, Deliver, EndOfTmpFile,
         AskStream, CacheNext, PostedAnswer, Posted
    <3> QED
      BY <1>1, <3>1, <3>2 DEF ReaderRuns
  <2> QED
    BY <2>1, <2>2, QuietIo, QuietFs DEF Quiet
<1>2. ASSUME Ask
      PROVE  Quiet
  <2>1. UNCHANGED <<callbacks, fs, swapping, currentBuffer, calls, pc>>
    BY <1>2 DEF Ask, BufferRests, bufferVars
  <2>2. PICK t : t.task \in {"answer", "of_file", "of_tmp_file", "cached"} /\ io_' = Append(io_, t)
    BY <1>2, AskPosts
  <2>3. Elements(io_') = Elements(io_) \cup {t}
    BY <2>2, AppendList DEF TokenInv, Lists
  <2> QED
    BY <2>1, <2>2, <2>3, QuietFs DEF Quiet, SwapHandlers, PostedOperations
<1>3. ASSUME Stop
      PROVE  Quiet
  BY <1>3 DEF Stop, vars, queueVars, bufferVars, Quiet, SwapHandlers, PostedOperations, SwapRequests
<1> QED
  BY <1>1, <1>2, <1>3

\* Nor does the worker with another request.
LEMMA QuietWorker ==
  ASSUME TokenInv, Worker, Head(fs).step # "swap"
  PROVE  Quiet
<1>1. /\ fs # <<>> /\ fs' = Tail(fs) /\ UNCHANGED <<callbacks, swapping, currentBuffer, calls, pc>>
      /\ \E code, data : Handler(Head(fs), code, data)
  BY DEF Worker, PerformRequest, FailRequest, bufferVars
<1>2. PICK t : t.task = "handler" /\ t.request = Head(fs) /\ io_' = Append(io_, t)
  BY <1>1 DEF Handler
<1>3. Elements(io_') = Elements(io_) \cup {t}
  BY <1>2, AppendList DEF TokenInv, Lists
<1>4. SwapHandlers' = SwapHandlers /\ PostedOperations' = PostedOperations
  BY <1>2, <1>3 DEF SwapHandlers, PostedOperations
<1>5. SwapRequests' = SwapRequests
  BY <1>1, FsSets DEF SwapRequests
<1> QED
  BY <1>1, <1>4, <1>5 DEF Quiet

\* Such a step preserves OverlapInv and SwapInv.
LEMMA QuietSwaps ==
  ASSUME TokenInv, OverlapInv, SwapInv, Quiet, Answering
  PROVE  OverlapInv' /\ SwapInv'
BY QuietStep, AnsweringShrinks DEF Quiet

\* The overlaps survive every step that makes no call and lets nothing new wait.
LEMMA OverlapsKept ==
  ASSUME TokenInv, OverlapInv, Answering, Queued' \subseteq Queued
  PROVE  OverlapInv'
<1>1. Unanswered' \subseteq Unanswered /\ UNCHANGED calls
  BY AnsweringShrinks DEF Answering
<1> QED
  BY <1>1 DEF OverlapInv, Key, Follower

\* An append whose turn has come finds no swap in progress and nothing that waits.
LEMMA RunAppendSwaps ==
  ASSUME TokenInv, OverlapInv, SwapInv, SwapsAwaited, RunAppend
  PROVE  /\ OverlapInv' /\ SwapInv' /\ ~swapping /\ SwapHandlers = {} /\ SwapRequests = {}
         /\ SwapHandlers' = {} /\ SwapRequests' # {}
         /\ \A r \in SwapRequests' : r.mode = "write" => ~isOnDisk
<1>1. /\ io_ # <<>> /\ Own(Head(io_)) /\ Head(io_).task = "operation" /\ calls[Head(io_).call].op = "append"
      /\ io_' = Tail(io_) /\ pc = "idle" /\ UNCHANGED <<callbacks, pc>>
      /\ startSwapping(Turn, bufs[currentBuffer], <<>>)
  BY DEF RunAppend, Running, Own
<1>2. Elements(io_') = Elements(io_) \ {Head(io_)} /\ Head(io_) \in PostedOperations
  BY <1>1, IoSets DEF PostedOperations
<1>3. Queued = {Head(io_).call}
  BY <1>1, <1>2, PostedAppendAlone
<1>4. PostedOperations' = {}
  <2>1. IoCalls(Tail(io_)) = IoCalls(io_) \ {Head(io_).call}
    BY <1>1, IoTail DEF TokenInv, Lists
  <2> SUFFICES ASSUME NEW t \in PostedOperations'
               PROVE  FALSE
    OBVIOUS
  <2>2. t \in Elements(io_') /\ t.task = "operation" /\ t \in PostedOperations
    BY <1>2 DEF PostedOperations
  <2>3. t.call = Head(io_).call
    BY <1>3, <2>2 DEF Queued
  <2>4. t.call \in IoCalls(Tail(io_))
    BY <1>1, <2>2 DEF IoCalls, Own
  <2> QED
    BY <2>1, <2>3, <2>4
<1>5. ~swapping /\ SwapHandlers = {} /\ SwapRequests = {}
  BY <1>2 DEF SwapInv
<1>6. SwapHandlers' = SwapHandlers
  BY <1>2, <1>5 DEF SwapHandlers
<1>7. Queued' \subseteq Queued
  BY <1>1, <1>4 DEF Queued
<1>8. OverlapInv'
  BY <1>7, OverlapsKept, AnsweringStep DEF Run
<1> QED
  BY <1>1, <1>4, <1>5, <1>6, <1>8, BeginSwap

\* The handler of a swap is the only trace of it.
LEMMA SwapHandled ==
  ASSUME TokenInv, SwapInv, Handling("swap")
  PROVE  /\ SwapHandlers = {Head(io_)} /\ SwapRequests = {} /\ swapping /\ PostedOperations = {}
         /\ SwapHandlers' = {} /\ PostedOperations' = {} /\ pc = "idle"
<1>1. io_ # <<>> /\ Own(Head(io_)) /\ Head(io_).task = "handler" /\ Head(io_).request.step = "swap"
      /\ io_' = Tail(io_) /\ pc = "idle"
  BY DEF Handling, Own
<1>2. Elements(io_') = Elements(io_) \ {Head(io_)} /\ Head(io_) \in SwapHandlers
  BY <1>1, IoSets DEF SwapHandlers
<1>3. SwapHandlers = {Head(io_)} /\ SwapRequests = {} /\ swapping /\ PostedOperations = {}
  BY <1>2 DEF SwapInv
<1> QED
  BY <1>1, <1>2, <1>3 DEF SwapHandlers, PostedOperations

\* postSwapRoutine preserves OverlapInv and SwapInv.
LEMMA SwapHandledSwaps ==
  ASSUME TokenInv, OverlapInv, SwapInv, SwapDone \/ SwapRetry \/ SwapFailed
  PROVE  OverlapInv' /\ SwapInv'
<1>1. Handling("swap") /\ UNCHANGED <<callbacks, currentBuffer>>
  BY DEF SwapDone, SwapRetry, SwapFailed, bufferVars
<1>2. /\ SwapHandlers = {Head(io_)} /\ SwapRequests = {} /\ swapping /\ PostedOperations = {}
      /\ SwapHandlers' = {} /\ PostedOperations' = {} /\ pc = "idle"
  BY <1>1, SwapHandled
<1>3. OverlapInv'
  <2>1. Queued' = Queued
    BY <1>1, <1>2 DEF Queued
  <2> QED
    BY <2>1, OverlapsKept, AnsweringStep DEF Handle
<1>4. CASE SwapDone \/ SwapFailed
  <2>1. UNCHANGED fs /\ swapping' = FALSE
    BY <1>4 DEF SwapDone, SwapFailed
  <2>2. SwapRequests' = {}
    BY <1>2, <2>1 DEF SwapRequests
  <2> QED
    BY <1>1, <1>2, <1>3, <2>1, <2>2 DEF SwapInv
<1>5. CASE SwapRetry
  <2>1. PICK r : /\ fs' = Append(fs, r) /\ r.step = "swap" /\ r.file = "tmp" /\ r.buf = swappingBuffer
                 /\ r.mode \in {"append", "write"}
    BY <1>5 DEF SwapRetry, swappingOperation, Submit, Request
  <2>2. SwapRequests' = {r}
    BY <1>2, <2>1, FsSets DEF SwapRequests
  <2>3. swapping' = TRUE /\ UNCHANGED pc /\ swappingBuffer' = swappingBuffer
    BY <1>1, <1>5 DEF SwapRetry, swappingBuffer
  <2> QED
    BY <1>1, <1>2, <1>3, <2>1, <2>2, <2>3 DEF SwapInv, SwapRequest
<1> QED
  BY <1>4, <1>5

\* The return of the callback preserves OverlapInv and SwapInv: what waited is
\* posted, and no swap is in progress.
LEMMA CallbackSwaps ==
  ASSUME TokenInv, OverlapInv, SwapInv, CallbackReturns
  PROVE  OverlapInv' /\ SwapInv' /\ SwapRequests' = SwapRequests /\ SwapHandlers' = SwapHandlers
<1>1. /\ pc = "callback" /\ pc' = "idle" /\ UNCHANGED <<fs, swapping, currentBuffer>>
      /\ callbacks' = <<>>
      /\ Elements(io_') = Elements(io_) \cup OperationsOf(callbacks)
  BY PostList DEF CallbackReturns, Post, TokenInv, Lists, bufferVars
<1>2. SwapRequests' = SwapRequests /\ SwapHandlers' = SwapHandlers
      /\ PostedOperations' = PostedOperations \cup OperationsOf(callbacks)
  BY <1>1 DEF SwapRequests, SwapHandlers, PostedOperations, OperationsOf, OperationOf
<1>3. Queued' = Queued
  <2>1. Elements(callbacks') = {}
    BY <1>1, EmptyList
  <2> QED
    BY <1>2, <2>1, CallsOfOperations DEF Queued
<1>4. OverlapInv'
  BY <1>3, OverlapsKept, AnsweringStep
<1>5. swapping => PostedOperations' = {}
  <2>1. callbacks = <<>> => Elements(callbacks) = {}
    BY EmptyList
  <2> QED
    BY <1>1, <1>2, <2>1 DEF SwapInv, OperationsOf
<1>6. SwapInv'
  BY <1>1, <1>2, <1>5 DEF SwapInv, SwapRequest, swappingBuffer
<1> QED
  BY <1>2, <1>4, <1>6

\* A swap is performed, or fails: its request becomes its handler.
LEMMA WorkerSwaps ==
  ASSUME TokenInv, OverlapInv, SwapInv, Worker, Head(fs).step = "swap",
         NEW code, NEW data, Handler(Head(fs), code, data)
  PROVE  /\ OverlapInv' /\ SwapInv' /\ Head(fs) \in SwapRequests /\ SwapRequests' = {}
         /\ SwapHandlers = {}
         /\ \E t : SwapHandlers' = {t} /\ t.request = Head(fs) /\ t.ec = code
<1>1. /\ fs # <<>> /\ fs' = Tail(fs) /\ UNCHANGED <<callbacks, swapping, currentBuffer, calls, pc>>
  BY DEF Worker, PerformRequest, FailRequest, bufferVars
<1>2. PICK t : /\ t.task = "handler" /\ t.request = Head(fs) /\ t.ec = code
               /\ io_' = Append(io_, t)
  BY DEF Handler
<1>3. Elements(io_') = Elements(io_) \cup {t}
  BY <1>2, AppendList DEF TokenInv, Lists
<1>4. Elements(fs') = Elements(fs) \ {Head(fs)} /\ Head(fs) \in SwapRequests
  BY <1>1, FsSets DEF SwapRequests
<1>5. SwapRequests = {Head(fs)} /\ SwapHandlers = {}
  BY <1>4 DEF SwapInv
<1>6. SwapRequests' = {}
  BY <1>4, <1>5 DEF SwapRequests
<1>7. SwapHandlers' = {t} /\ PostedOperations' = PostedOperations
  BY <1>2, <1>3, <1>5 DEF SwapHandlers, PostedOperations
<1>8. OverlapInv'
  <2>1. Queued' = Queued
    BY <1>1, <1>7 DEF Queued
  <2> QED
    BY <2>1, OverlapsKept, AnsweringStep
<1>9. SwapInv'
  BY <1>1, <1>2, <1>4, <1>5, <1>6, <1>7 DEF SwapInv, SwapRequest, swappingBuffer
<1> QED
  BY <1>2, <1>4, <1>5, <1>6, <1>7, <1>8, <1>9

-----------------------------------------------------------------------------
(* What each step takes from the queues and adds to them.                  *)

\* A task that a step posts, and a request that it submits, for the call whose turn it is.
NewTask(t) ==
  /\ t.task # "operation"
  /\ t.task = "handler" =>
       fs # <<>> /\ fs' = Tail(fs) /\ t.request = Head(fs) /\ t.call = Head(fs).call
  /\ t.task \in {"cleared", "made"} =>
       io_ # <<>> /\ Own(Head(io_)) /\ t.call = Turn /\ TaskOp(t)

NewRequest(r) ==
  io_ # <<>> /\ Own(Head(io_)) /\ r.call = Turn /\ calls[Turn].op = OpOf(r.step)

IoStep ==
  \/ UNCHANGED io_
  \/ io_ # <<>> /\ io_' = Tail(io_)
  \/ \E t : NewTask(t) /\ (io_' = Append(io_, t) \/ (io_ # <<>> /\ io_' = Append(Tail(io_), t)))

FsStep ==
  \/ UNCHANGED fs
  \/ fs # <<>> /\ fs' = Tail(fs)
  \/ \E r : NewRequest(r) /\ Submit(r)

PlainStep == UNCHANGED <<calls, callbacks>> /\ IoStep /\ FsStep

\* A handler that runs belongs to the operation its step is a part of.
LEMMA HandlingOp ==
  ASSUME TokenInv, KindInv, NEW step, Handling(step)
  PROVE  /\ io_ # <<>> /\ Own(Head(io_)) /\ io_' = Tail(io_) /\ calls[Turn].op = OpOf(step)
<1>1. io_ # <<>> /\ Own(Head(io_)) /\ io_' = Tail(io_) /\ Head(io_).task = "handler"
      /\ Head(io_).request.step = step
  BY DEF Handling, Own
<1>2. Head(io_) \in Elements(io_)
  BY <1>1, HeadOfIo
<1> QED
  BY <1>1, <1>2 DEF KindInv, TaskOp, Turn

\* The operations that run.
LEMMA RunPlain ==
  ASSUME Run
  PROVE  PlainStep
<1>1. CASE RunAppend
  <2>1. \E r : r.step = "swap" /\ r.call = Turn /\ Submit(r)
    BY <1>1 DEF RunAppend, startSwapping, swappingOperation, Request
  <2>2. io_ # <<>> /\ Own(Head(io_)) /\ calls[Turn].op = "append" /\ io_' = Tail(io_) /\ UNCHANGED <<calls, callbacks>>
    BY <1>1 DEF RunAppend, Running, Own, Turn
  <2> QED
    BY <2>1, <2>2 DEF PlainStep, IoStep, FsStep, NewRequest, OpOf
<1>2. CASE RunSize \/ RunCleared
  BY <1>2 DEF RunSize, RunCleared, Running, PlainStep, IoStep, FsStep
<1>3. CASE RunClear
  <2> DEFINE t == [task |-> "cleared", call |-> Turn]
  <2>1. io_ # <<>> /\ Own(Head(io_)) /\ calls[Turn].op = "clear" /\ UNCHANGED <<calls, callbacks, fs>>
        /\ io_' = Append(Tail(io_), t)
    BY <1>3 DEF RunClear, Running, Own, Turn
  <2>2. t.task = "cleared" /\ t.call = Turn
    OBVIOUS
  <2> HIDE DEF t
  <2>3. NewTask(t)
    BY <2>1, <2>2 DEF NewTask, TaskOp
  <2> QED
    BY <2>1, <2>3 DEF PlainStep, IoStep, FsStep
<1>4. CASE RunReadAll
  <2>1. io_ # <<>> /\ Own(Head(io_)) /\ calls[Turn].op = "readAll" /\ io_' = Tail(io_) /\ UNCHANGED <<calls, callbacks>>
    BY <1>4 DEF RunReadAll, Running, Own, Turn
  <2>2. UNCHANGED fs \/ \E r : r.step = "read" /\ r.call = Turn /\ Submit(r)
    BY <1>4 DEF RunReadAll, Request
  <2> QED
    BY <2>1, <2>2 DEF PlainStep, IoStep, FsStep, NewRequest, OpOf
<1>5. CASE RunSave
  <2>1. io_ # <<>> /\ Own(Head(io_)) /\ calls[Turn].op = "save" /\ io_' = Tail(io_) /\ UNCHANGED <<calls, callbacks>>
    BY <1>5 DEF RunSave, Running, Own, Turn
  <2>2. UNCHANGED fs \/ \E r : r.step \in {"local", "chunk", "rest"} /\ r.call = Turn /\ Submit(r)
    BY <1>5 DEF RunSave, Request, SaveLocal, NextChunk
  <2> QED
    BY <2>1, <2>2 DEF PlainStep, IoStep, FsStep, NewRequest, OpOf
<1> QED
  BY <1>1, <1>2, <1>3, <1>4, <1>5 DEF Run

\* The handlers: each belongs to the operation of its request, and submits requests of it.
LEMMA HandlePlain ==
  ASSUME TokenInv, KindInv, Handle
  PROVE  PlainStep
<1>1. ASSUME NEW step, Handling(step), UNCHANGED <<calls, callbacks>>,
             UNCHANGED fs \/ \E r : OpOf(r.step) = OpOf(step) /\ r.call = Turn /\ Submit(r)
      PROVE  PlainStep
  BY <1>1, HandlingOp DEF PlainStep, IoStep, FsStep, NewRequest
<1>2. CASE SwapDone \/ SwapRetry \/ SwapFailed
  <2>1. Handling("swap") /\ UNCHANGED <<calls, callbacks>>
        /\ (UNCHANGED fs \/ \E r : r.step = "swap" /\ r.call = Turn /\ Submit(r))
    BY <1>2 DEF SwapDone, SwapRetry, SwapFailed, swappingOperation, Request
  <2> QED
    BY <1>1, <2>1
<1>3. CASE LocalSaved \/ RestSaved \/ MoveFailed
  <2>1. \E step \in SaveSteps : Handling(step)
    BY <1>3 DEF LocalSaved, RestSaved, MoveFailed, SaveSteps
  <2>2. UNCHANGED <<calls, callbacks>>
        /\ (UNCHANGED fs \/ \E r : r.step \in SaveSteps /\ r.call = Turn /\ Submit(r))
    BY <1>3 DEF LocalSaved, RestSaved, MoveFailed, Settled, SaveLocal, Request, SaveSteps
  <2> QED
    BY <1>1, <2>1, <2>2 DEF OpOf, SaveSteps
<1>4. CASE CopyChunk \/ ChunkCopied \/ TailSaved
  <2>1. \E step \in SaveSteps : Handling(step)
    BY <1>4 DEF CopyChunk, ChunkCopied, TailSaved, SaveSteps
  <2>2. UNCHANGED <<calls, callbacks>>
        /\ (UNCHANGED fs \/ \E r : r.step \in SaveSteps /\ r.call = Turn /\ Submit(r))
    BY <1>4 DEF CopyChunk, ChunkCopied, TailSaved, Settled, NextChunk, Request, SaveSteps
  <2> QED
    BY <1>1, <2>1, <2>2 DEF OpOf, SaveSteps
<1>5. CASE ReadDone \/ ReadTmpDone
  <2>1. \E step \in {"read", "read_tmp"} : Handling(step)
    BY <1>5 DEF ReadDone, ReadTmpDone
  <2>2. UNCHANGED <<calls, callbacks>>
        /\ (UNCHANGED fs \/ \E r : r.step \in {"read", "read_tmp"} /\ r.call = Turn /\ Submit(r))
    BY <1>5 DEF ReadDone, ReadTmpDone, Settled, Request
  <2> QED
    BY <1>1, <2>1, <2>2 DEF OpOf
<1> QED
  BY <1>2, <1>3, <1>4, <1>5 DEF Handle

\* The worker.
LEMMA WorkerPlain ==
  ASSUME Worker
  PROVE  PlainStep
<1>1. fs # <<>> /\ fs' = Tail(fs) /\ UNCHANGED <<calls, callbacks>>
      /\ \E code, data : Handler(Head(fs), code, data)
  BY DEF Worker, PerformRequest, FailRequest
<1>2. PICK code, data : Handler(Head(fs), code, data)
  BY <1>1
<1> DEFINE t == [task |-> "handler", call |-> Head(fs).call, request |-> Head(fs), ec |-> code, data |-> data]
<1>3. io_' = Append(io_, t) /\ t.task = "handler" /\ t.call = Head(fs).call /\ t.request = Head(fs)
  BY <1>2 DEF Handler
<1> HIDE DEF t
<1>4. NewTask(t)
  BY <1>1, <1>3 DEF NewTask
<1> QED
  BY <1>1, <1>3, <1>4 DEF PlainStep, IoStep, FsStep

\* The readers.
LEMMA ReaderPlain ==
  ASSUME ReaderRuns \/ Ask \/ Stop
  PROVE  PlainStep
<1>1. UNCHANGED <<calls, callbacks, fs>>
  <2>1. CASE ReaderRuns
    BY <2>1 DEF ReaderRuns, RunMake, MakeFails, RunMade, OfFile, PassOn, OfTmpFile, Cached,
       Deliver, Task, BufferRests
  <2>2. CASE Ask \/ Stop
    BY <2>2 DEF Ask, Stop, BufferRests, vars, queueVars
  <2> QED
    BY <2>1, <2>2
<1>2. IoStep
  <2>1. CASE RunMake
    <3> DEFINE t == [task |-> "made", call |-> Turn, reader |-> NewReader']
    <3>1. io_ # <<>> /\ Own(Head(io_)) /\ calls[Turn].op = "make_chunked_stream" /\ io_' = Append(Tail(io_), t)
      BY <2>1 DEF RunMake, Running, Own, Turn
    <3>2. t.task = "made" /\ t.call = Turn
      OBVIOUS
    <3> HIDE DEF t
    <3> QED
      BY <3>1, <3>2 DEF NewTask, TaskOp, IoStep
  <2>2. CASE MakeFails \/ RunMade \/ Deliver
    BY <2>2 DEF MakeFails, RunMade, Deliver, Running, Task, IoStep
  <2>3. CASE OfFile \/ PassOn \/ OfTmpFile \/ Cached
    <3>1. io_ # <<>>
      BY <2>3 DEF OfFile, PassOn, OfTmpFile, Cached, Task
    <3>2. \/ io_' = Tail(io_)
          \/ \E t : t.task \in {"answer", "pass_on", "cached"} /\ io_' = Append(Tail(io_), t)
      BY <2>3 DEF OfFile, PassOn, OfTmpFile, Cached, EndOfTmpFile, AskStream, CacheNext,
         PostedAnswer, Posted
    <3> QED
      BY <3>1, <3>2 DEF IoStep, NewTask
  <2>4. CASE Ask
    <3>1. \E t : t.task \in {"answer", "of_file", "of_tmp_file", "cached"} /\ io_' = Append(io_, t)
      BY <2>4, AskPosts
    <3> QED
      BY <3>1 DEF IoStep, NewTask
  <2>5. CASE Stop
    BY <2>5 DEF Stop, vars, queueVars, IoStep
  <2> QED
    BY <2>1, <2>2, <2>3, <2>4, <2>5 DEF ReaderRuns
<1> QED
  BY <1>1, <1>2 DEF PlainStep, FsStep

-----------------------------------------------------------------------------
(* What each request is for, and the order in which calls have their turns. *)

\* The tasks and the requests a step leaves behind.
LEMMA PlainElements ==
  ASSUME TokenInv, PlainStep
  PROVE  /\ \A u \in Elements(io_') : u \in Elements(io_) \/ NewTask(u)
         /\ \A r \in Elements(fs') : r \in Elements(fs) \/ NewRequest(r)
<1>1. \A u \in Elements(io_') : u \in Elements(io_) \/ NewTask(u)
  <2>1. CASE UNCHANGED io_
    BY <2>1
  <2>2. CASE io_ # <<>> /\ io_' = Tail(io_)
    BY <2>2, IoSets
  <2>3. ASSUME NEW t, NewTask(t), io_' = Append(io_, t) \/ (io_ # <<>> /\ io_' = Append(Tail(io_), t))
        PROVE  \A u \in Elements(io_') : u \in Elements(io_) \/ NewTask(u)
    <3>1. CASE io_' = Append(io_, t)
      <4>1. Elements(io_') = Elements(io_) \cup {t}
        BY <3>1, AppendList DEF TokenInv, Lists
      <4> QED
        BY <2>3, <4>1
    <3>2. CASE io_ # <<>> /\ io_' = Append(Tail(io_), t)
      <4>1. Elements(io_') = Elements(Tail(io_)) \cup {t} /\ Elements(Tail(io_)) \subseteq Elements(io_)
        BY <3>2, IoSets, AppendList
      <4> QED
        BY <2>3, <4>1
    <3> QED
      BY <2>3, <3>1, <3>2
  <2> QED
    BY <2>1, <2>2, <2>3 DEF PlainStep, IoStep
<1>2. \A r \in Elements(fs') : r \in Elements(fs) \/ NewRequest(r)
  <2>1. CASE UNCHANGED fs
    BY <2>1
  <2>2. CASE fs # <<>> /\ fs' = Tail(fs)
    BY <2>2, FsSets
  <2>3. ASSUME NEW r, NewRequest(r), Submit(r)
        PROVE  \A q \in Elements(fs') : q \in Elements(fs) \/ NewRequest(q)
    BY <2>3, FsSets DEF Submit
  <2> QED
    BY <2>1, <2>2, <2>3 DEF PlainStep, FsStep
<1> QED
  BY <1>1, <1>2

\* Nothing new waits for a swap, or for its turn.
LEMMA PlainQueued ==
  ASSUME TokenInv, PlainStep
  PROVE  PostedOperations' \subseteq PostedOperations /\ Queued' \subseteq Queued
<1>1. PostedOperations' \subseteq PostedOperations
  BY PlainElements DEF PostedOperations, NewTask
<1> QED
  BY <1>1 DEF Queued, PlainStep

\* Requests and tasks keep to the operation they are a part of.
LEMMA PlainKind ==
  ASSUME TokenInv, KindInv, PlainStep
  PROVE  KindInv'
<1>1. UNCHANGED calls
  BY DEF PlainStep
<1>2. ASSUME NEW r \in Elements(fs')
      PROVE  calls'[r.call].op = OpOf(r.step)
  BY <1>1, <1>2, PlainElements DEF KindInv, NewRequest
<1>3. ASSUME NEW t \in Elements(io_')
      PROVE  TaskOp(t)'
  <2>1. CASE t \in Elements(io_)
    BY <1>1, <2>1 DEF KindInv, TaskOp
  <2>2. CASE NewTask(t)
    <3>1. t.task = "handler" => t.request \in Elements(fs) /\ t.call = t.request.call
      <4>1. fs # <<>> /\ fs' = Tail(fs) => Head(fs) \in Elements(fs)
        BY FsSets
      <4> QED
        BY <2>2, <4>1 DEF NewTask
    <3>2. t.task \in {"cleared", "made"} => TaskOp(t)
      BY <2>2 DEF NewTask
    <3> QED
      BY <1>1, <3>1, <3>2 DEF KindInv, TaskOp
  <2> QED
    BY <1>3, <2>1, <2>2, PlainElements
<1> QED
  BY <1>2, <1>3 DEF KindInv

\* The same when a call is made.
LEMMA CallKind ==
  ASSUME TokenInv, RequestInv, KindInv, NewCall,
         \A r \in Elements(fs') : r \in Elements(fs) \/ (r.call = New /\ calls'[New].op = OpOf(r.step)),
         \A t \in Elements(io_') : t \in Elements(io_) \/ t.task = "operation"
  PROVE  KindInv'
<1>1. /\ \A c \in 1..Len(calls) : calls'[c] = calls[c]
      /\ \A r \in Elements(fs) : r.call \in 1..Len(calls)
  BY Called, RequestsOfOldCalls DEF TokenInv
<1>2. \A t \in Elements(io_) : t.task \in {"handler", "cleared", "made"} => t.call \in 1..Len(calls)
  BY DEF TokenInv, Outstanding, IoCalls, Own, Unanswered
<1>3. \A r \in Elements(fs') : calls'[r.call].op = OpOf(r.step)
  BY <1>1 DEF KindInv
<1>4. ASSUME NEW t \in Elements(io_')
      PROVE  TaskOp(t)'
  BY <1>1, <1>2, <1>4 DEF KindInv, TaskOp
<1> QED
  BY <1>3, <1>4 DEF KindInv

\* Every call of the application, and the return of a callback, preserve KindInv.
LEMMA AppCallKind ==
  ASSUME TokenInv, RequestInv, KindInv, AppCall \/ Enqueue("make_chunked_stream") \/ CallbackReturns
  PROVE  KindInv'
<1>0. Lists
  BY DEF TokenInv
<1>1. ASSUME NEW size \in Sizes, AppendInMemory(size)
      PROVE  KindInv'
  <2>1. NewCall /\ UNCHANGED queueVars
    BY <1>0, <1>1, CalledIs DEF AppendInMemory, AppendCall
  <2> QED
    BY <2>1, CallKind DEF queueVars
<1>2. ASSUME NEW size \in Sizes, AppendHuge(size) \/ AppendAndSwap(size)
      PROVE  KindInv'
  <2>1. /\ NewCall /\ UNCHANGED io_ /\ calls'[New] = [op |-> "append", size |-> size]
        /\ \E r : r.call = New /\ r.step = "swap" /\ Submit(r)
    BY <1>0, <1>2, CalledIs DEF AppendHuge, AppendAndSwap, AppendCall, startSwapping,
       swappingOperation, Request
  <2>2. PICK r : r.call = New /\ r.step = "swap" /\ Submit(r)
    BY <2>1
  <2>3. Elements(fs') = Elements(fs) \cup {r}
    BY <2>2, FsSets DEF Submit
  <2>4. calls'[New].op = OpOf(r.step)
    BY <2>1, <2>2 DEF OpOf
  <2> QED
    BY <2>1, <2>2, <2>3, <2>4, CallKind
<1>3. ASSUME NewCall, enqueueAndRun(New), UNCHANGED fs
      PROVE  KindInv'
  <2>1. \A t \in Elements(io_') : t \in Elements(io_) \/ t.task = "operation"
    <3>1. CASE swapping
      BY <1>3, <3>1 DEF enqueueAndRun
    <3>2. CASE ~swapping
      <4> DEFINE l == Append(callbacks, New)
      <4>1. IsList(l)
        BY <1>0, AppendList DEF Lists
      <4>2. io_' = io_ \o Tasks(l)
        BY <1>3, <3>2 DEF enqueueAndRun, Post
      <4> HIDE DEF l
      <4>3. Elements(io_') = Elements(io_) \cup OperationsOf(l)
        BY <1>0, <4>1, <4>2, PostList DEF Lists
      <4> QED
        BY <4>3 DEF OperationsOf, OperationOf
    <3> QED
      BY <3>1, <3>2
  <2> QED
    BY <1>3, <2>1, CallKind
<1>4. ASSUME NEW size \in Sizes, AppendDuringSwap(size)
      PROVE  KindInv'
  BY <1>0, <1>3, <1>4, CalledIs DEF AppendDuringSwap, AppendCall
<1>5. ASSUME NEW op, Enqueue(op)
      PROVE  KindInv'
  BY <1>0, <1>3, <1>5, CalledIs DEF Enqueue
<1>6. CASE CallbackReturns
  <2>1. UNCHANGED <<fs, calls>> /\ io_' = io_ \o Tasks(callbacks)
    BY <1>6 DEF CallbackReturns, Post
  <2>2. Elements(io_') = Elements(io_) \cup OperationsOf(callbacks)
    BY <1>0, <2>1, PostList DEF Lists
  <2>3. \A t \in OperationsOf(callbacks) : t.task = "operation"
    BY DEF OperationsOf, OperationOf
  <2> QED
    BY <2>1, <2>2, <2>3 DEF KindInv, TaskOp
<1> QED
  BY <1>1, <1>2, <1>4, <1>5, <1>6 DEF AppCall

-----------------------------------------------------------------------------
\* A list in order is still so when something greater is added.
LEMMA SortedAppend ==
  ASSUME NEW s, IsList(s), Sorted(s), NEW c, \A x \in Elements(s) : x < c
  PROVE  Sorted(Append(s, c))
<1> DEFINE a == Append(s, c)
           n == Len(s)
<1>1. /\ n \in Nat /\ Len(a) = n + 1 /\ a[n + 1] = c
      /\ \A i \in 1..n : a[i] = s[i] /\ s[i] < c
  BY AppendList DEF Elements
<1>2. \A i \in 1..(n + 1) : i \in 1..n \/ i = n + 1
  BY <1>1
<1>3. \A i, j \in 1..n : i < j => s[i] < s[j]
  BY DEF Sorted
<1> HIDE DEF a, n
<1>4. \A i, j \in 1..(n + 1) : i < j => a[i] < a[j]
  <2> SUFFICES ASSUME NEW i \in 1..(n + 1), NEW j \in 1..(n + 1), i < j
               PROVE  a[i] < a[j]
    OBVIOUS
  <2>1. i \in 1..n
    BY <1>1
  <2>2. CASE j \in 1..n
    BY <1>1, <1>3, <2>1, <2>2
  <2>3. CASE j = n + 1
    BY <1>1, <2>1, <2>3
  <2> QED
    BY <1>2, <2>2, <2>3
<1> QED
  BY <1>1, <1>4 DEF Sorted, a

\* The first operation posted is the earliest; the others keep their order.
LEMMA OperationsTail ==
  ASSUME NEW s, IsList(s), s # <<>>, OperationsSorted(s)
  PROVE  /\ OperationsSorted(Tail(s))
         /\ IsOperation(Head(s)) =>
              \A t \in Elements(Tail(s)) : IsOperation(t) => Head(s).call < t.call
<1> DEFINE a == Tail(s)
           n == Len(a)
           h == Head(s)
<1>1. /\ n \in Nat /\ Len(s) = n + 1 /\ h = s[1]
      /\ \A i \in 1..n : i + 1 \in 1..Len(s) /\ a[i] = s[i + 1]
  BY TailList
<1>2. \A i, j \in 1..Len(s) : i < j /\ IsOperation(s[i]) /\ IsOperation(s[j]) => s[i].call < s[j].call
  BY DEF OperationsSorted
<1>3. Elements(a) = {a[i] : i \in 1..n}
  BY DEF Elements
<1> HIDE DEF a, n, h
<1>4. ASSUME NEW i \in 1..n, NEW j \in 1..n, i < j, IsOperation(a[i]), IsOperation(a[j])
      PROVE  a[i].call < a[j].call
  <2>1. i + 1 < j + 1 /\ i + 1 \in 1..Len(s) /\ j + 1 \in 1..Len(s)
    BY <1>1, <1>4
  <2>2. a[i] = s[i + 1] /\ a[j] = s[j + 1]
    BY <1>1
  <2> QED
    BY <1>2, <1>4, <2>1, <2>2
<1>5. ASSUME IsOperation(h), NEW i \in 1..n, IsOperation(a[i])
      PROVE  h.call < a[i].call
  <2>1. 1 < i + 1 /\ i + 1 \in 1..Len(s) /\ 1 \in 1..Len(s)
    BY <1>1
  <2> QED
    BY <1>1, <1>2, <1>5, <2>1
<1>6. OperationsSorted(a)
  BY <1>4 DEF OperationsSorted, n
<1>7. IsOperation(h) => \A t \in Elements(a) : IsOperation(t) => h.call < t.call
  BY <1>3, <1>5
<1> QED
  BY <1>6, <1>7 DEF a, h

\* What is no operation may be posted at any time.
LEMMA OperationsAppend ==
  ASSUME NEW s, IsList(s), OperationsSorted(s), NEW t, ~IsOperation(t)
  PROVE  OperationsSorted(Append(s, t))
<1> DEFINE a == Append(s, t)
           n == Len(s)
<1>1. /\ n \in Nat /\ Len(a) = n + 1 /\ a[n + 1] = t
      /\ \A i \in 1..n : a[i] = s[i]
  BY AppendList
<1>2. \A i, j \in 1..n : i < j /\ IsOperation(s[i]) /\ IsOperation(s[j]) => s[i].call < s[j].call
  BY DEF OperationsSorted
<1> HIDE DEF a, n
<1>3. \A i \in 1..(n + 1) : i \in 1..n \/ a[i] = t
  BY <1>1
<1>4. \A i, j \in 1..(n + 1) : i < j /\ IsOperation(a[i]) /\ IsOperation(a[j]) => a[i].call < a[j].call
  BY <1>1, <1>2, <1>3
<1> QED
  BY <1>1, <1>4 DEF OperationsSorted, a

\* A list of calls that are later than the operations that are posted may be posted.
LEMMA OperationsPost ==
  ASSUME NEW s, IsList(s), OperationsSorted(s), NEW l, IsList(l), Sorted(l),
         \A t \in Elements(s), c \in Elements(l) : IsOperation(t) => t.call < c
  PROVE  OperationsSorted(s \o Tasks(l))
<1> DEFINE a == s \o Tasks(l)
           m == Len(s)
           n == Len(l)
<1>1. /\ m \in Nat /\ n \in Nat /\ Len(a) = m + n
      /\ \A i \in 1..m : a[i] = s[i]
      /\ \A i \in 1..n : a[m + i] = OperationOf(l[i])
  <2>1. \A i \in 1..Len(l) : PostedAt(s, l, i) = OperationOf(l[i])
    BY PostList
  <2>2. /\ Len(s) \in Nat /\ Len(l) \in Nat /\ Len(s \o Tasks(l)) = Len(s) + Len(l)
        /\ \A i \in 1..Len(s) : (s \o Tasks(l))[i] = s[i]
    BY PostList
  <2>3. \A i \in 1..Len(l) : (s \o Tasks(l))[Len(s) + i] = OperationOf(l[i])
    BY <2>1 DEF PostedAt
  <2> QED
    BY <2>2, <2>3
<1>2. \A c : OperationOf(c).call = c
  BY DEF OperationOf
<1>3. \A i \in 1..(m + n) : i \in 1..m \/ (i - m \in 1..n /\ i = m + (i - m))
  BY <1>1
<1>4. \A i, j \in 1..m : i < j /\ IsOperation(s[i]) /\ IsOperation(s[j]) => s[i].call < s[j].call
  BY DEF OperationsSorted
<1>5. \A i, j \in 1..n : i < j => l[i] < l[j]
  BY DEF Sorted
<1>6. \A i \in 1..m, j \in 1..n : IsOperation(s[i]) => s[i].call < l[j]
  BY DEF Elements
<1> HIDE DEF a, m, n
<1>7. ASSUME NEW i \in 1..(m + n), NEW j \in 1..(m + n), i < j, IsOperation(a[i]), IsOperation(a[j])
      PROVE  a[i].call < a[j].call
  <2>1. i \in 1..m \/ (i - m \in 1..n /\ a[i].call = l[i - m])
    BY <1>1, <1>2, <1>3
  <2>2. j \in 1..m \/ (j - m \in 1..n /\ a[j].call = l[j - m])
    BY <1>1, <1>2, <1>3
  <2>3. CASE j \in 1..m
    <3>1. i \in 1..m
      BY <1>1, <1>7, <2>3
    <3> QED
      BY <1>1, <1>4, <1>7, <2>3, <3>1
  <2>4. CASE i \in 1..m /\ j \notin 1..m
    BY <1>1, <1>6, <1>7, <2>2, <2>4
  <2>5. CASE i \notin 1..m /\ j \notin 1..m
    <3>1. i - m < j - m
      BY <1>1, <1>7
    <3> QED
      BY <1>5, <2>1, <2>2, <2>5, <3>1
  <2> QED
    BY <2>3, <2>4, <2>5
<1> QED
  BY <1>1, <1>7 DEF OperationsSorted, a

\* A step that is no call of the application leaves what waits in order.
LEMMA PlainSorted ==
  ASSUME TokenInv, OperationsSorted(io_), PlainStep
  PROVE  OperationsSorted(io_')
<1>0. IsList(io_)
  BY DEF TokenInv, Lists
<1>1. CASE UNCHANGED io_
  BY <1>1 DEF OperationsSorted
<1>2. CASE io_ # <<>> /\ io_' = Tail(io_)
  BY <1>0, <1>2, OperationsTail
<1>3. ASSUME NEW t, NewTask(t), io_' = Append(io_, t) \/ (io_ # <<>> /\ io_' = Append(Tail(io_), t))
      PROVE  OperationsSorted(io_')
  <2>1. ~IsOperation(t)
    BY <1>3 DEF NewTask, IsOperation
  <2>2. CASE io_' = Append(io_, t)
    BY <1>0, <2>1, <2>2, OperationsAppend
  <2>3. CASE io_ # <<>> /\ io_' = Append(Tail(io_), t)
    BY <1>0, <2>1, <2>3, OperationsTail, OperationsAppend, TailList
  <2> QED
    BY <1>3, <2>2, <2>3
<1> QED
  BY <1>1, <1>2, <1>3 DEF PlainStep, IoStep

\* What leaves the queue is the operation whose turn it is, before all others.
LEMMA TurnFirst ==
  ASSUME TokenInv, OrderInv, PlainStep, NEW c \in Queued, c \notin Queued'
  PROVE  c = Turn /\ \A d \in Queued' : c < d
<1>0. UNCHANGED callbacks
  BY DEF PlainStep
<1>1. c \notin Elements(callbacks)
  BY <1>0 DEF Queued
<1>2. PICK t \in PostedOperations : t.call = c
  BY <1>1 DEF Queued
<1>3. callbacks = <<>> /\ Elements(callbacks) = {}
  BY <1>2, EmptyList DEF OrderInv
<1>4. io_ # <<>>
  BY <1>2, EmptyList DEF PostedOperations
<1>5. /\ Elements(Tail(io_)) \subseteq Elements(io_')
      /\ \A u \in Elements(io_') : u \in Elements(Tail(io_)) \/ u.task # "operation"
  <2>1. ~UNCHANGED io_
    <3> SUFFICES ASSUME UNCHANGED io_ PROVE FALSE
      OBVIOUS
    <3> QED
      BY <1>0 DEF Queued, PostedOperations
  <2>2. CASE io_' = Tail(io_)
    BY <2>2
  <2>3. ASSUME NEW u, NewTask(u), io_' = Append(io_, u)
        PROVE  FALSE
    <3>1. Elements(io_') = Elements(io_) \cup {u}
      BY <2>3, AppendList DEF TokenInv, Lists
    <3> QED
      BY <1>2, <3>1 DEF Queued, PostedOperations
  <2>4. ASSUME NEW u, NewTask(u), io_' = Append(Tail(io_), u)
        PROVE  /\ Elements(Tail(io_)) \subseteq Elements(io_')
               /\ \A x \in Elements(io_') : x \in Elements(Tail(io_)) \/ x.task # "operation"
    <3>1. Elements(io_') = Elements(Tail(io_)) \cup {u}
      BY <1>4, <2>4, IoSets, AppendList
    <3> QED
      BY <2>4, <3>1 DEF NewTask
  <2> QED
    BY <2>1, <2>2, <2>3, <2>4 DEF PlainStep, IoStep
<1>6. t = Head(io_) /\ IsOperation(Head(io_))
  <2>1. t \notin Elements(Tail(io_))
    BY <1>2, <1>5 DEF Queued, PostedOperations
  <2> QED
    BY <1>2, <1>4, <2>1, IoSets DEF PostedOperations, IsOperation
<1>7. \A u \in Elements(Tail(io_)) : IsOperation(u) => Turn < u.call
  BY <1>4, <1>6, OperationsTail DEF OrderInv, TokenInv, Lists, Turn
<1>8. c = Turn
  BY <1>2, <1>6 DEF Turn
<1>9. ASSUME NEW d \in Queued'
      PROVE  c < d
  <2>1. PICK u \in PostedOperations' : u.call = d
    BY <1>0, <1>3 DEF Queued
  <2>2. u \in Elements(Tail(io_)) /\ IsOperation(u)
    BY <1>5, <2>1 DEF PostedOperations, IsOperation
  <2> QED
    BY <1>7, <1>8, <2>1, <2>2
<1> QED
  BY <1>8, <1>9

\* Only calls that were made wait.
LEMMA QueuedUnanswered ==
  ASSUME TokenInv
  PROVE  Queued \subseteq Unanswered
BY DEF TokenInv, Outstanding, IoCalls, Own, Queued, PostedOperations

\* OrderInv survives every step that is no call of the application.
LEMMA PlainOrder ==
  ASSUME TokenInv, TokenInv', OrderInv, PlainStep, Answering
  PROVE  OrderInv'
<1>1. UNCHANGED <<calls, callbacks>> /\ Sorted(callbacks')
  BY DEF PlainStep, OrderInv
<1>2. OperationsSorted(io_)'
  BY PlainSorted DEF OrderInv, OperationsSorted
<1>3. callbacks' = <<>> \/ PostedOperations' = {}
  BY <1>1, PlainQueued DEF OrderInv
<1>4. Unanswered' \subseteq Unanswered
  BY AnsweringShrinks
<1>5. ASSUME SaveBegun'
      PROVE  Queued' = {}
  <2>1. PICK c \in 1..Len(calls) : calls[c].op = "save" /\ c \notin Queued'
    BY <1>1, <1>5 DEF SaveBegun
  <2>2. CASE c \notin Queued
    BY <2>1, <2>2, PlainQueued DEF SaveBegun, OrderInv
  <2>3. CASE c \in Queued
    <3> SUFFICES ASSUME NEW d \in Queued'
                 PROVE  FALSE
      OBVIOUS
    <3>1. c < d /\ c = Len(calls)
      BY <2>1, <2>3, TurnFirst DEF OrderInv
    <3>2. d \in 1..Len(calls)
      BY PlainQueued, QueuedUnanswered DEF Unanswered
    <3> QED
      BY <3>1, <3>2 DEF TokenInv, Lists
  <2> QED
    BY <2>2, <2>3
<1>6. Sorted(callbacks)' /\ (\A c \in Unanswered, d \in 1..Len(calls) : c < d => <<Key(c), Key(d)>> \in Overlaps)'
  BY <1>1, <1>4 DEF OrderInv, Key, Sorted
<1>7. (\A c \in 1..Len(calls) : calls[c].op = "save" => c = Len(calls))'
  BY <1>1 DEF OrderInv
<1> QED
  BY <1>2, <1>3, <1>5, <1>6, <1>7 DEF OrderInv

\* The same when a call is made.
LEMMA CallOrder ==
  ASSUME TokenInv, OrderInv, SwapInv, NEW op, NEW size, MayCall(op, size),
         Unanswered' \subseteq Unanswered \cup {New},
         \/ UNCHANGED <<callbacks, io_>> /\ op # "save"
         \/ enqueueAndRun(New)
  PROVE  OrderInv'
<1> DEFINE n == New
           l == Append(callbacks, n)
<1>0. /\ Lists /\ NewCall /\ calls'[n] = [op |-> op, size |-> size]
      /\ n > Len(calls) /\ n = Len(calls') /\ Len(calls) \in Nat /\ n \in Nat
      /\ 1..Len(calls') = (1..Len(calls)) \cup {n}
      /\ \A c \in 1..Len(calls) : calls'[c] = calls[c]
  <2>1. Lists /\ NewCall /\ calls'[n] = [op |-> op, size |-> size]
    BY CalledIs DEF TokenInv
  <2>2. Len(calls') = Len(calls) + 1 /\ Len(calls) \in Nat
    BY <2>1, AppendList DEF Lists, NewCall
  <2> QED
    BY <2>1, <2>2, Called DEF New
<1>1. Queued \subseteq 1..Len(calls)
  BY QueuedUnanswered DEF Unanswered
<1>2. IsList(l) /\ Sorted(l) /\ Elements(l) = Elements(callbacks) \cup {n}
  <2>1. \A x \in Elements(callbacks) : x < n
    BY <1>0, <1>1 DEF Queued
  <2> HIDE DEF n
  <2> QED
    BY <1>0, <2>1, AppendList, SortedAppend DEF Lists, OrderInv
<1>3. Sorted(callbacks') /\ OperationsSorted(io_') /\ (callbacks' = <<>> \/ PostedOperations' = {})
  <2>1. CASE UNCHANGED <<callbacks, io_>>
    BY <2>1 DEF OrderInv, PostedOperations
  <2>2. CASE enqueueAndRun(n) /\ swapping
    BY <1>2, <2>2 DEF enqueueAndRun, OrderInv, SwapInv, PostedOperations
  <2>3. CASE enqueueAndRun(n) /\ ~swapping
    <3>1. callbacks' = <<>> /\ io_' = io_ \o Tasks(l)
      BY <2>3 DEF enqueueAndRun, Post
    <3>2. \A t \in Elements(io_), c \in Elements(l) : IsOperation(t) => t.call < c
      <4> SUFFICES ASSUME NEW t \in Elements(io_), NEW c \in Elements(l), IsOperation(t)
                   PROVE  t.call < c
        OBVIOUS
      <4>1. t \in PostedOperations
        BY DEF PostedOperations, IsOperation
      <4>2. c = n
        BY <1>2, <4>1, EmptyList DEF OrderInv
      <4>3. t.call \in 1..Len(calls)
        BY <1>1, <4>1 DEF Queued
      <4> QED
        BY <1>0, <4>2, <4>3
    <3> HIDE DEF l
    <3>3. OperationsSorted(io_ \o Tasks(l))
      BY <1>0, <1>2, <3>2, OperationsPost DEF Lists, OrderInv
    <3>4. Sorted(<<>>)
      BY EmptyList DEF Sorted
    <3> QED
      BY <3>1, <3>3, <3>4
  <2> QED
    BY <2>1, <2>2, <2>3
<1>4. ASSUME NEW c \in Unanswered', NEW d \in 1..Len(calls'), c < d
      PROVE  <<Key(c), Key(d)>>' \in Overlaps
  <2>1. c \in Unanswered /\ c \in 1..Len(calls) /\ Key(c)' = Key(c)
    <3>1. c # n
      BY <1>0, <1>4
    <3>2. c \in Unanswered
      BY <3>1
    <3> QED
      BY <1>0, <3>2 DEF Unanswered, Key
  <2>2. CASE d = n
    <3>1. Key(d)' = <<op, size>>
      BY <1>0, <2>2 DEF Key
    <3>2. <<Key(c), <<op, size>>>> \in Overlaps
      BY <2>1 DEF MayCall, Key
    <3> QED
      BY <2>1, <3>1, <3>2
  <2>3. CASE d \in 1..Len(calls)
    <3>1. Key(d)' = Key(d)
      BY <1>0, <2>3 DEF Key
    <3> QED
      BY <1>4, <2>1, <2>3, <3>1 DEF OrderInv
  <2> QED
    BY <1>0, <2>2, <2>3
<1>5. ASSUME NEW c \in 1..Len(calls'), calls'[c].op = "save"
      PROVE  c = n /\ op = "save"
  <2>1. c = n
    BY <1>0, <1>5 DEF MayCall
  <2> QED
    BY <1>0, <1>5, <2>1
<1>6. ASSUME SaveBegun'
      PROVE  FALSE
  <2>1. PICK c \in 1..Len(calls') : calls'[c].op = "save" /\ c \notin Queued'
    BY <1>6 DEF SaveBegun
  <2>2. op = "save" /\ n \notin Queued'
    BY <1>5, <2>1
  <2>3. Queued' = Queued \cup {n}
    BY <2>2, EnqueueSets
  <2> QED
    BY <2>2, <2>3
<1> HIDE DEF n
<1>7. (\A c \in Unanswered, d \in 1..Len(calls) : c < d => <<Key(c), Key(d)>> \in Overlaps)'
  BY <1>4
<1>8. (\A c \in 1..Len(calls) : calls[c].op = "save" => c = Len(calls))'
  BY <1>0, <1>5
<1>9. Sorted(callbacks)' /\ OperationsSorted(io_)'
  BY <1>3 DEF Sorted, OperationsSorted
<1> QED
  BY <1>3, <1>6, <1>7, <1>8, <1>9 DEF OrderInv

\* The return of a callback leaves what waits waiting.
LEMMA CallbackQueued ==
  ASSUME TokenInv, CallbackReturns
  PROVE  Queued' = Queued
<1>1. callbacks' = <<>> /\ io_' = io_ \o Tasks(callbacks)
  BY DEF CallbackReturns, Post
<1>2. Elements(io_') = Elements(io_) \cup OperationsOf(callbacks)
  BY <1>1, PostList DEF TokenInv, Lists
<1>3. PostedOperations' = PostedOperations \cup OperationsOf(callbacks)
  BY <1>2 DEF PostedOperations, OperationsOf, OperationOf
<1>4. {t.call : t \in PostedOperations'} = {t.call : t \in PostedOperations} \cup Elements(callbacks)
  BY <1>3, CallsOfOperations
<1> QED
  BY <1>1, <1>4, EmptyList DEF Queued

\* The return of a callback posts what waited, in its order.
LEMMA CallbackOrder ==
  ASSUME TokenInv, OrderInv, CallbackReturns
  PROVE  OrderInv'
<1>1. UNCHANGED <<calls, answers>> /\ callbacks' = <<>> /\ io_' = io_ \o Tasks(callbacks)
  BY DEF CallbackReturns, Post
<1>2. OperationsSorted(io_')
  <2>1. \A t \in Elements(io_), c \in Elements(callbacks) : IsOperation(t) => t.call < c
    BY EmptyList DEF OrderInv, PostedOperations, IsOperation
  <2> QED
    BY <1>1, <2>1, OperationsPost DEF OrderInv, TokenInv, Lists
<1>3. Queued' = Queued
  BY CallbackQueued
<1>4. Sorted(<<>>)
  BY EmptyList DEF Sorted
<1> QED
  BY <1>1, <1>2, <1>3, <1>4 DEF OrderInv, Sorted, OperationsSorted, Unanswered, Key, SaveBegun

\* Every call of the application preserves OrderInv.
LEMMA AppCallOrder ==
  ASSUME CallInv, CallInv', OrderInv, SwapInv, AppCall \/ Enqueue("make_chunked_stream")
  PROVE  OrderInv'
<1>0. TokenInv /\ Lists /\ AnswerInv
  BY DEF CallInv, TokenInv
<1>1. ASSUME NEW op, NEW size, MayCall(op, size), UNCHANGED answers \/ (\E a : Answer(New, a))
      PROVE  Unanswered' \subseteq Unanswered \cup {New}
  <2>1. NewCall
    BY <1>0, <1>1, CalledIs
  <2>2. CASE UNCHANGED answers
    BY <1>0, <2>1, <2>2, Called DEF Unanswered
  <2>3. CASE \E a : Answer(New, a)
    BY <1>0, <2>1, <2>3, CallAnswered
  <2> QED
    BY <1>1, <2>2, <2>3
<1>2. ASSUME NEW size \in Sizes, AppendInMemory(size) \/ AppendHuge(size) \/ AppendAndSwap(size)
      PROVE  OrderInv'
  <2>1. MayCall("append", size) /\ UNCHANGED <<callbacks, io_>>
        /\ (UNCHANGED answers \/ (\E a : Answer(New, a)))
    BY <1>2 DEF AppendInMemory, AppendHuge, AppendAndSwap, AppendCall, queueVars
  <2>2. Unanswered' \subseteq Unanswered \cup {New}
    BY <1>1, <2>1
  <2> QED
    BY <1>0, <2>1, <2>2, CallOrder
<1>3. ASSUME NEW size \in Sizes, AppendDuringSwap(size)
      PROVE  OrderInv'
  <2>1. MayCall("append", size) /\ enqueueAndRun(New) /\ UNCHANGED answers
    BY <1>3 DEF AppendDuringSwap, AppendCall
  <2>2. Unanswered' \subseteq Unanswered \cup {New}
    BY <1>1, <2>1
  <2> QED
    BY <1>0, <2>1, <2>2, CallOrder
<1>4. ASSUME NEW op, Enqueue(op)
      PROVE  OrderInv'
  <2>1. MayCall(op, 0) /\ enqueueAndRun(New) /\ UNCHANGED answers
    BY <1>4 DEF Enqueue
  <2>2. Unanswered' \subseteq Unanswered \cup {New}
    BY <1>1, <2>1
  <2> QED
    BY <1>0, <2>1, <2>2, CallOrder
<1> QED
  BY <1>2, <1>3, <1>4 DEF AppCall

-----------------------------------------------------------------------------
(* The content: the calls of the application.                              *)

\* Contents are closed under concatenation.
LEMMA ContentTypes ==
  ASSUME NEW X \in Content, NEW Y \in Content, NEW n \in 0..MaxCalls
  PROVE  /\ <<>> \in Content /\ <<n>> \in Content /\ X \o Y \in Content /\ Append(X, n) \in Content
         /\ X \o <<>> = X /\ <<>> \o X = X
<1> DEFINE S == 0..MaxCalls
<1>1. X \in Seq(S) /\ Y \in Seq(S) /\ n \in S /\ <<n>> \in Seq(S) /\ <<>> \in Seq(S)
  BY DEF Content
<1> HIDE DEF S
<1>2. X \o Y \in Seq(S) /\ Append(X, n) \in Seq(S)
  BY <1>1, ConcatProperties, AppendProperties
<1>3. X \o <<>> = X /\ <<>> \o X = X
  BY <1>1, ConcatEmptySeq
<1> QED
  BY <1>1, <1>2, <1>3 DEF Content, S

\* Append to the second of two parts.
LEMMA AppendBehind ==
  ASSUME NEW X \in Content, NEW Y \in Content, NEW n \in 0..MaxCalls
  PROVE  Append(X \o Y, n) = X \o Append(Y, n) /\ Append(X \o Y, n) = X \o Y \o <<n>>
<1> DEFINE S == 0..MaxCalls
<1>1. X \in Seq(S) /\ Y \in Seq(S) /\ n \in S /\ <<n>> \in Seq(S)
  BY DEF Content
<1> HIDE DEF S
<1>2. X \o Y \in Seq(S)
  BY <1>1, ConcatProperties
<1>3. Append(Y, n) = Y \o <<n>>
  BY <1>1, AppendIsConcat
<1>4. Append(X \o Y, n) = X \o Y \o <<n>>
  BY <1>1, <1>2, AppendIsConcat
<1>5. X \o Y \o <<n>> = X \o (Y \o <<n>>)
  BY <1>1, ConcatAssociative
<1> QED
  BY <1>3, <1>4, <1>5

\* Append to the last of three parts.
LEMMA AppendBehindTwo ==
  ASSUME NEW X \in Content, NEW Y \in Content, NEW Z \in Content, NEW n \in 0..MaxCalls
  PROVE  Append(X \o Y \o Z, n) = X \o Y \o Append(Z, n)
<1> DEFINE W == X \o Y
<1>1. W \in Content
  BY ContentTypes
<1> HIDE DEF W
<1>2. Append(W \o Z, n) = W \o Append(Z, n)
  BY <1>1, AppendBehind
<1> QED
  BY <1>2 DEF W

\* What is on disk is a content.
LEMMA OnDiskType ==
  ASSUME FileInv
  PROVE  OnDisk \in Content
<1>1. <<>> \in Content
  BY DEF Content
<1> QED
  BY <1>1 DEF FileInv, OnDisk

\* A step that leaves the content alone.
Still == UNCHANGED <<bufs, tmp, isOnDisk, logical>> /\ (error => error')

\* A save that has begun has begun for ever.
LEMMA BegunStays ==
  ASSUME UNCHANGED calls, Queued' \subseteq Queued, SaveBegun
  PROVE  SaveBegun'
BY DEF SaveBegun

\* Nothing but a call is queued.
LEMMA StepsBegun ==
  ASSUME TokenInv, KindInv, Run \/ Handle \/ CallbackReturns \/ Worker \/ ReaderRuns \/ Ask \/ Stop
  PROVE  SaveBegun => SaveBegun'
<1>1. CASE PlainStep
  BY <1>1, PlainQueued, BegunStays DEF PlainStep
<1>2. CASE CallbackReturns
  BY <1>2, CallbackQueued, BegunStays DEF CallbackReturns
<1> QED
  BY <1>1, <1>2, RunPlain, HandlePlain, WorkerPlain, ReaderPlain

\* A call whose operation has been run is queued no more.
LEMMA NotQueued ==
  ASSUME TokenInv
  PROVE  /\ \A r \in Elements(fs) : r.call \notin Queued
         /\ \A t \in Elements(io_) : Own(t) /\ t.task # "operation" => t.call \notin Queued
<1>1. ASSUME NEW r \in Elements(fs)
      PROVE  r.call \notin Queued
  <2>1. r.call \in FsCalls(fs)
    BY DEF FsCalls
  <2>2. Queued \subseteq Elements(callbacks) \cup IoCalls(io_)
    BY DEF Queued, PostedOperations, IoCalls, Own
  <2> QED
    BY <2>1, <2>2 DEF TokenInv
<1>2. ASSUME NEW t \in Elements(io_), Own(t), t.task # "operation"
      PROVE  t.call \notin Queued
  <2>1. t.call \in IoCalls(io_)
    BY <1>2 DEF IoCalls
  <2>2. t.call \notin Elements(callbacks)
    BY <2>1 DEF TokenInv
  <2>3. ASSUME NEW u \in PostedOperations, u.call = t.call
        PROVE  FALSE
    <3>1. PICK i \in 1..Len(io_), j \in 1..Len(io_) : t = io_[i] /\ u = io_[j]
      BY DEF PostedOperations, Elements
    <3>2. Own(u) /\ u.task = "operation"
      BY DEF PostedOperations, Own
    <3>3. i = j
      BY <1>2, <2>3, <3>1, <3>2 DEF TokenInv, IoOnce
    <3> QED
      BY <1>2, <3>1, <3>2, <3>3
  <2> QED
    BY <2>2, <2>3 DEF Queued
<1> QED
  BY <1>1, <1>2

\* A quiet step that leaves the content alone preserves DataInv.
LEMMA StillData ==
  ASSUME TokenInv, FileInv, DataInv, Quiet, Still
  PROVE  DataInv'
<1>1. SaveBegun => SaveBegun'
  BY BegunStays DEF Quiet, Queued
<1>2. Flying' = Flying /\ swappingBuffer' = swappingBuffer /\ OnDisk' = OnDisk
  BY DEF Quiet, Still, Flying, swappingBuffer, OnDisk
<1> QED
  BY <1>1, <1>2 DEF DataInv, Quiet, Still

\* A call that is queued begins no save, and ends none.
LEMMA CallBegun ==
  ASSUME TokenInv, NewCall, Queued' \subseteq Queued \cup {New}, ~SaveBegun'
  PROVE  ~SaveBegun
<1>1. /\ 1..Len(calls') = (1..Len(calls)) \cup {New} /\ New \notin 1..Len(calls)
      /\ \A c \in 1..Len(calls) : calls'[c] = calls[c]
  BY Called DEF TokenInv
<1> DEFINE n == New
<1>2. n \notin 1..Len(calls) /\ Queued' \subseteq Queued \cup {n}
  BY <1>1
<1>3. \A c \in 1..Len(calls) : c \in 1..Len(calls') /\ calls'[c] = calls[c]
  BY <1>1
<1> HIDE DEF n
<1> SUFFICES ASSUME SaveBegun
             PROVE  FALSE
  OBVIOUS
<1>4. PICK c \in 1..Len(calls) : calls[c].op = "save" /\ c \notin Queued
  BY DEF SaveBegun
<1>5. c \in 1..Len(calls') /\ calls'[c].op = "save" /\ c \notin Queued'
  BY <1>2, <1>3, <1>4
<1> QED
  BY <1>5 DEF SaveBegun

\* The types of what an append handles.
LEMMA AppendTypes ==
  ASSUME TokenInv, FileInv, SwapInv, NewCall
  PROVE  /\ New \in 0..MaxCalls /\ bufs[currentBuffer] \in Content /\ bufs[swappingBuffer] \in Content
         /\ currentBuffer \in Buffers /\ swappingBuffer \in Buffers /\ swappingBuffer # currentBuffer
<1>1. New \in Ids
  BY Called DEF TokenInv
<1> QED
  BY <1>1, SwappingBufferAssumption DEF Ids, FileInv, SwapInv, Buffers, swappingBuffer

\* A chunk is added to the current vector.
LEMMA AddedData ==
  ASSUME TokenInv, SwapInv, FileInv, DataInv, NewCall,
         bufs' = [bufs EXCEPT ![currentBuffer] = Append(@, New)],
         logical' = Append(logical, New),
         UNCHANGED <<currentBuffer, tmp, isOnDisk, error>>, Queued' \subseteq Queued \cup {New},
         SwapRequests' = SwapRequests, SwapHandlers' = SwapHandlers
  PROVE  DataInv' /\ bufs' \in [Buffers -> Content] /\ logical' \in Content
<1> DEFINE F == IF Flying THEN bufs[swappingBuffer] ELSE <<>>
           B == bufs[currentBuffer]
           n == New
<1>1. /\ n \in 0..MaxCalls /\ B \in Content /\ F \in Content /\ OnDisk \in Content
      /\ currentBuffer \in Buffers /\ swappingBuffer \in Buffers /\ swappingBuffer # currentBuffer
  BY AppendTypes, OnDiskType, ContentTypes
<1>2. Append(OnDisk \o F \o B, n) = OnDisk \o F \o Append(B, n) /\ Append(B, n) \in Content
  <2> HIDE DEF F, B, n
  <2>1. Append(OnDisk \o F \o B, n) = OnDisk \o F \o Append(B, n)
    BY <1>1, AppendBehindTwo
  <2>2. Append(B, n) \in Content
    BY <1>1, ContentTypes
  <2> QED
    BY <2>1, <2>2
<1>3. Flying' = Flying /\ swappingBuffer' = swappingBuffer /\ OnDisk' = OnDisk
  BY DEF Flying, swappingBuffer, OnDisk
<1>4. bufs' \in [Buffers -> Content] /\ bufs'[currentBuffer] = Append(B, n)
      /\ bufs'[swappingBuffer] = bufs[swappingBuffer]
  <2>1. bufs \in [Buffers -> Content] /\ bufs' = [bufs EXCEPT ![currentBuffer] = Append(B, n)]
    BY DEF FileInv
  <2> HIDE DEF n, B, F
  <2> QED
    BY <1>1, <1>2, <2>1
<1>5. logical' \in Content
  <2>1. logical \in Content
    BY DEF FileInv
  <2> HIDE DEF n
  <2>2. Append(logical, n) \in Content
    BY <1>1, <2>1, ContentTypes
  <2> QED
    BY <2>2 DEF n
<1>6. ASSUME ~error', ~SaveBegun'
      PROVE  logical' = OnDisk' \o (IF Flying' THEN bufs'[swappingBuffer'] ELSE <<>>) \o bufs'[currentBuffer']
  <2>1. logical = OnDisk \o F \o B
    BY <1>6, CallBegun DEF DataInv
  <2>2. logical' = OnDisk \o F \o Append(B, n)
    BY <1>2, <2>1
  <2> QED
    BY <1>3, <1>4, <2>2
<1>7. ASSUME ~error', ~SaveBegun'
      PROVE  /\ tmp' # None => isOnDisk' \/ \E t \in SwapHandlers' : t.ec = "success"
             /\ \A r \in SwapRequests' : r.mode = "write" => tmp' = None
  BY <1>7, CallBegun DEF DataInv
<1>8. DataInv'
  BY <1>6, <1>7 DEF DataInv
<1> QED
  BY <1>4, <1>5, <1>8

\* The current vector is handed to the file system.
LEMMA BegunData ==
  ASSUME TokenInv, SwapInv, FileInv, DataInv, ~swapping,
         NEW c, NEW content \in Content, NEW added \in Content, startSwapping(c, content, added),
         UNCHANGED <<tmp, isOnDisk, error>>, ~SaveBegun' => ~SaveBegun,
         SwapRequests' # {}, SwapHandlers' = SwapHandlers,
         \A r \in SwapRequests' : r.mode = "write" => ~isOnDisk,
         logical' \in Content,
         logical = OnDisk \o bufs[currentBuffer] => logical' = OnDisk \o content \o added
  PROVE  DataInv' /\ FileInv'
<1>1. SwapRequests = {} /\ SwapHandlers = {} /\ ~Flying
  BY DEF SwapInv, Flying
<1>2. /\ currentBuffer \in Buffers /\ swappingBuffer \in Buffers /\ swappingBuffer # currentBuffer
      /\ currentBuffer' = swappingBuffer /\ swappingBuffer' = currentBuffer
      /\ bufs[currentBuffer] \in Content
  BY DEF startSwapping, swappingBuffer, SwapInv, Buffers, FileInv
<1>3. bufs' \in [Buffers -> Content] /\ bufs'[currentBuffer] = content /\ bufs'[swappingBuffer] = added
  BY <1>2 DEF startSwapping, FileInv
<1>4. Flying' /\ OnDisk' = OnDisk
  BY DEF Flying, OnDisk
<1>5. ASSUME ~error', ~SaveBegun'
      PROVE  /\ logical' = OnDisk' \o (IF Flying' THEN bufs'[swappingBuffer'] ELSE <<>>) \o bufs'[currentBuffer']
             /\ tmp' # None => isOnDisk'
  <2>1. logical = OnDisk \o <<>> \o bufs[currentBuffer] /\ (tmp # None => isOnDisk)
    BY <1>1, <1>5 DEF DataInv
  <2>2. OnDisk \o <<>> = OnDisk
    <3>1. OnDisk \in Content /\ 0 \in 0..MaxCalls
      BY OnDiskType, SwappingBufferAssumption
    <3> QED
      BY <3>1, ContentTypes
  <2>3. logical = OnDisk \o bufs[currentBuffer]
    BY <2>1, <2>2
  <2>4. logical' = OnDisk \o content \o added
    BY <2>3
  <2> QED
    BY <1>2, <1>3, <1>4, <2>1, <2>4
<1>6. ASSUME ~error', ~SaveBegun', NEW r \in SwapRequests', r.mode = "write"
      PROVE  tmp' = None
  BY <1>5, <1>6
<1>7. DataInv'
  BY <1>5, <1>6 DEF DataInv
<1>8. FileInv'
  <2>1. PICK r : fs' = Append(fs, r) /\ r.step = "swap" /\ r.buf = currentBuffer
    BY DEF startSwapping, swappingOperation, Submit, Request
  <2>2. Elements(fs') = Elements(fs) \cup {r}
    BY <2>1, FsSets
  <2> QED
    BY <1>2, <1>3, <2>1, <2>2 DEF FileInv
<1> QED
  BY <1>7, <1>8

\* Every call of the application preserves FileInv and DataInv.
LEMMA AppCallData ==
  ASSUME CallInv, OverlapInv, SwapInv, FileInv, DataInv, SwapsAwaited,
         AppCall \/ Enqueue("make_chunked_stream")
  PROVE  FileInv' /\ DataInv'
<1>0. TokenInv /\ AnswerInv
  BY DEF CallInv
<1>1. ASSUME NEW size \in Sizes, AppendInMemory(size)
      PROVE  FileInv' /\ DataInv'
  <2>1. /\ MayCall("append", size) /\ UNCHANGED <<callbacks, io_, fs, currentBuffer, tmp, isOnDisk, error>>
        /\ bufs' = [bufs EXCEPT ![currentBuffer] = Append(@, New)] /\ logical' = Append(logical, New)
    BY <1>1 DEF AppendInMemory, AppendCall, queueVars, fileVars
  <2>2. NewCall /\ SwapRequests' = SwapRequests /\ SwapHandlers' = SwapHandlers /\ Queued' = Queued
    BY <1>0, <2>1, CalledIs DEF TokenInv, SwapRequests, SwapHandlers, Queued, PostedOperations
  <2>3. DataInv' /\ bufs' \in [Buffers -> Content] /\ logical' \in Content
    BY <1>0, <2>1, <2>2, AddedData
  <2> QED
    BY <2>1, <2>3 DEF FileInv
<1>2. ASSUME NEW size \in Sizes, AppendDuringSwap(size)
      PROVE  FileInv' /\ DataInv'
  <2>1. /\ MayCall("append", size) /\ enqueueAndRun(New) /\ swapping
        /\ UNCHANGED <<fs, swapping, currentBuffer, pc, answers, tmp, isOnDisk, error>>
        /\ bufs' = [bufs EXCEPT ![currentBuffer] = Append(@, New)] /\ logical' = Append(logical, New)
    BY <1>2 DEF AppendDuringSwap, AppendCall, fileVars
  <2>2. NewCall /\ SwapRequests' = SwapRequests /\ SwapHandlers' = SwapHandlers /\ Queued' = Queued \cup {New}
    BY <1>0, <2>1, CalledIs, EnqueueSets DEF TokenInv, SwapRequests
  <2>3. DataInv' /\ bufs' \in [Buffers -> Content] /\ logical' \in Content
    BY <1>0, <2>1, <2>2, AddedData
  <2> QED
    BY <2>1, <2>3 DEF FileInv
<1>3. ASSUME NEW op, op # "append", Enqueue(op)
      PROVE  FileInv' /\ DataInv'
  <2>1. /\ MayCall(op, 0) /\ enqueueAndRun(New)
        /\ UNCHANGED <<fs, swapping, currentBuffer, pc, answers, bufs, tmp, isOnDisk, error, logical>>
    BY <1>3 DEF Enqueue, bufferVars, flagVars, fileVars
  <2>2. NewCall /\ SwapRequests' = SwapRequests /\ SwapHandlers' = SwapHandlers /\ Queued' = Queued \cup {New}
    BY <1>0, <2>1, CalledIs, EnqueueSets DEF TokenInv, SwapRequests
  <2>3. Flying' = Flying /\ swappingBuffer' = swappingBuffer /\ OnDisk' = OnDisk
    BY <2>1, <2>2 DEF Flying, swappingBuffer, OnDisk
  <2>4. DataInv'
    BY <1>0, <2>1, <2>2, <2>3, CallBegun DEF DataInv
  <2> QED
    BY <2>1, <2>4 DEF FileInv
<1>4. ASSUME NEW size \in Sizes, AppendHuge(size) \/ AppendAndSwap(size)
      PROVE  FileInv' /\ DataInv'
  <2>1. /\ MayCall("append", size) /\ UNCHANGED <<callbacks, io_, answers, pc, tmp, isOnDisk, error>>
        /\ logical' = Append(logical, New)
    BY <1>4 DEF AppendHuge, AppendAndSwap, AppendCall, fileVars
  <2>2. ~swapping
    <3>1. CASE AppendAndSwap(size)
      BY <3>1 DEF AppendAndSwap
    <3>2. CASE AppendHuge(size)
      <4>1. ~(size <= maxBufferSize)
        BY <3>2, SwappingBufferAssumption DEF AppendHuge
      <4>2. Unanswered = {}
        BY <1>0, <2>1, <4>1, AppendAllowed
      <4> QED
        BY <1>0, <4>2, SwappingUnanswered
    <3> QED
      BY <1>4, <3>1, <3>2
  <2>3. callbacks = <<>> /\ PostedOperations = {}
    BY <1>0, <2>1, AppendAllowed
  <2>4. SwapHandlers' = SwapHandlers /\ PostedOperations' = {} /\ callbacks' = <<>>
    BY <2>1, <2>3 DEF SwapHandlers, PostedOperations
  <2>5. NewCall
    BY <1>0, <2>1, CalledIs DEF TokenInv
  <2> DEFINE B == bufs[currentBuffer]
             n == New
  <2>6. n \in 0..MaxCalls /\ B \in Content /\ OnDisk \in Content /\ logical \in Content
    BY <1>0, <2>5, AppendTypes, OnDiskType DEF FileInv
  <2>7. /\ Append(B, n) \in Content /\ <<n>> \in Content /\ <<>> \in Content
        /\ Append(logical, n) \in Content
        /\ Append(OnDisk \o B, n) = OnDisk \o Append(B, n)
        /\ OnDisk \o Append(B, n) \o <<>> = OnDisk \o Append(B, n)
        /\ Append(OnDisk \o B, n) = OnDisk \o B \o <<n>>
    <3> HIDE DEF n, B
    <3>1. Append(B, n) \in Content /\ Append(logical, n) \in Content /\ <<n>> \in Content /\ <<>> \in Content
      BY <2>6, ContentTypes
    <3>2. OnDisk \o Append(B, n) \in Content
      BY <2>6, <3>1, ContentTypes
    <3>3. OnDisk \o Append(B, n) \o <<>> = OnDisk \o Append(B, n)
      BY <2>6, <3>2, ContentTypes
    <3>4. /\ Append(OnDisk \o B, n) = OnDisk \o Append(B, n)
          /\ Append(OnDisk \o B, n) = OnDisk \o B \o <<n>>
      BY <2>6, AppendBehind
    <3> QED
      BY <3>1, <3>3, <3>4
  <2>8. PICK content \in {B, Append(B, n)}, added \in {<<>>, <<n>>} :
          /\ startSwapping(n, content, added)
          /\ Append(OnDisk \o B, n) = OnDisk \o content \o added
    <3>1. CASE AppendHuge(size)
      <4>1. startSwapping(n, Append(B, n), <<>>)
        BY <3>1 DEF AppendHuge
      <4> HIDE DEF n, B
      <4> QED
        BY <2>7, <4>1
    <3>2. CASE AppendAndSwap(size)
      <4>1. startSwapping(n, B, <<n>>)
        BY <3>2 DEF AppendAndSwap
      <4> HIDE DEF n, B
      <4> QED
        BY <2>7, <4>1
    <3> QED
      BY <1>4, <3>1, <3>2
  <2> HIDE DEF n
  <2>9. SwapRequests' # {} /\ \A r \in SwapRequests' : r.mode = "write" => ~isOnDisk
    BY <1>0, <2>2, <2>4, <2>8, BeginSwap
  <2>10. logical = OnDisk \o bufs[currentBuffer] => logical' = OnDisk \o content \o added
    BY <2>1, <2>8 DEF n
  <2>11. content \in Content /\ added \in Content /\ logical' \in Content
    BY <2>1, <2>6, <2>7, <2>8 DEF n
  <2>12. ~SaveBegun' => ~SaveBegun
    <3>1. Queued' = Queued
      BY <2>3, <2>4, EmptyList DEF Queued
    <3> QED
      BY <1>0, <2>5, <3>1, CallBegun
  <2> HIDE DEF B
  <2> QED
    BY <1>0, <2>1, <2>2, <2>4, <2>8, <2>9, <2>10, <2>11, <2>12, BegunData
<1> QED
  BY <1>1, <1>2, <1>3, <1>4 DEF AppCall

-----------------------------------------------------------------------------
(* The content: the other steps.                                           *)

TypedRequest(r) ==
  /\ r.step \in {"swap", "read", "read_tmp"} \cup SaveSteps
  /\ r.step \in {"read", "read_tmp"} => r.mode = "read"
  /\ r.file = "tmp" /\ r.mode \in {"append", "write"} => r.buf \in Buffers

\* FileInv when a well-formed request is submitted, or one is performed.
LEMMA FilesKept ==
  ASSUME TokenInv, FileInv,
         bufs' \in [Buffers -> Content], logical' \in Content, tmp' \in Content \cup {None},
         UNCHANGED fs \/ (\E r : TypedRequest(r) /\ Submit(r)) \/ (fs # <<>> /\ fs' = Tail(fs))
  PROVE  FileInv'
<1>1. ASSUME NEW r, TypedRequest(r), Submit(r)
      PROVE  FileInv'
  <2>1. Elements(fs') = Elements(fs) \cup {r}
    BY <1>1, FsSets DEF Submit
  <2> QED
    BY <1>1, <2>1 DEF FileInv, TypedRequest
<1>2. CASE fs # <<>> /\ fs' = Tail(fs)
  BY <1>2, FsSets DEF FileInv
<1>3. CASE UNCHANGED fs
  BY <1>3 DEF FileInv
<1> QED
  BY <1>1, <1>2, <1>3

\* Once the save has begun, nothing is claimed any more.
LEMMA BegunNothing ==
  ASSUME SaveBegun'
  PROVE  DataInv'
BY DEF DataInv

\* The types of the two vectors and of the files.
LEMMA CurrentTypes ==
  ASSUME FileInv, SwapInv
  PROVE  /\ bufs[currentBuffer] \in Content /\ bufs[swappingBuffer] \in Content
         /\ currentBuffer \in Buffers /\ swappingBuffer \in Buffers /\ swappingBuffer # currentBuffer
         /\ <<>> \in Content /\ logical \in Content /\ tmp \in Content \cup {None}
         /\ bufs \in [Buffers -> Content]
BY DEF FileInv, SwapInv, Buffers, swappingBuffer, Content

\* Every operation that is run preserves FileInv and DataInv.
LEMMA RunData ==
  ASSUME CallInv, KindInv, OverlapInv, SwapInv, FileInv, DataInv, SwapsAwaited, Run
  PROVE  FileInv' /\ DataInv'
<1>0. TokenInv /\ UNCHANGED calls
  BY AnsweringStep DEF CallInv, Answering
<1>1. CASE RunAppend
  <2>1. /\ ~swapping /\ SwapHandlers' = {} /\ SwapHandlers = {} /\ SwapRequests' # {}
        /\ \A r \in SwapRequests' : r.mode = "write" => ~isOnDisk
    BY <1>0, <1>1, RunAppendSwaps
  <2>2. /\ startSwapping(Turn, bufs[currentBuffer], <<>>)
        /\ UNCHANGED <<tmp, isOnDisk, error, logical>>
    BY <1>1 DEF RunAppend, flagVars, fileVars
  <2> DEFINE B == bufs[currentBuffer]
             t == Turn
  <2>3. B \in Content /\ OnDisk \in Content /\ <<>> \in Content /\ 0 \in 0..MaxCalls /\ logical' \in Content
    BY <2>2, CurrentTypes, OnDiskType, SwappingBufferAssumption
  <2>4. OnDisk \o B \o <<>> = OnDisk \o B
    <3> DEFINE W == OnDisk \o B
    <3>1. W \in Content
      BY <2>3, ContentTypes
    <3> HIDE DEF W
    <3> QED
      BY <2>3, <3>1, ContentTypes DEF W
  <2>5. logical = OnDisk \o B => logical' = OnDisk \o B \o <<>>
    BY <2>2, <2>4
  <2>6. ~SaveBegun' => ~SaveBegun
    BY <1>0, StepsBegun
  <2>7. startSwapping(t, B, <<>>) /\ UNCHANGED <<tmp, isOnDisk, error>> /\ SwapHandlers' = SwapHandlers
    BY <2>1, <2>2
  <2>8. logical = OnDisk \o bufs[currentBuffer] => logical' = OnDisk \o B \o <<>>
    BY <2>5
  <2> HIDE DEF B, t
  <2> QED
    BY <1>0, <2>1, <2>3, <2>6, <2>7, <2>8, BegunData
<1>2. CASE RunClear
  <2>1. /\ bufs' = [b \in Buffers |-> <<>>] /\ logical' = <<>> /\ isOnDisk' = FALSE
        /\ tmp' = (IF isOnDisk THEN None ELSE tmp) /\ UNCHANGED <<fs, currentBuffer, error, swapping>>
        /\ io_ # <<>> /\ Head(io_).task = "operation"
    BY <1>2 DEF RunClear, Running, Buffers
  <2>2. Head(io_) \in PostedOperations
    BY <1>0, <2>1, IoSets DEF PostedOperations
  <2>3. SwapRequests = {} /\ SwapHandlers = {}
    BY <2>2 DEF SwapInv
  <2>4. SwapRequests' = {} /\ SwapHandlers' = {}
    BY <1>0, <1>2, <2>3, QuietRun DEF Quiet
  <2>5. FileInv'
    BY <1>0, <2>1, CurrentTypes, FilesKept
  <2>6. bufs'[currentBuffer'] = <<>> /\ bufs'[swappingBuffer'] = <<>>
    BY <2>1, CurrentTypes DEF swappingBuffer, Buffers
  <2>7. ASSUME ~error', ~SaveBegun'
        PROVE  tmp' = None
    <3>1. ~error /\ ~SaveBegun
      BY <1>0, <2>1, <2>7, StepsBegun
    <3> QED
      BY <2>1, <2>3, <3>1 DEF DataInv
  <2>8. <<>> \o <<>> = <<>>
    <3>1. <<>> \in Content /\ 0 \in 0..MaxCalls
      BY CurrentTypes, SwappingBufferAssumption
    <3> QED
      BY <3>1, ContentTypes
  <2>9. tmp' = None => OnDisk' = <<>>
    BY DEF OnDisk
  <2>10. ~Flying'
    BY <2>4 DEF Flying
  <2>11. DataInv'
    BY <2>1, <2>4, <2>6, <2>7, <2>8, <2>9, <2>10 DEF DataInv
  <2> QED
    BY <2>5, <2>11
<1>3. CASE RunSize \/ RunCleared \/ RunReadAll
  <2>1. Still /\ UNCHANGED <<bufs, tmp, logical>>
    BY <1>3 DEF RunSize, RunCleared, RunReadAll, Still, bufferVars, flagVars, fileVars
  <2>2. UNCHANGED fs \/ \E r : TypedRequest(r) /\ Submit(r)
    BY <1>3 DEF RunSize, RunCleared, RunReadAll, Request, TypedRequest
  <2>3. FileInv'
    BY <1>0, <2>1, <2>2, CurrentTypes, FilesKept
  <2> QED
    BY <1>0, <1>3, <2>1, <2>3, QuietRun, StillData
<1>4. CASE RunSave
  <2>1. Still
    BY <1>4 DEF RunSave, Still, bufferVars, flagVars, fileVars
  <2>2. UNCHANGED <<bufs, tmp, logical>>
    BY <1>4 DEF RunSave, bufferVars, fileVars
  <2>3. UNCHANGED fs \/ \E r : TypedRequest(r) /\ Submit(r)
    <3>1. currentBuffer \in Buffers
      BY CurrentTypes
    <3> QED
      BY <1>4, <3>1 DEF RunSave, SaveLocal, NextChunk, Request, TypedRequest, SaveSteps
  <2>4. FileInv'
    BY <1>0, <2>2, <2>3, CurrentTypes, FilesKept
  <2> QED
    BY <1>0, <1>4, <2>1, <2>4, QuietRun, StillData
<1> QED
  BY <1>1, <1>2, <1>3, <1>4 DEF Run

\* A handler of a save runs after the save has begun.
LEMMA SaveHandled ==
  ASSUME CallInv, KindInv, LocalSaved \/ RestSaved \/ MoveFailed \/ CopyChunk \/ ChunkCopied \/ TailSaved
  PROVE  SaveBegun'
<1>0. TokenInv
  BY DEF CallInv
<1>1. PICK step \in SaveSteps : Handling(step)
  BY DEF LocalSaved, RestSaved, MoveFailed, CopyChunk, ChunkCopied, TailSaved, SaveSteps
<1>2. /\ io_ # <<>> /\ Own(Head(io_)) /\ Head(io_).task = "handler"
      /\ Turn \in 1..Len(calls) /\ calls[Turn].op = "save"
  BY <1>1, HandlerOf DEF Handling
<1>3. Turn \notin Queued
  BY <1>0, <1>2, HeadOfIo, NotQueued DEF Turn
<1>4. SaveBegun
  BY <1>2, <1>3 DEF SaveBegun
<1>5. Handle
  BY DEF Handle
<1> QED
  BY <1>0, <1>4, <1>5, StepsBegun

\* The handlers of the other requests preserve FileInv and DataInv.
LEMMA HandleData ==
  ASSUME CallInv, KindInv, SwapInv, FileInv, DataInv, OtherHandle
  PROVE  FileInv' /\ DataInv'
<1>0. TokenInv /\ UNCHANGED calls
  BY AnsweringStep DEF CallInv, Answering, OtherHandle, Handle
<1>1. CASE ReadDone \/ ReadTmpDone
  <2>1. Still /\ UNCHANGED <<bufs, tmp, logical>>
    <3>1. Settled /\ UNCHANGED <<bufs, tmp>>
      BY <1>1 DEF ReadDone, ReadTmpDone, fileVars
    <3> QED
      BY <3>1 DEF Settled, Still
  <2>2. UNCHANGED fs \/ \E r : TypedRequest(r) /\ Submit(r)
    BY <1>1 DEF ReadDone, ReadTmpDone, Request, TypedRequest
  <2>3. FileInv'
    BY <1>0, <2>1, <2>2, CurrentTypes, FilesKept
  <2> QED
    BY <1>0, <2>1, <2>3, QuietHandle, StillData
<1>2. CASE LocalSaved \/ RestSaved \/ MoveFailed \/ CopyChunk \/ ChunkCopied \/ TailSaved
  <2>2. SaveBegun'
    BY <1>2, SaveHandled
  <2>3. UNCHANGED logical /\ (UNCHANGED tmp \/ tmp' = None)
    <3>1. CASE LocalSaved \/ RestSaved \/ MoveFailed
      BY <3>1 DEF LocalSaved, RestSaved, MoveFailed, Settled, fileVars
    <3>2. CASE CopyChunk \/ ChunkCopied \/ TailSaved
      BY <3>2 DEF CopyChunk, ChunkCopied, TailSaved, Settled, fileVars
    <3> QED
      BY <1>2, <3>1, <3>2
  <2>4. bufs' \in [Buffers -> Content]
    <3>1. UNCHANGED bufs \/ bufs' = [bufs EXCEPT ![currentBuffer] = <<>>]
      BY <1>2 DEF LocalSaved, RestSaved, MoveFailed, CopyChunk, ChunkCopied, TailSaved
    <3> QED
      BY <3>1, CurrentTypes
  <2>5. UNCHANGED fs \/ \E r : TypedRequest(r) /\ Submit(r)
    <3>1. currentBuffer \in Buffers
      BY CurrentTypes
    <3>2. CASE LocalSaved \/ RestSaved \/ MoveFailed
      BY <3>1, <3>2 DEF LocalSaved, RestSaved, MoveFailed, SaveLocal, Request, TypedRequest, SaveSteps
    <3>3. CASE CopyChunk \/ ChunkCopied \/ TailSaved
      BY <3>1, <3>3 DEF CopyChunk, ChunkCopied, TailSaved, NextChunk, Request, TypedRequest, SaveSteps
    <3> QED
      BY <1>2, <3>2, <3>3
  <2>6. FileInv'
    BY <1>0, <2>3, <2>4, <2>5, CurrentTypes, FilesKept
  <2> QED
    BY <2>2, <2>6, BegunNothing
<1> QED
  BY <1>1, <1>2 DEF OtherHandle

\* postSwapRoutine preserves FileInv and DataInv.
LEMMA SwapHandledData ==
  ASSUME CallInv, KindInv, SwapInv, FileInv, DataInv, SwapDone \/ SwapRetry \/ SwapFailed
  PROVE  FileInv' /\ DataInv'
<1>0. TokenInv /\ UNCHANGED <<calls, bufs, currentBuffer, tmp, logical>>
      /\ Handling("swap")
  BY AnsweringStep DEF CallInv, Answering, Handle, SwapDone, SwapRetry, SwapFailed, bufferVars, fileVars
<1>1. /\ SwapHandlers = {Head(io_)} /\ SwapRequests = {} /\ swapping
      /\ SwapHandlers' = {}
  BY <1>0, SwapHandled
<1>2. (~SaveBegun' => ~SaveBegun) /\ OnDisk' = OnDisk /\ swappingBuffer' = swappingBuffer
  BY <1>0, StepsBegun DEF Handle, OnDisk, swappingBuffer
<1>3. CASE SwapDone
  <2>1. UNCHANGED <<fs, error>> /\ isOnDisk' = TRUE /\ Head(io_).ec = "success"
    BY <1>3 DEF SwapDone, Ec
  <2>2. SwapRequests' = {} /\ ~Flying /\ ~Flying'
    BY <1>1, <2>1 DEF SwapRequests, Flying
  <2>3. FileInv'
    BY <1>0, <2>1, CurrentTypes, FilesKept
  <2>4. DataInv'
    BY <1>0, <1>2, <2>1, <2>2 DEF DataInv
  <2> QED
    BY <2>3, <2>4
<1>4. CASE SwapFailed
  <2>1. UNCHANGED fs /\ error' = TRUE
    BY <1>4 DEF SwapFailed
  <2>2. FileInv'
    BY <1>0, <2>1, CurrentTypes, FilesKept
  <2> QED
    BY <2>1, <2>2 DEF DataInv
<1>5. CASE SwapRetry
  <2>1. UNCHANGED <<isOnDisk, error>> /\ Head(io_).ec # "success"
    BY <1>5 DEF SwapRetry, Ec
  <2>2. PICK r : /\ Submit(r) /\ r.step = "swap" /\ r.buf = swappingBuffer
                 /\ r.mode = "write" => ~isOnDisk
    BY <1>5 DEF SwapRetry, swappingOperation, Request
  <2>3. SwapRequests' = {r} /\ Flying /\ Flying'
    <3>1. SwapRequests' = {r}
      BY <1>0, <1>1, <2>2, FsSets DEF SwapRequests, Submit
    <3> QED
      BY <1>1, <2>1, <3>1 DEF Flying
  <2>4. FileInv'
    <3>1. TypedRequest(r)
      BY <2>2, CurrentTypes DEF TypedRequest
    <3> QED
      BY <1>0, <2>2, <3>1, CurrentTypes, FilesKept
  <2>5. ASSUME ~error, ~SaveBegun
        PROVE  tmp # None => isOnDisk
    BY <1>1, <2>1, <2>5 DEF DataInv
  <2>6. DataInv'
    BY <1>0, <1>1, <1>2, <2>1, <2>2, <2>3, <2>5 DEF DataInv
  <2> QED
    BY <2>4, <2>6
<1> QED
  BY <1>3, <1>4, <1>5

\* The worker preserves FileInv and DataInv: a vector that is written moves from memory
\* to the temporary file, and is counted once.
LEMMA WorkerData ==
  ASSUME CallInv, KindInv, OverlapInv, SwapInv, FileInv, DataInv, Worker
  PROVE  FileInv' /\ DataInv'
<1>0. /\ TokenInv /\ fs # <<>> /\ fs' = Tail(fs)
      /\ UNCHANGED <<calls, bufs, currentBuffer, logical, isOnDisk, error>>
  BY DEF CallInv, Worker, PerformRequest, FailRequest, bufferVars, flagVars
<1> DEFINE r == Head(fs)
<1>1. r \in Elements(fs)
  BY <1>0, FsSets
<1>2. CASE FailRequest
  <2>1. UNCHANGED tmp
    BY <1>2 DEF FailRequest
  <2>2. FileInv'
    BY <1>0, <2>1, CurrentTypes, FilesKept
  <2>3. CASE r.step # "swap"
    <3>1. Still
      BY <1>0, <2>1 DEF Still
    <3> QED
      BY <1>0, <2>2, <2>3, <3>1, QuietWorker, StillData
  <2>4. CASE r.step = "swap"
    <3>1. PICK code \in {"open_failure", "other_failure"} : Handler(r, code, <<>>)
      BY <1>2 DEF FailRequest
    <3>2. PICK t : /\ SwapHandlers' = {t} /\ t.ec = code
                   /\ SwapRequests' = {} /\ SwapHandlers = {} /\ r \in SwapRequests
      BY <1>0, <2>4, <3>1, WorkerSwaps
    <3>3. Flying /\ Flying'
      BY <3>1, <3>2 DEF Flying
    <3>4. (~SaveBegun' => ~SaveBegun) /\ OnDisk' = OnDisk /\ swappingBuffer' = swappingBuffer
      BY <1>0, <2>1, StepsBegun DEF OnDisk, swappingBuffer
    <3>5. DataInv'
      BY <1>0, <2>1, <3>2, <3>3, <3>4 DEF DataInv
    <3> QED
      BY <2>2, <3>5
  <2> QED
    BY <2>3, <2>4
<1>3. CASE PerformRequest
  <2>1. /\ tmp' = IF r.file = "tmp" THEN Completed(tmp, r) ELSE tmp
        /\ Handler(r, CodeOf(WorkerFile(r), r), Returns(WorkerFile(r), r))
    BY <1>3 DEF PerformRequest, WorkerFile
  <2>2. r.file = "tmp" /\ r.mode \in {"append", "write"} => r.buf \in Buffers /\ bufs[r.buf] \in Content
    BY <1>1 DEF FileInv
  <2>3. r.buf \in Buffers => Source(r.buf) = bufs[r.buf]
    BY DEF Source, Buffers
  <2>4. tmp' \in Content \cup {None}
    <3>1. CASE r.file = "tmp" /\ r.mode = "append" /\ tmp # None
      <4>1. tmp' = tmp \o bufs[r.buf] /\ tmp \in Content /\ bufs[r.buf] \in Content
        BY <2>1, <2>2, <2>3, <3>1 DEF Completed, FileInv
      <4>2. 0 \in 0..MaxCalls
        BY SwappingBufferAssumption
      <4> QED
        BY <4>1, <4>2, ContentTypes
    <3>2. CASE ~(r.file = "tmp" /\ r.mode = "append" /\ tmp # None)
      BY <2>1, <2>2, <2>3, <3>2, CurrentTypes DEF Completed
    <3> QED
      BY <3>1, <3>2
  <2>5. FileInv'
    BY <1>0, <2>4, CurrentTypes, FilesKept
  <2>6. CASE r.step \in {"read", "read_tmp"}
    <3>1. r.mode = "read"
      BY <1>1, <2>6 DEF FileInv
    <3>2. UNCHANGED tmp
      BY <2>1, <3>1 DEF Completed
    <3>3. Still /\ r.step # "swap"
      BY <1>0, <2>6, <3>2 DEF Still
    <3> QED
      BY <1>0, <2>5, <3>3, QuietWorker, StillData
  <2>7. CASE r.step \in SaveSteps
    <3>1. r.call \in 1..Len(calls) /\ calls[r.call].op = "save"
      BY <1>1, <2>7, RequestsOfOldCalls DEF CallInv, RequestInv, SaveRequest
    <3>2. SaveBegun
      BY <1>0, <1>1, <3>1, NotQueued DEF SaveBegun
    <3> QED
      BY <1>0, <2>5, <3>2, StepsBegun, BegunNothing
  <2>8. CASE r.step = "swap"
    <3>1. CodeOf(WorkerFile(r), r) = "success"
      <4>1. r.mode # "chunk"
        BY <1>1, <2>8 DEF SwapInv, SwapRequests, SwapRequest
      <4> QED
        BY <4>1 DEF CodeOf
    <3>2. Handler(r, "success", Returns(WorkerFile(r), r))
      BY <2>1, <3>1
    <3>3. PICK t : /\ SwapHandlers' = {t} /\ t.ec = "success"
                   /\ SwapRequests' = {} /\ SwapHandlers = {} /\ r \in SwapRequests
      BY <1>0, <2>8, <3>2, WorkerSwaps
    <3>4. Flying /\ ~Flying'
      BY <3>3 DEF Flying
    <3>5. /\ r.file = "tmp" /\ r.buf = swappingBuffer /\ r.mode \in {"append", "write"}
          /\ swappingBuffer \in Buffers /\ swappingBuffer' = swappingBuffer
          /\ bufs[swappingBuffer] \in Content
      BY <1>0, <3>3, CurrentTypes DEF SwapInv, SwapRequest, swappingBuffer
    <3>6. ASSUME ~error', ~SaveBegun'
          PROVE  /\ logical' = OnDisk' \o (IF Flying' THEN bufs'[swappingBuffer'] ELSE <<>>) \o bufs'[currentBuffer']
    <4>1. ~error /\ ~SaveBegun
      BY <1>0, <3>6, StepsBegun
    <4>2. logical = OnDisk \o bufs[swappingBuffer] \o bufs[currentBuffer]
          /\ (r.mode = "write" => tmp = None)
      BY <3>3, <3>4, <4>1 DEF DataInv
    <4> DEFINE S == bufs[swappingBuffer]
    <4>3. /\ S \in Content /\ <<>> \in Content /\ 0 \in 0..MaxCalls /\ OnDisk \in Content
      BY <3>5, CurrentTypes, OnDiskType, SwappingBufferAssumption
    <4>4. <<>> \o S = S
      <5> HIDE DEF S
      <5> QED
        BY <4>3, ContentTypes
    <4>5. tmp' = OnDisk \o S
      <5>1. CASE tmp = None
        <6>1. tmp' = S
          BY <2>1, <2>3, <3>5, <5>1 DEF Completed
        <6>2. OnDisk = <<>>
          BY <5>1 DEF OnDisk
        <6> QED
          BY <4>4, <6>1, <6>2
      <5>2. CASE tmp # None
        BY <2>1, <2>3, <3>5, <4>2, <5>2 DEF Completed, OnDisk
      <5> QED
        BY <5>1, <5>2
    <4>6. tmp' \in Content
      <5> HIDE DEF S
      <5>1. OnDisk \o S \in Content
        BY <4>3, ContentTypes
      <5> QED
        BY <4>5, <5>1
    <4>7. OnDisk' = tmp'
      BY <4>6, SwappingBufferAssumption DEF OnDisk, Content
    <4>8. OnDisk' \o <<>> = OnDisk'
      BY <4>3, <4>6, <4>7, ContentTypes
    <4> QED
      BY <1>0, <3>4, <4>2, <4>5, <4>7, <4>8
    <3>7. DataInv'
      BY <3>3, <3>6 DEF DataInv
    <3> QED
      BY <2>5, <3>7
  <2> QED
    BY <1>1, <2>6, <2>7, <2>8 DEF FileInv
<1> QED
  BY <1>2, <1>3 DEF Worker

\* The readers preserve FileInv and DataInv.
LEMMA ReaderData ==
  ASSUME CallInv, SwapInv, FileInv, DataInv, ReaderRuns \/ Ask \/ Stop
  PROVE  FileInv' /\ DataInv'
<1>1. TokenInv
  BY DEF CallInv
<1>2. Still /\ UNCHANGED <<bufs, tmp, logical, fs>>
  <2>1. CASE ReaderRuns
    BY <2>1 DEF ReaderRuns, RunMake, MakeFails, RunMade, OfFile, PassOn, OfTmpFile, Cached,
       Deliver, Task, BufferRests, bufferVars, flagVars, fileVars, Still
  <2>2. CASE Ask
    BY <2>2 DEF Ask, BufferRests, bufferVars, flagVars, fileVars, Still
  <2>3. CASE Stop
    BY <2>3 DEF Stop, vars, bufferVars, flagVars, fileVars, queueVars, Still
  <2> QED
    BY <2>1, <2>2, <2>3
<1>3. FileInv'
  BY <1>1, <1>2, CurrentTypes, FilesKept
<1> QED
  BY <1>1, <1>2, <1>3, QuietReader, StillData

\* The return of the callback preserves FileInv and DataInv.
LEMMA CallbackData ==
  ASSUME CallInv, KindInv, OverlapInv, SwapInv, FileInv, DataInv, CallbackReturns
  PROVE  FileInv' /\ DataInv'
<1>1. TokenInv /\ UNCHANGED <<calls, bufs, currentBuffer, tmp, isOnDisk, error, logical, fs>>
  BY DEF CallInv, CallbackReturns, bufferVars, flagVars, fileVars
<1>2. SwapRequests' = SwapRequests /\ SwapHandlers' = SwapHandlers
  BY <1>1, CallbackSwaps
<1>3. (~SaveBegun' => ~SaveBegun) /\ OnDisk' = OnDisk /\ swappingBuffer' = swappingBuffer /\ Flying' = Flying
  BY <1>1, <1>2, StepsBegun DEF OnDisk, swappingBuffer, Flying
<1>4. DataInv'
  BY <1>1, <1>2, <1>3 DEF DataInv
<1>5. FileInv'
  BY <1>1, CurrentTypes, FilesKept
<1> QED
  BY <1>4, <1>5

-----------------------------------------------------------------------------
(* One readAll, or one save, at a time.                                    *)

\* The work of a call is a step of readAll, or of save, and has had its turn.
LEMMA WorkingCalls ==
  ASSUME TokenInv, RequestInv, KindInv, NEW c \in Working
  PROVE  /\ c \in Unanswered /\ c \in 1..Len(calls) /\ c \notin Queued
         /\ calls[c].op \in {"readAll", "save"}
         /\ calls[c].op = "save" => SaveBegun
<1>1. /\ c \in Outstanding /\ c \notin Queued
      /\ \E step : step # "swap" /\ calls[c].op = OpOf(step)
  <2>1. CASE c \in {r.call : r \in Jobs}
    <3>1. PICK r \in Jobs : c = r.call
      BY <2>1
    <3>2. r \in Elements(fs) /\ r.step # "swap"
      BY DEF Jobs
    <3> QED
      BY <3>1, <3>2, NotQueued DEF Outstanding, FsCalls, KindInv
  <2>2. CASE c \in {t.call : t \in DoneJobs}
    <3>1. PICK t \in DoneJobs : c = t.call
      BY <2>2
    <3>2. t \in Elements(io_) /\ t.task = "handler" /\ t.request.step # "swap" /\ Own(t)
      BY DEF DoneJobs, Own
    <3> QED
      BY <3>1, <3>2, NotQueued DEF Outstanding, IoCalls, KindInv, TaskOp
  <2> QED
    BY <2>1, <2>2 DEF Working
<1>2. c \in Unanswered /\ c \in 1..Len(calls)
  BY <1>1 DEF TokenInv, Unanswered
<1>3. calls[c].op \in {"readAll", "save"}
  BY <1>1 DEF OpOf
<1> QED
  BY <1>1, <1>2, <1>3 DEF SaveBegun

\* What is called after a readAll that is at work asks for the size, or for a reader.
LEMMA WorkingFirst ==
  ASSUME TokenInv, RequestInv, KindInv, OrderInv, ReadsAlone,
         NEW c \in Working, NEW d \in 1..Len(calls), c < d
  PROVE  calls[d].op \in {"size", "make_chunked_stream"}
<1>1. c \in Unanswered /\ c \in 1..Len(calls) /\ calls[c].op \in {"readAll", "save"}
  BY WorkingCalls
<1>2. Len(calls) \in Nat
  BY DEF TokenInv, Lists
<1>3. calls[c].op = "readAll"
  <2>1. calls[c].op = "save" => c = Len(calls)
    BY <1>1 DEF OrderInv
  <2> QED
    BY <1>1, <1>2, <2>1
<1> DEFINE p == <<Key(c), Key(d)>>
<1>4. p \in Overlaps
  BY <1>1 DEF OrderInv
<1>5. p[1][1] = calls[c].op /\ p[2][1] = calls[d].op
  BY DEF Key
<1> HIDE DEF p
<1> QED
  BY <1>3, <1>4, <1>5 DEF ReadsAlone

\* So at most one of them is at work.
LEMMA OneWorks ==
  ASSUME TokenInv, RequestInv, KindInv, OrderInv, ReadsAlone, NEW c \in Working
  PROVE  Working = {c}
<1>1. ASSUME NEW d \in Working, d # c
      PROVE  FALSE
  <2>1. /\ c \in 1..Len(calls) /\ d \in 1..Len(calls)
        /\ calls[c].op \in {"readAll", "save"} /\ calls[d].op \in {"readAll", "save"}
    BY <1>1, WorkingCalls
  <2>2. c < d \/ d < c
    BY <1>1, <2>1
  <2> QED
    BY <1>1, <2>1, <2>2, WorkingFirst
<1> QED
  BY <1>1

\* Nothing is at work when an operation has its turn that is none of the two harmless ones.
LEMMA TurnAlone ==
  ASSUME TokenInv, RequestInv, KindInv, OrderInv, WorkInv, ReadsAlone, Run,
         RunAppend \/ RunClear \/ RunReadAll \/ RunSave
  PROVE  Working = {}
<1>1. /\ io_ # <<>> /\ Own(Head(io_)) /\ Head(io_).task = "operation"
      /\ calls[Turn].op \in {"append", "clear", "readAll", "save"}
  BY DEF RunAppend, RunClear, RunReadAll, RunSave, Running, Own, Turn
<1>2. Turn \in Queued /\ Turn \in 1..Len(calls)
  BY <1>1, HeadOfIo DEF Queued, PostedOperations, Turn
<1> SUFFICES ASSUME NEW c \in Working
             PROVE  FALSE
  OBVIOUS
<1>3. c < Turn
  BY <1>2 DEF WorkInv
<1>4. calls[Turn].op \in {"size", "make_chunked_stream"}
  BY <1>2, <1>3, WorkingFirst
<1> QED
  BY <1>1, <1>4

\* Nor when the application appends.
LEMMA AppendAlone ==
  ASSUME TokenInv, RequestInv, KindInv, SwapsAwaited, NEW size, MayCall("append", size)
  PROVE  Working = {}
<1> SUFFICES ASSUME NEW c \in Working
             PROVE  FALSE
  OBVIOUS
<1>1. c \in Unanswered /\ calls[c].op \in {"readAll", "save"}
  BY WorkingCalls
<1> DEFINE p == <<Key(c), <<"append", size>>>>
<1>2. p \in Overlaps
  BY <1>1, AllowedCall
<1>3. p[1][1] = calls[c].op /\ p[2][1] = "append"
  BY DEF Key
<1> HIDE DEF p
<1> QED
  BY <1>1, <1>2, <1>3 DEF SwapsAwaited

\* A step that submits no request but a swap, or for a call that is at work already.
LEMMA WorkingShrinks ==
  ASSUME TokenInv, PlainStep,
         \/ UNCHANGED fs \/ (fs # <<>> /\ fs' = Tail(fs))
         \/ \E r : (r.step = "swap" \/ r.call \in Working) /\ Submit(r)
  PROVE  Working' \subseteq Working
<1>1. ASSUME NEW r \in Jobs'
      PROVE  r.call \in Working
  <2>1. r \in Elements(fs') /\ r.step # "swap"
    BY <1>1 DEF Jobs
  <2>2. CASE r \in Elements(fs)
    BY <2>1, <2>2 DEF Jobs, Working
  <2>3. CASE r \notin Elements(fs)
    <3>1. PICK q : (q.step = "swap" \/ q.call \in Working) /\ Submit(q)
      BY <2>1, <2>3, FsSets
    <3>2. r = q
      BY <2>1, <2>3, <3>1, FsSets DEF Submit
    <3> QED
      BY <2>1, <3>1, <3>2
  <2> QED
    BY <2>2, <2>3
<1>2. ASSUME NEW t \in DoneJobs'
      PROVE  t.call \in Working
  <2>1. t \in Elements(io_') /\ t.task = "handler" /\ t.request.step # "swap"
    BY <1>2 DEF DoneJobs
  <2>2. CASE t \in Elements(io_)
    BY <2>1, <2>2 DEF DoneJobs, Working
  <2>3. CASE NewTask(t)
    <3>1. fs # <<>> /\ fs' = Tail(fs) /\ t.request = Head(fs) /\ t.call = Head(fs).call
      BY <2>1, <2>3 DEF NewTask
    <3>2. Head(fs) \in Jobs
      BY <2>1, <3>1, FsSets DEF Jobs
    <3> QED
      BY <3>1, <3>2 DEF Working
  <2> QED
    BY <2>1, <2>2, <2>3, PlainElements
<1> QED
  BY <1>1, <1>2 DEF Working

\* WorkInv survives a step that sets nothing to work, begins no swap and lets nothing wait.
LEMMA WorkKept ==
  ASSUME WorkInv, Working' \subseteq Working, Queued' \subseteq Queued,
         Working # {} => swapping' = swapping \/ ~swapping'
  PROVE  WorkInv'
BY DEF WorkInv

\* The requests other than a swap's when a call of the application is made.
LEMMA CallWorking ==
  ASSUME TokenInv, UNCHANGED io_ \/ enqueueAndRun(New),
         UNCHANGED fs \/ \E r : r.step = "swap" /\ Submit(r)
  PROVE  Jobs' = Jobs /\ DoneJobs' = DoneJobs /\ Working' = Working
<1>1. Jobs' = Jobs
  <2>1. CASE UNCHANGED fs
    BY <2>1 DEF Jobs
  <2>2. ASSUME NEW r, r.step = "swap", Submit(r)
        PROVE  Jobs' = Jobs
    BY <2>2, FsSets DEF Submit, Jobs
  <2> QED
    BY <2>1, <2>2
<1>2. DoneJobs' = DoneJobs
  <2>1. CASE UNCHANGED io_
    BY <2>1 DEF DoneJobs
  <2>2. CASE enqueueAndRun(New)
    <3> DEFINE l == Append(callbacks, New)
    <3>1. IsList(l)
      BY AppendList DEF TokenInv, Lists
    <3>2. UNCHANGED io_ \/ io_' = io_ \o Tasks(l)
      BY <2>2 DEF enqueueAndRun, Post
    <3> HIDE DEF l
    <3>3. UNCHANGED io_ \/ Elements(io_') = Elements(io_) \cup OperationsOf(l)
      BY <3>1, <3>2, PostList DEF TokenInv, Lists
    <3> QED
      BY <3>3 DEF DoneJobs, OperationsOf, OperationOf
  <2> QED
    BY <2>1, <2>2
<1> QED
  BY <1>1, <1>2 DEF Working

\* The same when a callback returns.
LEMMA CallbackWorking ==
  ASSUME TokenInv, CallbackReturns
  PROVE  Jobs' = Jobs /\ DoneJobs' = DoneJobs /\ Working' = Working
<1>1. UNCHANGED fs /\ io_' = io_ \o Tasks(callbacks)
  BY DEF CallbackReturns, Post
<1>2. Elements(io_') = Elements(io_) \cup OperationsOf(callbacks)
  BY <1>1, PostList DEF TokenInv, Lists
<1>3. Jobs' = Jobs /\ DoneJobs' = DoneJobs
  BY <1>1, <1>2 DEF Jobs, DoneJobs, OperationsOf, OperationOf
<1> QED
  BY <1>3 DEF Working

\* What the calls of the application leave at work.
LEMMA AppCallWorking ==
  ASSUME TokenInv, RequestInv, KindInv, SwapsAwaited, AppCall \/ Enqueue("make_chunked_stream")
  PROVE  /\ Jobs' = Jobs /\ DoneJobs' = DoneJobs /\ Working' = Working
         /\ \/ Working = {}
            \/ \E op : Enqueue(op)
<1>1. ASSUME NEW size \in Sizes,
             AppendInMemory(size) \/ AppendHuge(size) \/ AppendAndSwap(size) \/ AppendDuringSwap(size)
      PROVE  Jobs' = Jobs /\ DoneJobs' = DoneJobs /\ Working' = Working /\ Working = {}
  <2>1. MayCall("append", size)
    BY <1>1 DEF AppendInMemory, AppendHuge, AppendAndSwap, AppendDuringSwap, AppendCall
  <2>2. UNCHANGED io_ \/ enqueueAndRun(New)
    BY <1>1 DEF AppendInMemory, AppendHuge, AppendAndSwap, AppendDuringSwap, queueVars
  <2>3. UNCHANGED fs \/ \E r : r.step = "swap" /\ Submit(r)
    BY <1>1 DEF AppendInMemory, AppendHuge, AppendAndSwap, AppendDuringSwap, queueVars,
       startSwapping, swappingOperation, Request
  <2> QED
    BY <2>1, <2>2, <2>3, AppendAlone, CallWorking
<1>2. ASSUME NEW op, Enqueue(op)
      PROVE  Jobs' = Jobs /\ DoneJobs' = DoneJobs /\ Working' = Working
  BY <1>2, CallWorking DEF Enqueue
<1> QED
  BY <1>1, <1>2 DEF AppCall

\* Every call of the application preserves WorkInv.
LEMMA AppCallWork ==
  ASSUME TokenInv, RequestInv, KindInv, WorkInv, SwapsAwaited, AppCall \/ Enqueue("make_chunked_stream")
  PROVE  WorkInv'
<1>1. CASE Working = {}
  BY <1>1, AppCallWorking DEF WorkInv
<1>2. ASSUME NEW op, Enqueue(op)
      PROVE  WorkInv'
  <2> DEFINE n == New
  <2>1. Queued' = Queued \cup {n} /\ swapping' = swapping
    BY <1>2, EnqueueSets DEF Enqueue
  <2>2. n = Len(calls) + 1 /\ Len(calls) \in Nat
    BY DEF TokenInv, Lists, New
  <2>3. \A c \in Working : c \in 1..Len(calls)
    BY WorkingCalls
  <2> HIDE DEF n
  <2>4. \A c \in Working : c < n
    BY <2>2, <2>3
  <2> QED
    BY <2>1, <2>4, AppCallWorking DEF WorkInv
<1> QED
  BY <1>1, <1>2, AppCallWorking

\* Every operation that is run preserves WorkInv: it begins its work, if it does, before
\* whatever still waits.
LEMMA RunWork ==
  ASSUME TokenInv, TokenInv', RequestInv, KindInv, SwapInv, OrderInv, WorkInv, ReadsAlone, Run
  PROVE  WorkInv'
<1>0. PlainStep /\ Queued' \subseteq Queued
  BY RunPlain, PlainQueued
<1>1. CASE RunAppend
  <2>1. \E r : r.step = "swap" /\ Submit(r)
    BY <1>1 DEF RunAppend, startSwapping, swappingOperation, Request
  <2> QED
    BY <1>0, <1>1, <2>1, TurnAlone, WorkingShrinks, WorkKept
<1>2. CASE RunSize \/ RunClear \/ RunCleared
  <2>1. UNCHANGED <<fs, swapping>>
    BY <1>2 DEF RunSize, RunClear, RunCleared
  <2> QED
    BY <1>0, <2>1, WorkingShrinks, WorkKept
<1>3. CASE RunReadAll \/ RunSave
  <2>1. Working = {}
    BY <1>3, TurnAlone
  <2>2. /\ io_ # <<>> /\ Own(Head(io_)) /\ Head(io_).task = "operation" /\ io_' = Tail(io_)
        /\ UNCHANGED swapping
    BY <1>3 DEF RunReadAll, RunSave, Running, Own
  <2>3. Head(io_) \in PostedOperations /\ Turn \in Queued
    BY <2>2, IoSets DEF PostedOperations, Queued, Turn
  <2>4. ~swapping'
    BY <2>2, <2>3 DEF SwapInv
  <2>5. CASE UNCHANGED fs
    BY <1>0, <2>1, <2>2, <2>5, WorkingShrinks, WorkKept
  <2>6. ASSUME NEW r, r.call = Turn, Submit(r)
        PROVE  WorkInv'
    <3>1. Elements(fs') = Elements(fs) \cup {r}
      BY <2>6, FsSets DEF Submit
    <3>2. Turn \notin Queued'
      <4>1. Turn \in IoCalls(io_) /\ IoCalls(Tail(io_)) = IoCalls(io_) \ {Turn}
        BY <2>2, IoTail DEF TokenInv, Lists, Turn
      <4>2. Turn \notin Elements(callbacks')
        BY <1>0, <4>1 DEF TokenInv, PlainStep
      <4>3. \A u \in PostedOperations' : u.call \in IoCalls(Tail(io_))
        BY <2>2 DEF PostedOperations, IoCalls, Own
      <4> QED
        BY <4>1, <4>2, <4>3 DEF Queued
    <3>3. \A d \in Queued' : Turn < d
      BY <1>0, <2>3, <3>2, TurnFirst
    <3>4. DoneJobs' \subseteq DoneJobs
      BY <2>2, IoSets DEF DoneJobs
    <3>5. Working' \subseteq Working \cup {Turn}
      BY <2>6, <3>1, <3>4 DEF Working, Jobs
    <3> QED
      BY <2>1, <2>4, <3>3, <3>5 DEF WorkInv
  <2>7. UNCHANGED fs \/ \E r : r.call = Turn /\ Submit(r)
    BY <1>3 DEF RunReadAll, RunSave, SaveLocal, NextChunk, Request
  <2> QED
    BY <2>5, <2>6, <2>7
<1> QED
  BY <1>1, <1>2, <1>3 DEF Run

\* What a handler of another request leaves at work.
LEMMA OtherHandleWorking ==
  ASSUME TokenInv, RequestInv, KindInv, OtherHandle
  PROVE  /\ io_ # <<>> /\ Head(io_) \in DoneJobs /\ Turn \in Working
         /\ io_' = Tail(io_) /\ UNCHANGED swapping
         /\ (UNCHANGED fs \/ \E r : r.call = Turn /\ Submit(r))
         /\ Working' \subseteq Working
<1>1. Settled /\ \E step \in SaveSteps \cup {"read", "read_tmp"} : Handling(step)
  BY DEF OtherHandle, LocalSaved, RestSaved, MoveFailed, CopyChunk, ChunkCopied, TailSaved, ReadDone,
     ReadTmpDone, SaveSteps
<1>2. io_ # <<>> /\ Head(io_).task = "handler" /\ Head(io_).request.step # "swap" /\ io_' = Tail(io_)
  BY <1>1 DEF Handling, SaveSteps
<1>3. Head(io_) \in DoneJobs /\ Turn \in Working
  BY <1>2, HeadOfIo DEF DoneJobs, Working, Turn
<1>4. UNCHANGED fs \/ \E r : r.call = Turn /\ Submit(r)
  <2>1. CASE LocalSaved \/ RestSaved \/ MoveFailed \/ CopyChunk
    BY <2>1 DEF LocalSaved, RestSaved, MoveFailed, CopyChunk, SaveLocal, Request
  <2>2. CASE ChunkCopied \/ TailSaved \/ ReadDone \/ ReadTmpDone
    BY <2>2 DEF ChunkCopied, TailSaved, ReadDone, ReadTmpDone, NextChunk, Request
  <2> QED
    BY <2>1, <2>2 DEF OtherHandle
<1>5. PlainStep
  BY HandlePlain DEF OtherHandle, Handle
<1>6. Working' \subseteq Working
  BY <1>3, <1>4, <1>5, WorkingShrinks
<1> QED
  BY <1>1, <1>2, <1>3, <1>4, <1>6 DEF Settled

\* Nothing is at work when a swap is, and postSwapRoutine sets nothing to work.
LEMMA SwapHandledWorking ==
  ASSUME TokenInv, KindInv, SwapInv, WorkInv, SwapDone \/ SwapRetry \/ SwapFailed
  PROVE  Working = {} /\ Working' = {}
<1>1. Handling("swap")
  BY DEF SwapDone, SwapRetry, SwapFailed
<1>2. swapping
  BY <1>1, SwapHandled
<1>3. Working = {}
  BY <1>2 DEF WorkInv
<1>4. PlainStep
  BY HandlePlain DEF Handle
<1>5. UNCHANGED fs \/ \E r : r.step = "swap" /\ Submit(r)
  BY DEF SwapDone, SwapRetry, SwapFailed, swappingOperation, Request
<1> QED
  BY <1>3, <1>4, <1>5, WorkingShrinks

\* The readers leave the file system alone.
LEMMA ReaderLeavesFs ==
  ASSUME ReaderRuns \/ Ask \/ Stop
  PROVE  UNCHANGED <<fs, swapping>>
<1>1. CASE ReaderRuns
  BY <1>1 DEF ReaderRuns, RunMake, MakeFails, RunMade, OfFile, PassOn, OfTmpFile, Cached,
     Deliver, Task, BufferRests
<1>2. CASE Ask
  BY <1>2 DEF Ask, BufferRests
<1>3. CASE Stop
  BY <1>3 DEF Stop, vars, queueVars
<1> QED
  BY <1>1, <1>2, <1>3

\* All other steps preserve WorkInv.
LEMMA OtherWork ==
  ASSUME TokenInv, RequestInv, KindInv, SwapInv, WorkInv,
         Handle \/ CallbackReturns \/ Worker \/ ReaderRuns \/ Ask \/ Stop
  PROVE  WorkInv'
<1>1. CASE OtherHandle
  <2>1. PlainStep
    BY <1>1, HandlePlain DEF OtherHandle, Handle
  <2> QED
    BY <1>1, <2>1, PlainQueued, OtherHandleWorking, WorkKept
<1>2. CASE SwapDone \/ SwapRetry \/ SwapFailed
  BY <1>2, SwapHandledWorking DEF WorkInv
<1>3. CASE CallbackReturns
  <2>1. UNCHANGED swapping
    BY <1>3 DEF CallbackReturns
  <2> QED
    BY <1>3, <2>1, CallbackQueued, CallbackWorking, WorkKept
<1>4. CASE Worker
  <2>1. PlainStep /\ fs # <<>> /\ fs' = Tail(fs) /\ UNCHANGED swapping
    BY <1>4, WorkerPlain DEF Worker, PerformRequest, FailRequest
  <2> QED
    BY <2>1, PlainQueued, WorkingShrinks, WorkKept
<1>5. CASE ReaderRuns \/ Ask \/ Stop
  <2>1. PlainStep /\ Quiet
    BY <1>5, ReaderPlain, QuietReader
  <2>2. UNCHANGED <<fs, swapping>>
    BY <1>5, ReaderLeavesFs
  <2> QED
    BY <2>1, <2>2, PlainQueued, WorkingShrinks, WorkKept
<1> QED
  BY <1>1, <1>2, <1>3, <1>4, <1>5 DEF Handle, OtherHandle

-----------------------------------------------------------------------------
(* The files before the save begins.                                       *)

\* A buffer keeps its kind.
LEMMA KindStays ==
  ASSUME \/ AppCall \/ Enqueue("make_chunked_stream")
         \/ Run \/ Handle \/ CallbackReturns \/ Worker
         \/ ReaderRuns \/ Ask \/ Stop
  PROVE  UNCHANGED kind
<1>1. CASE AppCall
  BY <1>1 DEF AppCall, AppendInMemory, AppendHuge, AppendAndSwap, AppendDuringSwap, AppendCall, Enqueue
<1>2. CASE Enqueue("make_chunked_stream")
  BY <1>2 DEF Enqueue
<1>3. CASE Run
  BY <1>3 DEF Run, RunAppend, RunSize, RunClear, RunCleared, RunReadAll, RunSave
<1>4. CASE Handle
  BY <1>4 DEF Handle, SwapDone, SwapRetry, SwapFailed, LocalSaved, RestSaved, MoveFailed, CopyChunk,
     ChunkCopied, TailSaved, ReadDone, ReadTmpDone, Settled
<1>5. CASE CallbackReturns \/ Worker
  BY <1>5 DEF CallbackReturns, Worker, PerformRequest, FailRequest
<1>6. CASE ReaderRuns
  BY <1>6 DEF ReaderRuns, RunMake, MakeFails, RunMade, OfFile, PassOn, OfTmpFile, Cached, Deliver,
     Task, BufferRests
<1>7. CASE Ask \/ Stop
  BY <1>7 DEF Ask, Stop, BufferRests, vars
<1> QED
  BY <1>1, <1>2, <1>3, <1>4, <1>5, <1>6, <1>7

\* A step that leaves the files alone.
LEMMA FilesStay ==
  ASSUME FilesThere, UNCHANGED <<kind, dest, tmp, isOnDisk>>,
         ~SaveBegun' => ~SaveBegun, SwapHandlers' \subseteq SwapHandlers
  PROVE  FilesThere'
BY DEF FilesThere

\* The calls of the application leave the files alone.
LEMMA AppCallFiles ==
  ASSUME TokenInv, FilesThere, AppCall \/ Enqueue("make_chunked_stream")
  PROVE  FilesThere'
<1>1. UNCHANGED <<dest, tmp, isOnDisk>>
  <2>1. CASE AppCall
    BY <2>1 DEF AppCall, AppendInMemory, AppendHuge, AppendAndSwap, AppendDuringSwap, AppendCall,
       Enqueue, fileVars, flagVars
  <2>2. CASE Enqueue("make_chunked_stream")
    BY <2>2 DEF Enqueue, fileVars, flagVars
  <2> QED
    BY <2>1, <2>2
<1>2. /\ \E op, size : MayCall(op, size)
      /\ UNCHANGED <<io_, callbacks>> \/ enqueueAndRun(New)
  <2>1. ASSUME NEW size \in Sizes, AppendInMemory(size) \/ AppendHuge(size) \/ AppendAndSwap(size)
                                     \/ AppendDuringSwap(size)
        PROVE  /\ \E op, z : MayCall(op, z)
               /\ UNCHANGED <<io_, callbacks>> \/ enqueueAndRun(New)
    BY <2>1 DEF AppendInMemory, AppendHuge, AppendAndSwap, AppendDuringSwap, AppendCall, queueVars
  <2>2. ASSUME NEW op, Enqueue(op)
        PROVE  (\E o, z : MayCall(o, z)) /\ enqueueAndRun(New)
    BY <2>2 DEF Enqueue
  <2> QED
    BY <2>1, <2>2 DEF AppCall
<1>3. NewCall
  BY <1>2, CalledIs DEF TokenInv
<1>4. Queued' \subseteq Queued \cup {New} /\ SwapHandlers' = SwapHandlers
  <2>1. CASE UNCHANGED <<io_, callbacks>>
    BY <2>1 DEF Queued, PostedOperations, SwapHandlers
  <2>2. CASE enqueueAndRun(New)
    BY <2>2, EnqueueSets
  <2> QED
    BY <1>2, <2>1, <2>2
<1>5. ~SaveBegun' => ~SaveBegun
  BY <1>3, <1>4, CallBegun
<1> QED
  BY <1>1, <1>4, <1>5, KindStays, FilesStay

\* The operations that are run: what clear removes is not on disk any more.
LEMMA RunFiles ==
  ASSUME TokenInv, KindInv, OverlapInv, SwapInv, SwapsAwaited, FilesThere, Run
  PROVE  FilesThere'
<1>1. UNCHANGED kind /\ (~SaveBegun' => ~SaveBegun)
  BY KindStays, StepsBegun
<1>2. CASE RunAppend
  <2>1. UNCHANGED <<dest, tmp, isOnDisk>>
    BY <1>2 DEF RunAppend, flagVars, fileVars
  <2> QED
    BY <1>1, <1>2, <2>1, RunAppendSwaps, FilesStay
<1>3. CASE RunSize \/ RunCleared \/ RunReadAll \/ RunSave
  <2>1. UNCHANGED <<dest, tmp, isOnDisk>>
    BY <1>3 DEF RunSize, RunCleared, RunReadAll, RunSave, flagVars, fileVars
  <2> QED
    BY <1>1, <1>3, <2>1, QuietRun, FilesStay DEF Quiet
<1>4. CASE RunClear
  <2>1. isOnDisk' = FALSE /\ UNCHANGED dest /\ io_ # <<>> /\ Head(io_).task = "operation"
    BY <1>4 DEF RunClear, Running
  <2>2. Head(io_) \in PostedOperations
    BY <2>1, HeadOfIo DEF PostedOperations
  <2>3. SwapHandlers' = {}
    BY <1>4, <2>2, QuietRun DEF SwapInv, Quiet
  <2> QED
    BY <1>1, <2>1, <2>3 DEF FilesThere
<1> QED
  BY <1>2, <1>3, <1>4 DEF Run

\* The handlers: a swap that is done has left a file.
LEMMA HandleFiles ==
  ASSUME CallInv, KindInv, SwapInv, FilesThere, Handle
  PROVE  FilesThere'
<1>1. UNCHANGED kind /\ TokenInv /\ (~SaveBegun' => ~SaveBegun)
  BY KindStays, StepsBegun DEF CallInv
<1>2. CASE SwapDone \/ SwapRetry \/ SwapFailed
  <2>1. /\ UNCHANGED <<dest, tmp>> /\ Handling("swap")
        /\ UNCHANGED isOnDisk \/ Head(io_).ec = "success"
    BY <1>2 DEF SwapDone, SwapRetry, SwapFailed, fileVars, Ec
  <2>2. SwapHandlers = {Head(io_)} /\ SwapHandlers' = {}
    BY <1>1, <2>1, SwapHandled
  <2> QED
    BY <1>1, <2>1, <2>2 DEF FilesThere
<1>3. CASE ReadDone \/ ReadTmpDone
  <2>1. UNCHANGED <<dest, tmp, isOnDisk>> /\ OtherHandle
    BY <1>3 DEF ReadDone, ReadTmpDone, Settled, fileVars, OtherHandle
  <2> QED
    BY <1>1, <2>1, QuietHandle, FilesStay DEF Quiet
<1>4. CASE LocalSaved \/ RestSaved \/ MoveFailed \/ CopyChunk \/ ChunkCopied \/ TailSaved
  BY <1>1, <1>4, SaveHandled DEF FilesThere
<1> QED
  BY <1>2, <1>3, <1>4 DEF Handle

\* The worker: a vector that has been written is in a file.
LEMMA WorkerFiles ==
  ASSUME CallInv, KindInv, OverlapInv, SwapInv, FileInv, FilesThere, Worker
  PROVE  FilesThere'
<1>0. /\ TokenInv /\ fs # <<>> /\ fs' = Tail(fs)
      /\ UNCHANGED <<kind, calls, isOnDisk>> /\ (~SaveBegun' => ~SaveBegun)
  BY KindStays, StepsBegun DEF CallInv, Worker, PerformRequest, FailRequest, flagVars
<1> DEFINE r == Head(fs)
<1>1. r \in Elements(fs)
  BY <1>0, FsSets
<1>2. CASE FailRequest
  <2>1. UNCHANGED <<tmp, dest>> /\ \E code \in {"open_failure", "other_failure"} : Handler(r, code, <<>>)
    BY <1>2 DEF FailRequest
  <2>2. CASE r.step = "swap"
    <3>1. PICK code \in {"open_failure", "other_failure"} : Handler(r, code, <<>>)
      BY <2>1
    <3>2. PICK t : SwapHandlers' = {t} /\ t.ec = code
      BY <1>0, <2>2, <3>1, WorkerSwaps
    <3> QED
      BY <1>0, <2>1, <3>2 DEF FilesThere
  <2>3. CASE r.step # "swap"
    BY <1>0, <2>1, <2>3, QuietWorker, FilesStay DEF Quiet
  <2> QED
    BY <2>2, <2>3
<1>3. CASE PerformRequest
  <2>1. /\ tmp' = IF r.file = "tmp" THEN Completed(tmp, r) ELSE tmp
        /\ dest' = IF r.file = "dest" THEN Completed(dest, r) ELSE dest
    BY <1>3 DEF PerformRequest, WorkerFile
  <2>2. CASE r.step \in {"read", "read_tmp"}
    <3>1. r.mode = "read"
      BY <1>1, <2>2 DEF FileInv
    <3>2. UNCHANGED <<tmp, dest>> /\ r.step # "swap"
      BY <2>1, <2>2, <3>1 DEF Completed
    <3> QED
      BY <1>0, <3>2, QuietWorker, FilesStay DEF Quiet
  <2>3. CASE r.step \in SaveSteps
    <3>1. r.call \in 1..Len(calls) /\ calls[r.call].op = "save"
      BY <1>1, <2>3, RequestsOfOldCalls DEF CallInv, RequestInv, SaveRequest
    <3>2. SaveBegun
      BY <1>0, <1>1, <3>1, NotQueued DEF SaveBegun
    <3> QED
      BY <1>0, <3>2 DEF FilesThere
  <2>4. CASE r.step = "swap"
    <3>1. SwapRequest(r)
      BY <1>1, <2>4 DEF SwapInv, SwapRequests
    <3>2. UNCHANGED dest
      BY <2>1, <3>1 DEF SwapRequest
    <3> DEFINE S == bufs[swappingBuffer]
    <3>3. S \in Content /\ swappingBuffer \in Buffers /\ 0 \in 0..MaxCalls
      BY CurrentTypes, SwappingBufferAssumption
    <3>4. Source(r.buf) = S
      BY <3>1, <3>3 DEF Source, Buffers, SwapRequest
    <3>5. tmp' = S \/ (tmp # None /\ tmp' = tmp \o S)
      BY <2>1, <3>1, <3>4 DEF Completed, SwapRequest
    <3>6. tmp' \in Content
      <4>1. tmp # None => tmp \in Content
        BY DEF FileInv
      <4> HIDE DEF S
      <4> QED
        BY <3>3, <3>5, <4>1, ContentTypes
    <3>7. tmp' # None
      BY <3>6, SwappingBufferAssumption DEF Content
    <3> QED
      BY <1>0, <3>2, <3>7 DEF FilesThere
  <2> QED
    BY <1>1, <2>2, <2>3, <2>4 DEF FileInv
<1> QED
  BY <1>2, <1>3 DEF Worker

\* The readers, and the return of a callback, leave the files alone.
LEMMA RestFiles ==
  ASSUME TokenInv, KindInv, OverlapInv, SwapInv, FilesThere, CallbackReturns \/ ReaderRuns \/ Ask \/ Stop
  PROVE  FilesThere'
<1>1. UNCHANGED kind /\ (~SaveBegun' => ~SaveBegun)
  BY KindStays, StepsBegun
<1>2. CASE CallbackReturns
  <2>1. UNCHANGED <<dest, tmp, isOnDisk>>
    BY <1>2 DEF CallbackReturns, flagVars, fileVars
  <2> QED
    BY <1>1, <1>2, <2>1, CallbackSwaps, FilesStay
<1>3. CASE ReaderRuns \/ Ask \/ Stop
  <2>1. UNCHANGED <<dest, tmp, isOnDisk>>
    <3>1. CASE ReaderRuns
      BY <3>1 DEF ReaderRuns, RunMake, MakeFails, RunMade, OfFile, PassOn, OfTmpFile, Cached,
         Deliver, Task, BufferRests, flagVars, fileVars
    <3>2. CASE Ask
      BY <3>2 DEF Ask, BufferRests, flagVars, fileVars
    <3>3. CASE Stop
      BY <3>3 DEF Stop, vars, flagVars, fileVars
    <3> QED
      BY <1>3, <3>1, <3>2, <3>3
  <2> QED
    BY <1>1, <1>3, <2>1, QuietReader, FilesStay DEF Quiet
<1> QED
  BY <1>2, <1>3

-----------------------------------------------------------------------------
(* Where readAll and save are: nothing at work, and the operations.        *)

\* A step that leaves the vectors, the files and what is read alone.
SameData == UNCHANGED <<kind, bufs, currentBuffer, tmp, dest, tmp_read, logical, isOnDisk>>

\* Such a step leaves every claim as it was.
LEMMA SameClaims ==
  ASSUME SameData
  PROVE  /\ \A r : Pending(r)' = Pending(r)
         /\ \A t, step : JobDone(t, step)' = JobDone(t, step)
<1>1. ASSUME NEW r
      PROVE  Pending(r)' = Pending(r)
  BY DEF SameData, Pending, PendingRead, PendingReadTmp, PendingLocal, PendingRest, PendingChunk,
     PendingCopied, PendingTail, AllStored, AllHeld, ChunkOf, CopyOf, IsPlace, Does
<1>2. ASSUME NEW t, NEW step
      PROVE  JobDone(t, step)' = JobDone(t, step)
  BY DEF SameData, JobDone, DoneRead, DoneReadTmp, DoneLocal, DoneRest, DoneChunk, DoneCopied, DoneLast,
     DoneTail, AllStored, AllHeld, ChunkOf, CopyOf, IsPlace, Original
<1> QED
  BY <1>1, <1>2

\* A step that sets nothing to work and changes no data keeps every claim.
LEMMA JobsStay ==
  ASSUME JobInv, SameData, error => error', Jobs' \subseteq Jobs, DoneJobs' \subseteq DoneJobs
  PROVE  JobInv'
BY SameClaims DEF JobInv

\* Where nothing is at work nothing is claimed.
LEMMA NoJobs ==
  /\ Working = {} => Jobs = {} /\ DoneJobs = {}
  /\ Working' = {} => Jobs' = {} /\ DoneJobs' = {} /\ JobInv'
BY DEF Working, JobInv

\* At most one request of readAll and save is on its way, or one handler.
LEMMA OneJob ==
  ASSUME TokenInv, RequestInv, KindInv, OrderInv, ReadsAlone
  PROVE  /\ \A r \in Jobs : Jobs = {r} /\ DoneJobs = {}
         /\ \A t \in DoneJobs : DoneJobs = {t} /\ Jobs = {}
<1>1. ASSUME NEW r \in Jobs, NEW q \in Jobs
      PROVE  r = q
  <2>1. r.call = q.call
    BY OneWorks DEF Working
  <2>2. PICK i \in 1..Len(fs), j \in 1..Len(fs) : r = fs[i] /\ q = fs[j]
    BY DEF Jobs, Elements
  <2> QED
    BY <2>1, <2>2 DEF TokenInv, FsOnce
<1>2. ASSUME NEW t \in DoneJobs, NEW u \in DoneJobs
      PROVE  t = u
  <2>1. t.call = u.call
    BY OneWorks DEF Working
  <2>2. PICK i \in 1..Len(io_), j \in 1..Len(io_) : t = io_[i] /\ u = io_[j]
    BY DEF DoneJobs, Elements
  <2>3. Own(t) /\ Own(u)
    BY DEF DoneJobs, Own
  <2> QED
    BY <2>1, <2>2, <2>3 DEF TokenInv, IoOnce
<1>3. ASSUME NEW r \in Jobs, NEW t \in DoneJobs
      PROVE  FALSE
  <2>1. r.call = t.call
    BY OneWorks DEF Working
  <2>2. r.call \in FsCalls(fs)
    BY DEF Jobs, FsCalls
  <2>3. t.call \in IoCalls(io_)
    BY DEF DoneJobs, IoCalls, Own
  <2> QED
    BY <2>1, <2>2, <2>3 DEF TokenInv
<1> QED
  BY <1>1, <1>2, <1>3

\* A step that submits no request finishes at most some.
LEMMA SameJobs ==
  ASSUME TokenInv, PlainStep, UNCHANGED fs
  PROVE  Jobs' = Jobs /\ DoneJobs' \subseteq DoneJobs
<1>1. ASSUME NEW t \in DoneJobs'
      PROVE  t \in DoneJobs
  <2>1. t \in Elements(io_') /\ t.task = "handler" /\ t.request.step # "swap"
    BY <1>1 DEF DoneJobs
  <2>2. ~NewTask(t)
    BY <2>1, FsSets DEF NewTask
  <2> QED
    BY <2>1, <2>2, PlainElements DEF DoneJobs
<1> QED
  BY <1>1 DEF Jobs

\* The calls of the application preserve JobInv.
LEMMA AppCallJobs ==
  ASSUME TokenInv, RequestInv, KindInv, JobInv, SwapsAwaited, AppCall \/ Enqueue("make_chunked_stream")
  PROVE  JobInv'
<1>1. CASE Working = {}
  BY <1>1, AppCallWorking, NoJobs
<1>2. ASSUME NEW op, Enqueue(op)
      PROVE  JobInv'
  <2>1. SameData /\ UNCHANGED error
    BY <1>2 DEF Enqueue, SameData, bufferVars, flagVars, fileVars
  <2> QED
    BY <2>1, AppCallWorking, JobsStay
<1> QED
  BY <1>1, <1>2, AppCallWorking

\* So do the readers, and the return of a callback.
LEMMA RestJobs ==
  ASSUME TokenInv, JobInv, CallbackReturns \/ ReaderRuns \/ Ask \/ Stop
  PROVE  JobInv'
<1>1. SameData /\ UNCHANGED error
  <2>1. CASE CallbackReturns
    BY <2>1 DEF CallbackReturns, SameData, bufferVars, flagVars, fileVars
  <2>2. CASE ReaderRuns
    BY <2>2 DEF ReaderRuns, RunMake, MakeFails, RunMade, OfFile, PassOn, OfTmpFile, Cached,
       Deliver, Task, BufferRests, SameData, bufferVars, flagVars, fileVars
  <2>3. CASE Ask
    BY <2>3 DEF Ask, BufferRests, SameData, bufferVars, flagVars, fileVars
  <2>4. CASE Stop
    BY <2>4 DEF Stop, vars, SameData, bufferVars, flagVars, fileVars
  <2> QED
    BY <2>1, <2>2, <2>3, <2>4
<1>2. Jobs' = Jobs /\ DoneJobs' \subseteq DoneJobs
  <2>1. CASE CallbackReturns
    BY <2>1, CallbackWorking
  <2>2. CASE ReaderRuns \/ Ask \/ Stop
    <3>1. UNCHANGED fs
      BY <2>2, ReaderLeavesFs
    <3> QED
      BY <2>2, <3>1, ReaderPlain, SameJobs
  <2> QED
    BY <2>1, <2>2
<1> QED
  BY <1>1, <1>2, JobsStay

\* With no swap in progress all the content is at rest, on disk and in memory.
LEMMA AtRest ==
  ASSUME FileInv, SwapInv, DataInv, FilesThere, ~error, ~SaveBegun, ~swapping
  PROVE  dest = <<0>> /\ (IF isOnDisk THEN AllStored ELSE AllHeld)
<1>1. SwapRequests = {} /\ SwapHandlers = {} /\ ~Flying
  BY DEF SwapInv, Flying
<1>2. /\ logical = OnDisk \o <<>> \o bufs[currentBuffer]
      /\ (tmp # None <=> isOnDisk) /\ dest = <<0>>
  BY <1>1 DEF DataInv, FilesThere
<1> DEFINE B == bufs[currentBuffer]
<1>3. B \in Content /\ OnDisk \in Content /\ 0 \in 0..MaxCalls
  BY CurrentTypes, OnDiskType, SwappingBufferAssumption
<1>4. OnDisk \o <<>> = OnDisk /\ <<>> \o B = B
  <2> HIDE DEF B
  <2> QED
    BY <1>3, ContentTypes
<1>5. logical = OnDisk \o B
  BY <1>2, <1>4
<1>6. CASE isOnDisk
  BY <1>2, <1>5, <1>6 DEF AllStored, OnDisk
<1>7. CASE ~isOnDisk
  <2>1. OnDisk = <<>>
    BY <1>2, <1>7 DEF OnDisk
  <2> QED
    BY <1>2, <1>4, <1>5, <1>7, <2>1 DEF AllHeld
<1> QED
  BY <1>2, <1>6, <1>7

\* When readAll, or the save, has its turn the content is at rest.
LEMMA TurnAtRest ==
  ASSUME TokenInv, FileInv, SwapInv, DataInv, OrderInv, FilesThere, ~error,
         NEW op, Running(op)
  PROVE  ~swapping /\ dest = <<0>> /\ (IF isOnDisk THEN AllStored ELSE AllHeld)
<1>1. io_ # <<>> /\ Head(io_).task = "operation"
  BY DEF Running
<1>2. Head(io_) \in PostedOperations
  BY <1>1, HeadOfIo DEF PostedOperations
<1>3. ~SaveBegun /\ ~swapping
  BY <1>2 DEF OrderInv, SwapInv, Queued
<1> QED
  BY <1>3, AtRest

\* Nothing is copied yet.
LEMMA CopyOfNone ==
  ASSUME NEW X \in Content
  PROVE  SubSeq(X, 1, 0) = <<>> /\ <<0>> \o <<>> = <<0>>
<1>1. <<0>> \in Content /\ 0 \in 0..MaxCalls
  BY SwappingBufferAssumption DEF Content
<1>2. <<0>> \o <<>> = <<0>>
  BY <1>1, ContentTypes
<1>3. SubSeq(X, 1, 0) = <<>>
  BY DEF Content
<1> QED
  BY <1>2, <1>3

\* What readAll and save submit when they have their turn.
LEMMA TurnPending ==
  ASSUME TokenInv, FileInv, SwapInv, DataInv, OrderInv, FilesThere, ~error,
         RunReadAll \/ RunSave
  PROVE  UNCHANGED fs \/ \E r : Submit(r) /\ r.call = Turn /\ r.step # "swap" /\ Pending(r)
<1>1. ASSUME RunReadAll
      PROVE  UNCHANGED fs \/ \E r : Submit(r) /\ r.call = Turn /\ r.step # "swap" /\ Pending(r)
  <2>1. dest = <<0>> /\ (IF isOnDisk THEN AllStored ELSE AllHeld)
    BY <1>1, TurnAtRest DEF RunReadAll
  <2> DEFINE r == Request(Turn, "read", IF kind = "Append" THEN "dest" ELSE "tmp", "read", "tmp_read", 0)
  <2>2. UNCHANGED fs \/ ((kind = "Append" \/ isOnDisk) /\ Submit(r))
    BY <1>1 DEF RunReadAll, FilesThere
  <2>3. r.step = "read" /\ r.call = Turn /\ Does(r, IF kind = "Append" THEN "dest" ELSE "tmp", "read", "tmp_read")
    BY DEF Request, Does
  <2> HIDE DEF r
  <2>4. (kind = "Append" \/ isOnDisk) => PendingRead(r)
    BY <2>1, <2>3 DEF PendingRead, FilesThere
  <2> QED
    BY <2>2, <2>3, <2>4 DEF Pending
<1>2. ASSUME RunSave
      PROVE  UNCHANGED fs \/ \E r : Submit(r) /\ r.call = Turn /\ r.step # "swap" /\ Pending(r)
  <2>1. dest = <<0>> /\ (IF isOnDisk THEN AllStored ELSE AllHeld)
    BY <1>2, TurnAtRest DEF RunSave
  <2>2. CASE UNCHANGED fs
    BY <2>2
  <2>3. CASE ~isOnDisk /\ SaveLocal(Turn)
    <3> DEFINE r == Request(Turn, "local", "dest", IF kind = "Append" THEN "append" ELSE "write", currentBuffer, 0)
    <3>1. Submit(r)
      BY <2>3 DEF SaveLocal
    <3>2. r.step = "local" /\ r.call = Turn
          /\ Does(r, "dest", IF kind = "Append" THEN "append" ELSE "write", currentBuffer)
      BY DEF Request, Does
    <3> HIDE DEF r
    <3>3. PendingLocal(r)
      BY <2>1, <2>3, <3>2 DEF PendingLocal, AllHeld
    <3> QED
      BY <3>1, <3>2, <3>3 DEF Pending
  <2>4. CASE isOnDisk /\ kind = "Append" /\ NextChunk(Turn, 1)
    <3> DEFINE r == Request(Turn, "chunk", "tmp", "chunk", "own", 1)
    <3>1. Submit(r)
      BY <2>4 DEF NextChunk
    <3>2. r.step = "chunk" /\ r.call = Turn /\ r.n = 1 /\ Does(r, "tmp", "chunk", "own")
      BY DEF Request, Does
    <3> HIDE DEF r
    <3>3. IsPlace(r.n) /\ r.n - 1 = 0
      BY <3>2 DEF IsPlace
    <3>4. AllStored /\ tmp \in Content
      BY <2>1, <2>4 DEF AllStored, FileInv
    <3>5. CopyOf(0) = <<0>>
      BY <3>4, CopyOfNone DEF CopyOf
    <3>6. PendingChunk(r)
      BY <2>1, <2>4, <3>2, <3>3, <3>4, <3>5 DEF PendingChunk
    <3> QED
      BY <3>1, <3>2, <3>6 DEF Pending
  <2>5. CASE isOnDisk /\ kind = "Overwrite" /\ Submit(Request(Turn, "rest", "tmp", "append", currentBuffer, 0))
    <3> DEFINE r == Request(Turn, "rest", "tmp", "append", currentBuffer, 0)
    <3>1. Submit(r)
      BY <2>5
    <3>2. r.step = "rest" /\ r.call = Turn /\ Does(r, "tmp", "append", currentBuffer)
      BY DEF Request, Does
    <3> HIDE DEF r
    <3>3. PendingRest(r)
      BY <2>1, <2>5, <3>2 DEF PendingRest
    <3> QED
      BY <3>1, <3>2, <3>3 DEF Pending
  <2>6. kind \in {"Append", "Overwrite"}
    BY DEF FilesThere
  <2> QED
    BY <1>2, <2>2, <2>3, <2>4, <2>5, <2>6 DEF RunSave
<1> QED
  BY <1>1, <1>2

\* The operations preserve JobInv.
LEMMA RunJobs ==
  ASSUME TokenInv, RequestInv, KindInv, FileInv, SwapInv, DataInv, OrderInv, WorkInv, FilesThere, JobInv,
         ReadsAlone, Run
  PROVE  JobInv'
<1>0. PlainStep
  BY RunPlain
<1>1. CASE RunAppend
  <2>1. \E r : r.step = "swap" /\ Submit(r)
    BY <1>1 DEF RunAppend, startSwapping, swappingOperation, Request
  <2> QED
    BY <1>0, <1>1, <2>1, TurnAlone, WorkingShrinks, NoJobs
<1>2. CASE RunClear
  <2>1. UNCHANGED fs
    BY <1>2 DEF RunClear
  <2> QED
    BY <1>0, <1>2, <2>1, TurnAlone, WorkingShrinks, NoJobs
<1>3. CASE RunSize \/ RunCleared
  <2>1. UNCHANGED <<fs, error>> /\ SameData
    BY <1>3 DEF RunSize, RunCleared, SameData, bufferVars, flagVars, fileVars
  <2> QED
    BY <1>0, <2>1, SameJobs, JobsStay
<1>4. CASE RunReadAll \/ RunSave
  <2>1. SameData /\ UNCHANGED error /\ io_ # <<>> /\ io_' = Tail(io_)
    BY <1>4 DEF RunReadAll, RunSave, Running, SameData, bufferVars, flagVars, fileVars
  <2>2. Jobs = {} /\ DoneJobs = {}
    BY <1>4, TurnAlone, NoJobs
  <2>3. DoneJobs' = {}
    BY <2>1, <2>2, IoSets DEF DoneJobs
  <2>4. SUFFICES ASSUME ~error
                 PROVE  \A r \in Jobs' : Pending(r)'
    BY <2>1, <2>3 DEF JobInv
  <2>5. UNCHANGED fs \/ \E r : Submit(r) /\ r.call = Turn /\ r.step # "swap" /\ Pending(r)
    BY <1>4, <2>4, TurnPending
  <2>6. CASE UNCHANGED fs
    BY <2>2, <2>6 DEF Jobs
  <2>7. ASSUME NEW r, Submit(r), Pending(r)
        PROVE  \A q \in Jobs' : Pending(q)'
    <3>1. Elements(fs') = Elements(fs) \cup {r}
      BY <2>7, FsSets DEF Submit
    <3>2. Jobs' \subseteq {r}
      BY <2>2, <3>1 DEF Jobs
    <3> QED
      BY <2>1, <2>7, <3>2, SameClaims
  <2> QED
    BY <2>5, <2>6, <2>7
<1> QED
  BY <1>1, <1>2, <1>3, <1>4 DEF Run

-----------------------------------------------------------------------------
(* Where readAll and save are: the worker.                                 *)

\* The chunks of a file, one behind the other, are a copy of it.
LEMMA CopyNext ==
  ASSUME tmp \in Content, NEW n, IsPlace(n)
  PROVE  /\ n < Len(tmp) => CopyOf(n - 1) \o ChunkOf(n) = CopyOf(n)
         /\ ~(n < Len(tmp)) => CopyOf(n - 1) \o ChunkOf(n) = <<0>> \o tmp
<1> DEFINE S == 0..MaxCalls
           X == tmp
           l == Len(tmp)
           before == SubSeq(X, 1, n - 1)
           upto == SubSeq(X, 1, n)
           chunk == IF X = <<>> THEN <<>> ELSE <<X[n]>>
<1>1. X \in Seq(S) /\ <<0>> \in Seq(S) /\ <<>> \in Seq(S) /\ l \in Nat
  BY SwappingBufferAssumption DEF Content
<1>2. n \in Nat /\ n >= 1 /\ (n = 1 \/ n <= l)
  BY DEF IsPlace
<1>3. CopyOf(n - 1) \o ChunkOf(n) = (<<0>> \o before) \o chunk /\ CopyOf(n) = <<0>> \o upto
  BY DEF CopyOf, ChunkOf
<1>4. CASE X = <<>>
  <2>1. l = 0 /\ n = 1 /\ chunk = <<>>
    BY <1>2, <1>4
  <2>2. before = <<>>
    BY <1>4, <2>1
  <2>3. (<<0>> \o <<>>) \o <<>> = <<0>> \o <<>>
    BY <1>1, CopyOfNone DEF Content
  <2>4. CopyOf(n - 1) \o ChunkOf(n) = <<0>> \o <<>>
    BY <1>3, <2>1, <2>2, <2>3
  <2>5. ~(n < l)
    BY <2>1
  <2> HIDE DEF before, upto, chunk
  <2> QED
    BY <1>4, <2>4, <2>5
<1>5. CASE X # <<>>
  <2>1. l >= 1 /\ n \in 1..l
    <3>1. l # 0
      BY <1>1, <1>5, EmptySeq
    <3> QED
      BY <1>1, <1>2, <3>1
  <2>2. 1 \in 1..l /\ (\A i \in 1..l : X[i] \in S) /\ X[n] \in S /\ chunk = <<X[n]>>
    <3>1. chunk = <<X[n]>>
      BY <1>5
    <3>2. \A i \in 1..Len(X) : X[i] \in S
      <4> HIDE DEF X, S
      <4> QED
        BY <1>1
    <3> QED
      BY <1>1, <2>1, <3>1, <3>2
  <2> DEFINE x == X[n]
  <2>3. before \in Seq(S) /\ <<x>> \in Seq(S)
    <3>1. \A i \in 1..(n - 1) : X[i] \in S
      <4>1. \A i \in 1..(n - 1) : i \in 1..l
        BY <1>1, <2>1
      <4> QED
        BY <2>2, <4>1
    <3>2. before \in Seq(S)
      <4> HIDE DEF S, X
      <4> QED
        BY <1>2, <3>1, SubSeqProperties
    <3> QED
      BY <2>2, <3>2
  <2>4. upto = before \o <<x>>
    <3> HIDE DEF S, X
    <3>1. n \in 1..Len(X) /\ 1 \in 1..Len(X)
      BY <2>1, <2>2 DEF X
    <3> QED
      BY <1>1, <3>1, SubSeqRecursiveSecond
  <2>5. (<<0>> \o before) \o <<x>> = <<0>> \o upto
    <3> HIDE DEF before, upto, x, S, X
    <3> QED
      BY <1>1, <2>3, <2>4, ConcatAssociative
  <2>6. n = l => upto = X
    <3> HIDE DEF S, X
    <3> QED
      BY <1>1, SubSeqFull DEF X
  <2>7. ~(n < l) => n = l
    BY <1>1, <2>1
  <2> QED
    BY <1>3, <2>2, <2>5, <2>6, <2>7
<1> QED
  BY <1>4, <1>5

\* The worker has performed the request of readAll, or of a save, or has failed.
LEMMA WorkerJob ==
  ASSUME TokenInv, FileInv, SwapInv, FilesThere, ReadsAlone, ~error,
         fs # <<>>, NEW r, r = Head(fs), Pending(r), r.step # "swap", r \in Elements(fs),
         NEW code, NEW data, NEW t, t.request = r, t.ec = code, t.data = data,
         \/ /\ FailRequest /\ code \in {"open_failure", "other_failure"}
         \/ /\ PerformRequest
            /\ code = CodeOf(WorkerFile(r), r) /\ data = Returns(WorkerFile(r), r)
  PROVE  JobDone(t, r.step)'
<1>0. /\ UNCHANGED <<kind, bufs, currentBuffer, logical, isOnDisk>>
      /\ r.step \in {"read", "read_tmp", "local", "rest", "chunk", "copied", "last", "tail"}
      /\ kind \in {"Append", "Overwrite"}
  BY DEF PerformRequest, FailRequest, bufferVars, flagVars, FileInv, SaveSteps, FilesThere
<1> DEFINE B == bufs[currentBuffer]
<1>1. /\ B \in Content /\ currentBuffer \in Buffers /\ tmp \in Content \cup {None} /\ logical \in Content
      /\ <<0>> \in Content /\ 0 \in 0..MaxCalls /\ None \notin Content
      /\ Source(currentBuffer) = B /\ Source("tmp_read") = tmp_read
  <2>1. <<0>> \in Content /\ 0 \in 0..MaxCalls /\ None \notin Content
    BY SwappingBufferAssumption DEF Content
  <2> QED
    BY <2>1, CurrentTypes DEF Source, Buffers
<1>2. CASE FailRequest /\ code \in {"open_failure", "other_failure"}
  <2>1. UNCHANGED <<tmp, dest, tmp_read>>
    BY <1>2 DEF FailRequest
  <2>2. r.step # "read_tmp"
    <3> SUFFICES ASSUME r.step = "read_tmp"
                 PROVE  FALSE
      OBVIOUS
    <3>1. WorkerFile(r) # None
      BY DEF Pending, PendingReadTmp, Does, AllStored, WorkerFile
    <3>2. "read_tmp" \in Faulty
      BY <1>2, <3>1 DEF FailRequest
    <3> QED
      BY <3>2 DEF ReadsAlone
  <2>3. r.step = "local" => DoneLocal(t)'
    BY <1>0, <1>2, <2>1 DEF Pending, PendingLocal, DoneLocal
  <2>4. r.step = "rest" => DoneRest(t)'
    BY <1>0, <1>2, <2>1 DEF Pending, PendingRest, DoneRest
  <2> QED
    BY <1>0, <1>2, <2>2, <2>3, <2>4 DEF JobDone, DoneRead, DoneChunk, DoneCopied, DoneLast, DoneTail
<1>3. CASE PerformRequest /\ code = CodeOf(WorkerFile(r), r) /\ data = Returns(WorkerFile(r), r)
  <2> DEFINE f == WorkerFile(r)
  <2>1. /\ tmp' = IF r.file = "tmp" THEN Completed(f, r) ELSE tmp
        /\ dest' = IF r.file = "dest" THEN Completed(f, r) ELSE dest
        /\ tmp_read' = IF r.buf = "tmp_read" /\ r.mode = "read" THEN f ELSE tmp_read
        /\ t.ec = CodeOf(f, r) /\ t.data = Returns(f, r)
    BY <1>3 DEF PerformRequest
  <2>2. f = (IF r.file = "tmp" THEN tmp ELSE dest)
    BY DEF WorkerFile
  <2>3. /\ r.mode \in {"read", "chunk"} => Completed(f, r) = f
        /\ r.mode # "chunk" => CodeOf(f, r) = "success"
    BY DEF Completed, CodeOf
  <2> HIDE DEF f
  <2>4. CASE r.step = "read"
    <3>1. PendingRead(r)
      BY <2>4 DEF Pending
    <3>2. UNCHANGED <<tmp, dest>> /\ tmp_read' = f /\ f = (IF kind = "Append" THEN dest ELSE tmp)
      BY <2>1, <2>2, <2>3, <3>1 DEF PendingRead, Does
    <3>3. DoneRead(t)'
      BY <1>0, <3>1, <3>2 DEF PendingRead, DoneRead, AllStored, AllHeld
    <3> QED
      BY <2>4, <3>3 DEF JobDone
  <2>5. CASE r.step = "read_tmp"
    <3>1. PendingReadTmp(r)
      BY <2>5 DEF Pending
    <3>2. UNCHANGED <<tmp, dest, tmp_read>> /\ t.data = tmp
      BY <2>1, <2>2, <2>3, <3>1 DEF PendingReadTmp, Does, Returns
    <3>3. DoneReadTmp(t)'
      BY <1>0, <3>1, <3>2 DEF PendingReadTmp, DoneReadTmp, AllStored
    <3> QED
      BY <2>5, <3>3 DEF JobDone
  <2>6. CASE r.step = "local"
    <3>1. PendingLocal(r)
      BY <2>6 DEF Pending
    <3>2. r.file = "dest" /\ r.buf = currentBuffer /\ f = <<0>> /\ logical = B /\ f # None
          /\ r.mode = IF kind = "Append" THEN "append" ELSE "write"
      BY <1>1, <2>2, <3>1 DEF PendingLocal, Does
    <3>3. dest' = IF kind = "Append" THEN <<0>> \o B ELSE B
      BY <1>1, <2>1, <3>2 DEF Completed
    <3>4. <<>> \o B = B
      <4> HIDE DEF B
      <4> QED
        BY <1>1, ContentTypes
    <3>5. dest' = Original' \o logical' /\ t.ec = "success"
      BY <1>0, <2>1, <2>3, <3>2, <3>3, <3>4 DEF Original
    <3>6. DoneLocal(t)'
      BY <3>5 DEF DoneLocal
    <3> QED
      BY <2>6, <3>6 DEF JobDone
  <2>7. CASE r.step = "rest"
    <3>1. PendingRest(r)
      BY <2>7 DEF Pending
    <3>2. r.file = "tmp" /\ r.buf = currentBuffer /\ f = tmp /\ r.mode = "append" /\ tmp # None
          /\ logical = tmp \o B /\ kind = "Overwrite"
      BY <2>2, <3>1 DEF PendingRest, Does, AllStored
    <3>3. tmp' = logical
      BY <1>1, <2>1, <3>2 DEF Completed
    <3>4. DoneRest(t)'
      BY <1>0, <3>2, <3>3 DEF DoneRest
    <3> QED
      BY <2>7, <3>4 DEF JobDone
  <2>8. CASE r.step = "chunk"
    <3>1. PendingChunk(r)
      BY <2>8 DEF Pending
    <3>2. UNCHANGED <<tmp, dest>> /\ f = tmp /\ r.mode = "chunk"
      BY <2>1, <2>2, <2>3, <3>1 DEF PendingChunk, Does
    <3>3. t.data = ChunkOf(r.n) /\ (t.ec = "end_of_file" <=> r.n >= Len(tmp))
      BY <2>1, <3>2 DEF Returns, CodeOf, ChunkOf
    <3>4. DoneChunk(t, t.request.n)'
      BY <1>0, <3>1, <3>2, <3>3 DEF PendingChunk, DoneChunk, AllStored, IsPlace, CopyOf, ChunkOf
    <3> QED
      BY <2>8, <3>4 DEF JobDone
  <2>9. CASE r.step \in {"copied", "last"}
    <3>1. PendingCopied(r)
      BY <2>9 DEF Pending
    <3>2. r.file = "dest" /\ r.buf = "tmp_read" /\ f = dest /\ r.mode = "append" /\ tmp # None
          /\ tmp \in Content
      BY <1>1, <2>2, <3>1 DEF PendingCopied, Does, AllStored
    <3> DEFINE n == r.n
    <3>3. IsPlace(n) /\ dest = CopyOf(n - 1) /\ tmp_read = ChunkOf(n) /\ (r.step = "last" <=> n >= Len(tmp))
          /\ kind = "Append" /\ AllStored
      BY <3>1 DEF PendingCopied
    <3>4. UNCHANGED tmp /\ t.ec = "success" /\ t.request.n = n
      BY <2>1, <2>3, <3>2
    <3>5. dest # None
      <4>1. CopyOf(n - 1) \in Content
        <5> DEFINE S == 0..MaxCalls
        <5>1. tmp \in Seq(S) /\ <<0>> \in Seq(S)
          BY <1>1, <3>2 DEF Content
        <5>2. n \in Nat \ {0} /\ \A i \in 1..(n - 1) : i \in 1..Len(tmp)
          BY <3>3, <5>1 DEF IsPlace
        <5> HIDE DEF n, S
        <5>3. \A i \in 1..(n - 1) : tmp[i] \in S
          BY <5>1, <5>2
        <5>4. SubSeq(tmp, 1, n - 1) \in Seq(S)
          BY <5>2, <5>3, SubSeqProperties
        <5> DEFINE Y == SubSeq(tmp, 1, n - 1)
                   Z == <<0>>
        <5>5. Y \in Content /\ Z \in Content
          BY <1>1, <5>4 DEF Content, S
        <5> HIDE DEF Y, Z
        <5>6. Z \o Y \in Content
          BY <1>1, <5>5, ContentTypes
        <5> QED
          BY <5>6 DEF CopyOf, Y, Z
      <4> QED
        BY <1>1, <3>3, <4>1
    <3>6. dest' = CopyOf(n - 1) \o ChunkOf(n)
      BY <1>1, <2>1, <3>2, <3>3, <3>5 DEF Completed
    <3>7. /\ n < Len(tmp) => dest' = CopyOf(n)
          /\ ~(n < Len(tmp)) => dest' = <<0>> \o tmp
      BY <3>2, <3>3, <3>6, CopyNext
    <3>8. n < Len(tmp) <=> ~(n >= Len(tmp))
      <4>1. n \in Nat /\ Len(tmp) \in Nat
        BY <3>2, <3>3 DEF IsPlace, Content
      <4> QED
        BY <4>1
    <3> HIDE DEF n
    <3>9. r.step = "copied" => DoneCopied(t, n)'
      BY <1>0, <3>3, <3>4, <3>7, <3>8 DEF DoneCopied, AllStored, IsPlace, CopyOf
    <3>10. r.step = "last" => DoneLast(t)'
      BY <1>0, <3>3, <3>4, <3>7, <3>8 DEF DoneLast, AllStored
    <3> QED
      BY <2>9, <3>4, <3>9, <3>10 DEF JobDone
  <2>10. CASE r.step = "tail"
    <3>1. PendingTail(r)
      BY <2>10 DEF Pending
    <3>2. r.file = "dest" /\ r.buf = currentBuffer /\ f = dest /\ r.mode = "append"
          /\ dest = <<0>> \o tmp /\ logical = tmp \o B /\ kind = "Append" /\ tmp \in Content
      BY <1>1, <2>2, <3>1 DEF PendingTail, Does, AllStored
    <3> DEFINE S == 0..MaxCalls
    <3>3. tmp \in Seq(S) /\ B \in Seq(S) /\ <<0>> \in Seq(S)
      BY <1>1, <3>2 DEF Content
    <3>4. (<<0>> \o tmp) \o B = <<0>> \o (tmp \o B)
      <4> HIDE DEF B, S
      <4> QED
        BY <3>3, ConcatAssociative
    <3>5. dest # None
      <4>1. <<0>> \o tmp \in Content
        BY <1>1, <3>2, ContentTypes
      <4> QED
        BY <1>1, <3>2, <4>1
    <3>6. dest' = <<0>> \o logical
      BY <1>1, <2>1, <3>2, <3>4, <3>5 DEF Completed
    <3>7. DoneTail(t)'
      BY <1>0, <3>2, <3>6 DEF DoneTail
    <3> QED
      BY <2>10, <3>7 DEF JobDone
  <2> QED
    BY <1>0, <2>4, <2>5, <2>6, <2>7, <2>8, <2>9, <2>10
<1> QED
  BY <1>2, <1>3

-----------------------------------------------------------------------------
(* Where readAll and save are: the queues.                                 *)

\* The worker takes the only request of readAll or save, or one of a swap while there is none.
LEMMA WorkerJobs ==
  ASSUME TokenInv, RequestInv, KindInv, FileInv, SwapInv, OrderInv, WorkInv, FilesThere, JobInv,
         ReadsAlone, Worker
  PROVE  JobInv'
<1> PICK r : r = Head(fs)
  OBVIOUS
<1>0. fs # <<>> /\ fs' = Tail(fs) /\ r \in Elements(fs) /\ UNCHANGED error
  <2>1. fs # <<>> /\ fs' = Tail(fs) /\ UNCHANGED error
    BY DEF Worker, PerformRequest, FailRequest, flagVars
  <2> QED
    BY <2>1, FsSets
<1>1. PlainStep
  BY WorkerPlain
<1>2. CASE r.step = "swap"
  <2>1. r \in SwapRequests
    BY <1>0, <1>2 DEF SwapRequests
  <2>2. Working = {}
    BY <2>1 DEF SwapInv, WorkInv
  <2>3. Working' = {}
    BY <1>0, <1>1, <2>2, WorkingShrinks
  <2> QED
    BY <2>3, NoJobs
<1>3. CASE r.step # "swap"
  <2>1. Jobs = {r} /\ DoneJobs = {}
    <3>1. r \in Jobs
      BY <1>0, <1>3 DEF Jobs
    <3> QED
      BY <3>1, OneJob
  <2>2. PICK code, data : Handler(r, code, data)
          /\ \/ FailRequest /\ code \in {"open_failure", "other_failure"}
             \/ PerformRequest /\ code = CodeOf(WorkerFile(r), r) /\ data = Returns(WorkerFile(r), r)
    <3>1. CASE FailRequest
      BY <3>1 DEF FailRequest
    <3>2. CASE PerformRequest
      BY <3>2 DEF PerformRequest
    <3> QED
      BY <3>1, <3>2 DEF Worker
  <2>3. PICK t : io_' = Append(io_, t) /\ t.request = r /\ t.ec = code /\ t.data = data
    <3> DEFINE u == [task |-> "handler", call |-> r.call, request |-> r, ec |-> code, data |-> data]
    <3>1. io_' = Append(io_, u) /\ u.request = r /\ u.ec = code /\ u.data = data
      BY <2>2 DEF Handler
    <3> HIDE DEF u
    <3> QED
      BY <3>1
  <2>4. DoneJobs' \subseteq {t}
    <3>1. Elements(io_') = Elements(io_) \cup {t}
      BY <2>3, AppendList DEF TokenInv, Lists
    <3> QED
      BY <2>1, <3>1 DEF DoneJobs
  <2>5. Jobs' = {}
    <3>1. ASSUME NEW q \in Elements(Tail(fs))
          PROVE  q # r
      <4>1. q.call \in FsCalls(Tail(fs))
        BY DEF FsCalls
      <4>2. r.call \notin FsCalls(Tail(fs))
        BY <1>0, FsTail DEF TokenInv, Lists
      <4> QED
        BY <4>1, <4>2
    <3>2. Elements(Tail(fs)) \subseteq Elements(fs)
      BY <1>0, TailList DEF TokenInv, Lists
    <3> QED
      BY <1>0, <2>1, <3>1, <3>2 DEF Jobs
  <2>6. ASSUME ~error
        PROVE  JobDone(t, r.step)'
    <3>1. Pending(r)
      BY <2>1, <2>6 DEF JobInv
    <3> QED
      BY <1>0, <1>3, <2>2, <2>3, <2>6, <3>1, WorkerJob
  <2> QED
    BY <1>0, <2>3, <2>4, <2>5, <2>6 DEF JobInv
<1> QED
  BY <1>2, <1>3

\* What a handler of readAll or save submits next.
LEMMA HandlePending ==
  ASSUME FileInv, FilesThere, ~error, OtherHandle, JobDone(Head(io_), Head(io_).request.step)
  PROVE  UNCHANGED fs \/ \E r : Submit(r) /\ Pending(r)'
<1> DEFINE t == Head(io_)
<1>0. UNCHANGED <<kind, currentBuffer, isOnDisk, logical>>
  BY DEF OtherHandle, LocalSaved, RestSaved, MoveFailed, CopyChunk, ChunkCopied, TailSaved, ReadDone,
     ReadTmpDone, Settled
<1>1. CASE RestSaved \/ MoveFailed \/ TailSaved \/ ReadTmpDone
  BY <1>1 DEF RestSaved, MoveFailed, TailSaved, ReadTmpDone
<1>2. CASE ReadDone
  <2>1. SUFFICES ASSUME t.ec = "success", kind = "Append", isOnDisk
                 PROVE  \E r : Submit(r) /\ Pending(r)'
    BY <1>2 DEF ReadDone, Ec
  <2> DEFINE r == Request(Turn, "read_tmp", "tmp", "read", "own", 0)
  <2>2. Submit(r) /\ SameData
    BY <1>0, <1>2, <2>1 DEF ReadDone, Ec, SameData, fileVars
  <2>3. r.step = "read_tmp" /\ Does(r, "tmp", "read", "own")
    BY DEF Request, Does
  <2>4. DoneRead(t)
    BY <1>2 DEF ReadDone, Handling, JobDone
  <2> HIDE DEF r
  <2>5. PendingReadTmp(r)
    BY <2>1, <2>3, <2>4 DEF DoneRead, PendingReadTmp
  <2>6. Pending(r)
    BY <2>3, <2>5 DEF Pending
  <2> QED
    BY <2>2, <2>6, SameClaims
<1>3. CASE LocalSaved
  <2>1. SUFFICES ASSUME t.ec = "open_failure", SaveLocal(Turn)
                 PROVE  \E r : Submit(r) /\ Pending(r)'
    BY <1>3 DEF LocalSaved, Ec
  <2> DEFINE r == Request(Turn, "local", "dest", IF kind = "Append" THEN "append" ELSE "write", currentBuffer, 0)
  <2>2. Submit(r) /\ SameData
    BY <1>0, <1>3, <2>1 DEF LocalSaved, SaveLocal, SameData, fileVars
  <2>3. r.step = "local" /\ Does(r, "dest", IF kind = "Append" THEN "append" ELSE "write", currentBuffer)
    BY DEF Request, Does
  <2>4. DoneLocal(t)
    BY <1>3 DEF LocalSaved, Handling, JobDone
  <2> HIDE DEF r
  <2>5. PendingLocal(r)
    BY <2>1, <2>3, <2>4 DEF DoneLocal, PendingLocal
  <2>6. Pending(r)
    BY <2>3, <2>5 DEF Pending
  <2> QED
    BY <2>2, <2>6, SameClaims
<1>4. CASE CopyChunk
  <2> DEFINE step == IF t.ec = "success" THEN "copied" ELSE "last"
  <2> PICK n : n = t.request.n
    OBVIOUS
  <2> PICK r : r = Request(Turn, step, "dest", "append", "tmp_read", n)
    OBVIOUS
  <2>1. SUFFICES ASSUME t.ec \in {"success", "end_of_file"}
                 PROVE  \E q : Submit(q) /\ Pending(q)'
    BY <1>4 DEF CopyChunk, Ec
  <2>2. Submit(r) /\ tmp_read' = t.data /\ UNCHANGED <<bufs, tmp, dest>>
    BY <1>4, <2>1 DEF CopyChunk, Ec, fileVars
  <2>3. r.step = step /\ r.n = n /\ Does(r, "dest", "append", "tmp_read") /\ step \in {"copied", "last"}
    BY DEF Request, Does
  <2>4. DoneChunk(t, n)
    BY <1>4 DEF CopyChunk, Handling, JobDone
  <2>5. step = "last" <=> t.ec = "end_of_file"
    BY <2>1
  <2> HIDE DEF step
  <2>6. PendingCopied(r)'
    <3>1. /\ kind = "Append" /\ AllStored /\ IsPlace(n) /\ dest = CopyOf(n - 1) /\ t.data = ChunkOf(n)
          /\ t.ec = "end_of_file" <=> n >= Len(tmp)
      BY <2>1, <2>4 DEF DoneChunk
    <3>2. AllStored' /\ Len(tmp)' = Len(tmp)
      BY <1>0, <2>2, <3>1 DEF AllStored
    <3> QED
      BY <1>0, <2>2, <2>3, <2>5, <3>1, <3>2 DEF PendingCopied, Does, IsPlace, CopyOf, ChunkOf
  <2>7. Pending(r)'
    BY <2>3, <2>6 DEF Pending
  <2> QED
    BY <2>2, <2>7
<1>5. CASE ChunkCopied
  <2>0. SUFFICES ASSUME t.ec = "success"
                 PROVE  \E r : Submit(r) /\ Pending(r)'
    BY <1>5 DEF ChunkCopied, Ec
  <2>1. SameData
    BY <1>0, <1>5 DEF ChunkCopied, SameData, fileVars
  <2> DEFINE n == t.request.n
  <2>2. CASE t.request.step = "copied"
    <3> DEFINE m == n + 1
               r == Request(Turn, "chunk", "tmp", "chunk", "own", m)
    <3>1. Submit(r)
      BY <1>5, <2>0, <2>2 DEF ChunkCopied, Ec, NextChunk
    <3>2. r.step = "chunk" /\ r.n = m /\ Does(r, "tmp", "chunk", "own")
      BY DEF Request, Does
    <3>3. kind = "Append" /\ AllStored /\ IsPlace(n) /\ n < Len(tmp) /\ dest = CopyOf(n)
      BY <2>0, <2>2 DEF JobDone, DoneCopied
    <3>4. Len(tmp) \in Nat
      BY <3>3, SwappingBufferAssumption DEF FileInv, AllStored, Content
    <3> HIDE DEF n, r
    <3>5. IsPlace(m) /\ m - 1 = n
      BY <3>3, <3>4 DEF IsPlace
    <3> HIDE DEF m
    <3>6. PendingChunk(r)
      BY <3>2, <3>3, <3>5 DEF PendingChunk
    <3>7. Pending(r)
      BY <3>2, <3>6 DEF Pending
    <3> QED
      BY <2>1, <3>1, <3>7, SameClaims
  <2>3. CASE t.request.step = "last"
    <3> DEFINE r == Request(Turn, "tail", "dest", "append", currentBuffer, 0)
    <3>1. Submit(r)
      BY <1>5, <2>0, <2>3 DEF ChunkCopied, Ec
    <3>2. r.step = "tail" /\ Does(r, "dest", "append", currentBuffer)
      BY DEF Request, Does
    <3>3. DoneLast(t)
      BY <2>3 DEF JobDone
    <3> HIDE DEF r
    <3>4. PendingTail(r)
      BY <2>0, <3>2, <3>3 DEF DoneLast, PendingTail
    <3>5. Pending(r)
      BY <3>2, <3>4 DEF Pending
    <3> QED
      BY <2>1, <3>1, <3>5, SameClaims
  <2>4. t.request.step \in {"copied", "last"}
    BY <1>5 DEF ChunkCopied, Handling
  <2> QED
    BY <2>2, <2>3, <2>4
<1> QED
  BY <1>1, <1>2, <1>3, <1>4, <1>5 DEF OtherHandle

\* The handlers are those of a swap and the others.
LEMMA HandleKinds ==
  ASSUME Handle
  PROVE  SwapDone \/ SwapRetry \/ SwapFailed \/ OtherHandle
BY DEF Handle, OtherHandle

\* The handlers preserve JobInv.
LEMMA HandleJobs ==
  ASSUME TokenInv, RequestInv, KindInv, FileInv, SwapInv, OrderInv, WorkInv, FilesThere, JobInv,
         ReadsAlone, Handle
  PROVE  JobInv'
<1>1. CASE SwapDone \/ SwapRetry \/ SwapFailed
  BY <1>1, SwapHandledWorking, NoJobs
<1>2. CASE OtherHandle
  <2> DEFINE t == Head(io_)
  <2>1. io_ # <<>> /\ io_' = Tail(io_) /\ t \in DoneJobs
    BY <1>2, OtherHandleWorking
  <2>2. DoneJobs = {t} /\ Jobs = {}
    BY <2>1, OneJob
  <2>3. UNCHANGED error
    BY <1>2 DEF OtherHandle, LocalSaved, RestSaved, MoveFailed, CopyChunk, ChunkCopied, TailSaved, ReadDone,
       ReadTmpDone, Settled
  <2>4. DoneJobs' = {}
    <3>1. ASSUME NEW u \in Elements(Tail(io_)), Own(u)
          PROVE  u # t
      <4>1. u.call \in IoCalls(Tail(io_))
        BY <3>1 DEF IoCalls
      <4>2. Own(t) => t.call \notin IoCalls(Tail(io_))
        BY <2>1, IoTail DEF TokenInv, Lists
      <4> HIDE DEF t
      <4> QED
        BY <3>1, <4>1, <4>2
    <3>2. Elements(Tail(io_)) \subseteq Elements(io_)
      BY <2>1, TailList DEF TokenInv, Lists
    <3> HIDE DEF t
    <3> QED
      BY <2>1, <2>2, <3>1, <3>2 DEF DoneJobs, Own
  <2>5. SUFFICES ASSUME ~error
                 PROVE  \A q \in Jobs' : Pending(q)'
    BY <2>3, <2>4 DEF JobInv
  <2>6. JobDone(t, t.request.step)
    BY <2>1, <2>5 DEF JobInv
  <2>7. UNCHANGED fs \/ \E r : Submit(r) /\ Pending(r)'
    BY <1>2, <2>5, <2>6, HandlePending
  <2>8. CASE UNCHANGED fs
    BY <2>2, <2>8 DEF Jobs
  <2>9. ASSUME NEW r, Submit(r), Pending(r)'
        PROVE  \A q \in Jobs' : Pending(q)'
    <3>1. Elements(fs') = Elements(fs) \cup {r}
      BY <2>9, FsSets DEF Submit
    <3>2. Jobs' \subseteq {r}
      BY <2>2, <3>1 DEF Jobs
    <3> QED
      BY <2>9, <3>2
  <2> QED
    BY <2>7, <2>8, <2>9
<1> QED
  BY <1>1, <1>2, HandleKinds

-----------------------------------------------------------------------------
(* The inductive invariant and the theorems.                               *)

\* A new buffer satisfies the inductive invariant.
LEMMA IInvInitially == ReadersInit => IInv
<1> SUFFICES ASSUME Init
             PROVE  IInv
  BY DEF ReadersInit
<1>1. /\ callbacks = <<>> /\ io_ = <<>> /\ fs = <<>> /\ calls = <<>>
      /\ answers = [c \in Ids |-> <<>>]
  BY DEF Init
<1>2. Elements(callbacks) = {} /\ Elements(io_) = {} /\ Elements(fs) = {}
  BY <1>1, EmptyList
<1>3. Lists
  BY <1>1, EmptyList, SwappingBufferAssumption DEF Lists
<1>4. Len(calls) = 0 /\ IsOnce(callbacks) /\ FsOnce(fs) /\ IoOnce(io_)
  BY <1>1, EmptyList DEF IsOnce, FsOnce, IoOnce
<1>5. Outstanding = {} /\ FsCalls(fs) = {} /\ IoCalls(io_) = {}
  BY <1>2 DEF Outstanding, FsCalls, IoCalls
<1>6. CallInv
  BY <1>1, <1>2, <1>3, <1>4, <1>5 DEF CallInv, TokenInv, RequestInv, AnswerInv
<1>7. SwapRequests = {} /\ SwapHandlers = {} /\ PostedOperations = {} /\ Queued = {} /\ Unanswered = {}
  BY <1>2, <1>4 DEF SwapRequests, SwapHandlers, PostedOperations, Queued, Unanswered
<1>8. OverlapInv
  BY <1>7 DEF OverlapInv
<1>9. SwapInv
  BY <1>1, <1>7 DEF SwapInv, Init
<1>10. FileInv
  <2>1. <<>> \in Content
    BY DEF Content
  <2> QED
    BY <1>2, <2>1 DEF FileInv, Init, Buffers
<1>11. DataInv
  <2>1. ~Flying /\ OnDisk = <<>> /\ bufs[currentBuffer] = <<>> /\ logical = <<>>
    BY <1>7 DEF Flying, OnDisk, Init
  <2>2. <<>> \o <<>> = <<>>
    <3>1. <<>> \in Content /\ 0 \in 0..MaxCalls
      BY SwappingBufferAssumption DEF Content
    <3> QED
      BY <3>1, ContentTypes
  <2> QED
    BY <1>7, <2>1, <2>2 DEF DataInv, Init
<1>12. KindInv
  BY <1>2 DEF KindInv
<1>13. ~SaveBegun
  BY <1>4 DEF SaveBegun
<1>14. OrderInv
  <2>1. 1..0 = {}
    OBVIOUS
  <2>2. Sorted(callbacks) /\ OperationsSorted(io_)
    BY <1>1, EmptyList, <2>1 DEF Sorted, OperationsSorted
  <2> QED
    BY <1>4, <1>7, <1>13, <2>1, <2>2 DEF OrderInv
<1>15. Jobs = {} /\ DoneJobs = {} /\ Working = {}
  BY <1>2 DEF Jobs, DoneJobs, Working
<1>16. WorkInv /\ JobInv
  BY <1>15 DEF WorkInv, JobInv
<1>17. FilesThere
  <2>1. kind \in {"Append", "Overwrite"}
    BY SwappingBufferAssumption DEF Init
  <2> QED
    BY <1>7, <2>1 DEF FilesThere, Init
<1> QED
  BY <1>6, <1>8, <1>9, <1>10, <1>11, <1>12, <1>14, <1>16, <1>17 DEF IInv

\* The steps of the buffer and of its readers.
LEMMA ReadersSteps ==
  ASSUME ReadersStep
  PROVE  \/ AppCall \/ Enqueue("make_chunked_stream")
         \/ Run \/ Handle \/ CallbackReturns \/ Worker
         \/ ReaderRuns \/ Ask \/ Stop
BY DEF ReadersStep, MakeChunkedStream

\* No step begins once an exception has got out, and these let none out.
LEMMA StepAlive ==
  ASSUME ReadersStep
  PROVE  Alive /\ Alive'
<1>1. CASE AppCall \/ Enqueue("make_chunked_stream")
  BY <1>1 DEF AppCall, AppendInMemory, AppendHuge, AppendAndSwap, AppendDuringSwap, AppendCall, Enqueue,
     MayCall, Alive
<1>2. CASE Run
  BY <1>2 DEF Run, RunAppend, RunSize, RunClear, RunCleared, RunReadAll, RunSave, Running, Alive
<1>3. CASE SwapDone \/ SwapRetry \/ SwapFailed
  BY <1>3 DEF SwapDone, SwapRetry, SwapFailed, Handling, Alive
<1>4. CASE OtherHandle
  BY <1>4 DEF OtherHandle, LocalSaved, RestSaved, MoveFailed, CopyChunk, ChunkCopied, TailSaved, ReadDone,
     ReadTmpDone, Handling, Settled, Alive
<1>5. CASE CallbackReturns \/ Worker
  BY <1>5 DEF CallbackReturns, Worker, PerformRequest, FailRequest, Alive
<1>6. CASE ReaderRuns
  BY <1>6 DEF ReaderRuns, RunMake, MakeFails, RunMade, OfFile, PassOn, OfTmpFile, Cached, Deliver, Task,
     Running, BufferRests, Alive
<1>7. CASE Ask \/ Stop
  BY <1>7 DEF Ask, Stop, BufferRests, vars, Alive
<1> QED
  BY <1>1, <1>2, <1>3, <1>4, <1>5, <1>6, <1>7, ReadersSteps, HandleKinds

\* What an exception leaves alone when it gets out.
LEMMA ThrowEnds ==
  ASSUME ReadersThrow
  PROVE  /\ Alive /\ ~Alive'
         /\ UNCHANGED <<kind, currentBuffer, isOnDisk, error, isFirstSwappingAttempt, swapping, tmp_read,
                        callbacks, fs, tmp, dest, calls, answers, logical, original_size, reads, got>>
         /\ UNCHANGED bufs \/ ClearThrows
<1>1. CASE (ClearThrows \/ SaveThrows) /\ UNCHANGED readerVars
  BY <1>1 DEF ClearThrows, SaveThrows, Throw, Running, Alive, readerVars
<1>2. CASE DirectoryThrows /\ UNCHANGED readerVars
  BY <1>2 DEF DirectoryThrows, Throw, Handling, Alive, readerVars
<1>3. CASE MakeThrows \/ OfFileThrows
  BY <1>3 DEF MakeThrows, OfFileThrows, Throw, Running, Alive, readerVars
<1> QED
  BY <1>1, <1>2, <1>3 DEF ReadersThrow, Throws

\* Until then there are only the other steps.
LEMMA UntilThrown ==
  ASSUME [ReadersNext]_allVars, Alive'
  PROVE  Alive /\ [ReadersStep]_allVars
<1>1. CASE ReadersStep
  BY <1>1, StepAlive
<1>2. CASE UNCHANGED allVars
  BY <1>2 DEF allVars, vars, Alive
<1> QED
  BY <1>1, <1>2, ThrowEnds DEF ReadersNext

\* Every step preserves the inductive invariant.
LEMMA StepKeeps ==
  ASSUME IInv, \/ AppCall \/ Enqueue("make_chunked_stream")
               \/ Run \/ Handle \/ CallbackReturns \/ Worker
               \/ ReaderRuns \/ Ask \/ Stop
  PROVE  IInv'
<1>1. CallInv /\ TokenInv /\ RequestInv /\ KindInv
  BY DEF IInv, CallInv
<1>2. CallInv' /\ TokenInv'
  <2>1. CallInv'
    BY <1>1, AppCallCalls, RunCalls, HandleCalls, WorkerCalls, ReaderCalls
  <2> QED
    BY <2>1 DEF CallInv
<1>3. KindInv'
  <2>1. CASE AppCall \/ Enqueue("make_chunked_stream") \/ CallbackReturns
    BY <1>1, <2>1, AppCallKind
  <2>2. CASE Run \/ Handle \/ Worker \/ ReaderRuns \/ Ask \/ Stop
    <3>1. PlainStep
      BY <1>1, <2>2, RunPlain, HandlePlain, WorkerPlain, ReaderPlain
    <3> QED
      BY <1>1, <3>1, PlainKind
  <2> QED
    BY <2>1, <2>2
<1>4. ASSUME SwapsAwaited
      PROVE  OverlapInv' /\ SwapInv' /\ FileInv' /\ DataInv'
  <2>1. OverlapInv /\ SwapInv /\ FileInv /\ DataInv
    BY <1>4 DEF IInv
  <2>2. CASE AppCall \/ Enqueue("make_chunked_stream")
    BY <1>1, <1>4, <2>1, <2>2, AppCallSwaps, AppCallData
  <2>3. CASE Run
    <3>1. FileInv' /\ DataInv'
      BY <1>1, <1>4, <2>1, <2>3, RunData
    <3>2. CASE RunAppend
      BY <1>1, <1>4, <2>1, <3>1, <3>2, RunAppendSwaps
    <3>3. CASE RunSize \/ RunClear \/ RunCleared \/ RunReadAll \/ RunSave
      BY <1>1, <2>1, <2>3, <3>1, <3>3, QuietRun, QuietSwaps, AnsweringStep
    <3> QED
      BY <2>3, <3>2, <3>3 DEF Run
  <2>4. CASE OtherHandle
    <3>1. Handle
      BY <2>4 DEF OtherHandle, Handle
    <3> QED
      BY <1>1, <2>1, <2>4, <3>1, QuietHandle, QuietSwaps, AnsweringStep, HandleData
  <2>5. CASE SwapDone \/ SwapRetry \/ SwapFailed
    BY <1>1, <2>1, <2>5, SwapHandledSwaps, SwapHandledData
  <2>6. CASE CallbackReturns
    BY <1>1, <2>1, <2>6, CallbackSwaps, CallbackData
  <2>7. CASE Worker
    <3>1. FileInv' /\ DataInv'
      BY <1>1, <2>1, <2>7, WorkerData
    <3>2. CASE Head(fs).step # "swap"
      BY <1>1, <2>1, <2>7, <3>1, <3>2, QuietWorker, QuietSwaps, AnsweringStep
    <3>3. CASE Head(fs).step = "swap"
      <4>1. \E code, data : Handler(Head(fs), code, data)
        BY <2>7 DEF Worker, PerformRequest, FailRequest
      <4> QED
        BY <1>1, <2>1, <2>7, <3>1, <3>3, <4>1, WorkerSwaps
    <3> QED
      BY <3>2, <3>3
  <2>8. CASE ReaderRuns \/ Ask \/ Stop
    BY <1>1, <2>1, <2>8, QuietReader, QuietSwaps, AnsweringStep, ReaderData
  <2> QED
    BY <2>2, <2>3, <2>4, <2>5, <2>6, <2>7, <2>8, HandleKinds
<1>5. ASSUME SwapsAwaited, ReadsAlone
      PROVE  OrderInv' /\ WorkInv' /\ FilesThere' /\ JobInv'
  <2>1. /\ OverlapInv /\ SwapInv /\ FileInv /\ DataInv
        /\ OrderInv /\ WorkInv /\ FilesThere /\ JobInv
    BY <1>5 DEF IInv
  <2>2. CASE AppCall \/ Enqueue("make_chunked_stream")
    BY <1>1, <1>2, <1>5, <2>1, <2>2, AppCallOrder, AppCallWork, AppCallFiles, AppCallJobs
  <2>3. CASE Run
    <3>1. OrderInv'
      BY <1>1, <1>2, <2>1, <2>3, RunPlain, AnsweringStep, PlainOrder
    <3> QED
      BY <1>1, <1>2, <1>5, <2>1, <2>3, <3>1, RunWork, RunFiles, RunJobs
  <2>4. CASE Handle
    <3>1. OrderInv'
      BY <1>1, <1>2, <2>1, <2>4, HandlePlain, AnsweringStep, PlainOrder
    <3> QED
      BY <1>1, <1>5, <2>1, <2>4, <3>1, OtherWork, HandleFiles, HandleJobs
  <2>5. CASE Worker
    <3>1. OrderInv'
      BY <1>1, <1>2, <2>1, <2>5, WorkerPlain, AnsweringStep, PlainOrder
    <3> QED
      BY <1>1, <1>5, <2>1, <2>5, <3>1, OtherWork, WorkerFiles, WorkerJobs
  <2>6. CASE ReaderRuns \/ Ask \/ Stop
    <3>1. OrderInv'
      BY <1>1, <1>2, <2>1, <2>6, ReaderPlain, AnsweringStep, PlainOrder
    <3> QED
      BY <1>1, <2>1, <2>6, <3>1, OtherWork, RestFiles, RestJobs
  <2>7. CASE CallbackReturns
    BY <1>1, <2>1, <2>7, CallbackOrder, OtherWork, RestFiles, RestJobs
  <2> QED
    BY <2>2, <2>3, <2>4, <2>5, <2>6, <2>7
<1> QED
  BY <1>2, <1>4, <1>5, <1>3 DEF IInv

\* So does one that changes nothing.
LEMMA StutterKeeps ==
  ASSUME IInv, UNCHANGED vars
  PROVE  IInv'
<1>1. /\ UNCHANGED <<callbacks, io_, fs, calls, answers, swapping, pc, error, logical>>
      /\ SameData
  BY DEF vars, queueVars, bufferVars, flagVars, fileVars, SameData
<1>2. CallInv' /\ KindInv'
  BY <1>1 DEF IInv, CallInv, TokenInv, Lists, RequestInv, AnswerInv, Outstanding, Unanswered,
     SaveRequest, KindInv, TaskOp
<1>3. SwapsAwaited => OverlapInv' /\ SwapInv'
  BY <1>1 DEF IInv, SameData, OverlapInv, SwapInv, Queued, PostedOperations, SwapRequests, SwapHandlers,
     SwapRequest, Key, Follower, Unanswered, swappingBuffer
<1>4. SwapsAwaited => FileInv' /\ DataInv'
  BY <1>1 DEF IInv, SameData, FileInv, DataInv, Queued, PostedOperations, SwapRequests, SwapHandlers,
     swappingBuffer, Flying, OnDisk, SaveBegun
<1>5. SwapsAwaited /\ ReadsAlone => OrderInv' /\ WorkInv' /\ FilesThere'
  BY <1>1 DEF IInv, SameData, OrderInv, WorkInv, Working, Jobs, DoneJobs, FilesThere, Queued,
     PostedOperations, SwapHandlers, SaveBegun, Key, Unanswered
<1>6. SwapsAwaited /\ ReadsAlone => JobInv'
  BY <1>1, JobsStay DEF IInv, Jobs, DoneJobs
<1> QED
  BY <1>2, <1>3, <1>4, <1>5, <1>6 DEF IInv

\* The inductive invariant holds in every state until an exception gets out.
LEMMA IInvAlways == ReadersSpec => [](Alive => IInv)
<1>1. ReadersInit => (Alive => IInv)
  BY IInvInitially
<1>2. (Alive => IInv) /\ [ReadersNext]_allVars => (Alive => IInv)'
  <2> SUFFICES ASSUME Alive => IInv, [ReadersNext]_allVars, Alive'
               PROVE  IInv'
    OBVIOUS
  <2>1. IInv /\ [ReadersStep]_allVars
    BY UntilThrown
  <2> QED
    BY <2>1, ReadersSteps, StepKeeps, StutterKeeps DEF allVars
<1> QED
  BY <1>1, <1>2, PTL DEF ReadersSpec

\* The callback of a call of a SwappingBuffer is called at most once, whatever the
\* application overlaps and whatever fails, but for the save of an Append buffer whose
\* last append fails (swapping_buffer_append.cpp): it has both its callbacks called.
THEOREM AnsweredOnceAlways == ReadersSpec => []AnsweredOnce
<1>1. IInv => AnsweredOnce
  <2> SUFFICES ASSUME IInv, NEW c \in 1..Len(calls)
               PROVE  Len(answers[c]) <= 1 \/ (calls[c].op = "save" /\ answers[c] = <<Failed, Done>>)
    BY DEF AnsweredOnce
  <2>1. c \in Ids
    BY SwappingBufferAssumption DEF IInv, CallInv, TokenInv, Lists, Ids
  <2>2. Len(<<>>) = 0
    BY EmptyList
  <2>3. \/ answers[c] = <<>>
        \/ Len(answers[c]) = 1
        \/ calls[c].op = "save" /\ answers[c] = <<Failed, Done>>
    BY <2>1 DEF IInv, CallInv, AnswerInv
  <2> DEFINE n == Len(answers[c])
  <2>4. n = 0 \/ n = 1 \/ (calls[c].op = "save" /\ answers[c] = <<Failed, Done>>)
    <3>1. answers[c] = <<>> => n = 0
      BY <2>2, Zenon
    <3> QED
      BY <2>3, <3>1, Zenon
  <2> HIDE DEF n
  <2>5. n <= 1 \/ (calls[c].op = "save" /\ answers[c] = <<Failed, Done>>)
    <3>1. n = 0 \/ n = 1 => n <= 1
      OBVIOUS
    <3> QED
      BY <2>4, <3>1
  <2> QED
    BY <2>5 DEF n
<1>2. ReadersInit => Alive
  BY DEF ReadersInit, Init, Alive
<1>3. AnsweredOnce /\ [ReadersNext]_allVars /\ ~Alive' => AnsweredOnce'
  <2> SUFFICES ASSUME AnsweredOnce, [ReadersNext]_allVars, ~Alive'
               PROVE  AnsweredOnce'
    OBVIOUS
  <2>1. UNCHANGED <<calls, answers>>
    <3>1. CASE ReadersThrow
      BY <3>1, ThrowEnds
    <3>2. CASE UNCHANGED allVars
      BY <3>2 DEF allVars, vars
    <3>3. CASE ReadersStep
      BY <3>3, StepAlive
    <3> QED
      BY <3>1, <3>2, <3>3 DEF ReadersNext
  <2> QED
    BY <2>1 DEF AnsweredOnce
<1> QED
  BY <1>1, <1>2, <1>3, IInvAlways, PTL DEF ReadersSpec

-----------------------------------------------------------------------------
(* What FlattenSeq makes of a list of lists.                                *)

\* A set that has 0, and the successor of each of its elements, has every number.
LEMMA SetInduction ==
  ASSUME NEW I, 0 \in I, \A n \in Nat : n \in I => n + 1 \in I
  PROVE  \A n \in Nat : n \in I
<1> SUFFICES ASSUME Nat \ I # {} PROVE FALSE
  OBVIOUS
<1>1. PICK x \in Nat \ I : \A y \in Nat \ I : ~(<<y, x>> \in OpToRel(<, Nat))
  BY NatLessThanWellFounded, WFMin
<1>2. x \in Nat /\ x \notin I /\ x # 0
  BY <1>1
<1>3. x - 1 \in Nat /\ (x - 1) + 1 = x
  BY <1>2
<1>4. x - 1 \in I
  <2>1. <<x - 1, x>> \in OpToRel(<, Nat)
    BY <1>2, <1>3 DEF OpToRel
  <2> QED
    BY <1>1, <1>3, <2>1, Zenon
<1>5. (x - 1) + 1 \in I
  BY <1>3, <1>4, Zenon
<1> QED
  BY <1>2, <1>3, <1>5, Zenon

\* f[i] is the concatenation of the first i lists of s.
Flattens(f, s, n) == f = [i \in 1..n |-> IF i = 1 THEN s[i] ELSE f[i - 1] \o s[i]]

\* There is such a function, for every list of lists.
LEMMA FlattensExists ==
  ASSUME NEW S, NEW s \in Seq(Seq(S)), NEW n \in Nat, n <= Len(s)
  PROVE  \E f \in [1..n -> Seq(S)] : Flattens(f, s, n)
<1> DEFINE I == {m \in Nat : m <= Len(s) => \E f \in [1..m -> Seq(S)] : Flattens(f, s, m)}
<1>0. Len(s) \in Nat /\ \A i \in 1..Len(s) : s[i] \in Seq(S)
  OBVIOUS
<1>1. 0 \in I
  <2> DEFINE f == [i \in 1..0 |-> <<>>]
  <2>1. f \in [1..0 -> Seq(S)] /\ Flattens(f, s, 0)
    BY DEF Flattens
  <2> QED
    BY <2>1
<1>2. ASSUME NEW m \in Nat, m \in I, m + 1 <= Len(s)
      PROVE  \E f \in [1..(m + 1) -> Seq(S)] : Flattens(f, s, m + 1)
  <2>1. m <= Len(s)
    BY <1>0, <1>2
  <2>2. PICK f \in [1..m -> Seq(S)] : Flattens(f, s, m)
    BY <1>2, <2>1
  <2> DEFINE g == [i \in 1..(m + 1) |-> IF i = m + 1 THEN (IF m = 0 THEN s[1] ELSE f[m] \o s[m + 1])
                                        ELSE f[i]]
  <2>3. \A i \in 1..m : f[i] = IF i = 1 THEN s[i] ELSE f[i - 1] \o s[i]
    BY <2>2 DEF Flattens
  <2>4. m + 1 \in 1..Len(s) /\ s[m + 1] \in Seq(S)
    BY <1>0, <1>2
  <2>5. g \in [1..(m + 1) -> Seq(S)]
    <3>1. m = 0 => s[1] \in Seq(S)
      BY <2>4
    <3>2. m # 0 => f[m] \o s[m + 1] \in Seq(S)
      <4>1. m # 0 => f[m] \in Seq(S)
        BY <2>2
      <4> QED
        BY <2>4, <4>1, ConcatProperties
    <3> QED
      BY <3>1, <3>2
  <2>6. \A i \in 1..(m + 1) : g[i] = IF i = 1 THEN s[i] ELSE g[i - 1] \o s[i]
    <3> SUFFICES ASSUME NEW i \in 1..(m + 1)
                 PROVE  g[i] = IF i = 1 THEN s[i] ELSE g[i - 1] \o s[i]
      OBVIOUS
    <3>1. ASSUME NEW j \in 1..m PROVE g[j] = f[j]
      <4>1. j \in 1..(m + 1) /\ j # m + 1
        OBVIOUS
      <4> QED
        BY <4>1
    <3>2. g[m + 1] = IF m = 0 THEN s[1] ELSE f[m] \o s[m + 1]
      OBVIOUS
    <3> HIDE DEF g
    <3>3. CASE i = m + 1
      <4>1. CASE m = 0
        BY <3>2, <3>3, <4>1
      <4>2. CASE m # 0
        <5>1. g[m] = f[m] /\ i # 1 /\ i - 1 = m
          BY <3>1, <3>3, <4>2
        <5> QED
          BY <3>2, <3>3, <4>2, <5>1
      <4> QED
        BY <4>1, <4>2
    <3>4. CASE i # m + 1
      <4>1. i \in 1..m
        BY <3>4
      <4>2. i # 1 => i - 1 \in 1..m
        BY <4>1
      <4> QED
        BY <2>3, <3>1, <4>1, <4>2
    <3> QED
      BY <3>3, <3>4
  <2>7. DOMAIN g = 1..(m + 1) /\ g = [i \in 1..(m + 1) |-> g[i]]
    OBVIOUS
  <2> HIDE DEF g
  <2>8. Flattens(g, s, m + 1)
    BY <2>6, <2>7 DEF Flattens
  <2> QED
    BY <2>5, <2>8
<1>3. \A m \in Nat : m \in I => m + 1 \in I
  BY <1>2
<1>4. n \in I
  <2> HIDE DEF I
  <2> QED
    BY <1>1, <1>3, SetInduction
<1> QED
  BY <1>4

\* It depends on the lists it concatenates, and on nothing else.
LEMMA FlattensUnique ==
  ASSUME NEW s, NEW t, NEW m \in Nat, NEW n \in Nat, m <= n, NEW f, NEW g,
         Flattens(f, s, m), Flattens(g, t, n), \A i \in 1..m : s[i] = t[i]
  PROVE  \A i \in 1..m : f[i] = g[i]
<1> DEFINE I == {i \in Nat : i \in 1..m => f[i] = g[i]}
<1>1. /\ \A i \in 1..m : f[i] = IF i = 1 THEN s[i] ELSE f[i - 1] \o s[i]
      /\ \A i \in 1..n : g[i] = IF i = 1 THEN t[i] ELSE g[i - 1] \o t[i]
  BY DEF Flattens
<1>2. 0 \in I
  OBVIOUS
<1>3. ASSUME NEW i \in Nat, i \in I
      PROVE  i + 1 \in I
  <2> SUFFICES ASSUME i + 1 \in 1..m
               PROVE  f[i + 1] = g[i + 1]
    OBVIOUS
  <2>1. i + 1 \in 1..n /\ (i + 1) - 1 = i /\ (i + 1 # 1 => i \in 1..m)
    OBVIOUS
  <2>2. i + 1 # 1 => f[i] = g[i]
    BY <1>3, <2>1
  <2>3. s[i + 1] = t[i + 1]
    OBVIOUS
  <2>4. /\ f[i + 1] = IF i + 1 = 1 THEN s[i + 1] ELSE f[i] \o s[i + 1]
        /\ g[i + 1] = IF i + 1 = 1 THEN t[i + 1] ELSE g[i] \o t[i + 1]
    BY <1>1, <2>1
  <2> HIDE DEF I
  <2> QED
    BY <2>2, <2>3, <2>4
<1>4. \A i \in Nat : i \in I
  <2> HIDE DEF I
  <2> QED
    BY <1>2, <1>3, SetInduction
<1> QED
  BY <1>4

\* The first m of two lists are the same.
SameUpTo(s, t, m) == \A i \in 1..m : s[i] = t[i]

\* So it does not change when the list grows.
LEMMA FlattensGrow ==
  \A s, t, f, g : \A m, n \in Nat :
    m <= n /\ SameUpTo(s, t, m) /\ Flattens(f, s, m) /\ Flattens(g, t, n) => SameUpTo(f, g, m)
<1> SUFFICES ASSUME NEW s, NEW t, NEW f, NEW g, NEW m \in Nat, NEW n \in Nat,
                    m <= n, SameUpTo(s, t, m), Flattens(f, s, m), Flattens(g, t, n)
             PROVE  \A i \in 1..m : f[i] = g[i]
  BY DEF SameUpTo
<1>1. \A i \in 1..m : s[i] = t[i]
  BY DEF SameUpTo
<1> QED
  BY <1>1, FlattensUnique

\* FlattenSeq takes the last value of it.
LEMMA FlattenIs ==
  ASSUME NEW S, NEW s \in Seq(Seq(S)), s # <<>>
  PROVE  \E f \in [1..Len(s) -> Seq(S)] : Flattens(f, s, Len(s)) /\ FlattenSeq(s) = f[Len(s)]
<1> DEFINE F == CHOOSE f : Flattens(f, s, Len(s))
<1>1. Len(s) \in Nat /\ Len(s) # 0 /\ Len(s) <= Len(s)
  BY EmptySeq
<1>2. FlattenSeq(s) = F[Len(s)]
  BY <1>1 DEF FlattenSeq, Flattens
<1>3. PICK f \in [1..Len(s) -> Seq(S)] : Flattens(f, s, Len(s))
  BY <1>1, FlattensExists
<1>4. Flattens(F, s, Len(s))
  BY <1>3
<1> HIDE DEF F
<1>5. \A i \in 1..Len(s) : F[i] = f[i]
  BY <1>1, <1>3, <1>4, FlattensUnique
<1>6. FlattenSeq(s) = f[Len(s)]
  BY <1>1, <1>2, <1>5
<1> QED
  BY <1>3, <1>6

\* A list more is concatenated to what there is.
LEMMA FlattenAppend ==
  ASSUME NEW S, NEW s \in Seq(Seq(S)), NEW x \in Seq(S)
  PROVE  /\ FlattenSeq(<<>>) = <<>> /\ FlattenSeq(s) \in Seq(S)
         /\ FlattenSeq(Append(s, x)) = FlattenSeq(s) \o x
<1>1. FlattenSeq(<<>>) = <<>>
  BY EmptySeq DEF FlattenSeq
<1>2. FlattenSeq(s) \in Seq(S)
  <2>1. s = <<>> => FlattenSeq(s) = <<>>
    BY <1>1
  <2>2. CASE s # <<>>
    <3>1. PICK f \in [1..Len(s) -> Seq(S)] : FlattenSeq(s) = f[Len(s)]
      BY <2>2, FlattenIs
    <3>2. Len(s) \in 1..Len(s)
      BY <2>2, EmptySeq
    <3> QED
      BY <3>1, <3>2
  <2> QED
    BY <2>1, <2>2, EmptySeq
<1> DEFINE l == Len(s)
           y == Append(s, x)
<1>n. l \in Nat
  OBVIOUS
<1>3. /\ y \in Seq(Seq(S)) /\ y # <<>> /\ Len(y) = l + 1
      /\ \A i \in 1..l : y[i] = s[i]
      /\ y[l + 1] = x
  <2>1. y \in Seq(Seq(S)) /\ Len(y) = l + 1 /\ (\A i \in 1..l : y[i] = s[i]) /\ y[l + 1] = x
    BY AppendProperties
  <2> HIDE DEF y
  <2>2. y # <<>>
    BY <2>1, EmptySeq
  <2> QED
    BY <2>1, <2>2
<1> HIDE DEF l, y
<1>4. PICK g \in [1..(l + 1) -> Seq(S)] : Flattens(g, y, l + 1) /\ FlattenSeq(y) = g[l + 1]
  <2>1. \E g \in [1..Len(y) -> Seq(S)] : Flattens(g, y, Len(y)) /\ FlattenSeq(y) = g[Len(y)]
    BY <1>n, <1>3, FlattenIs
  <2> QED
    BY <1>n, <1>3, <2>1
<1>5. g[l + 1] = IF l + 1 = 1 THEN x ELSE g[l] \o x
  <2>1. l + 1 \in 1..(l + 1) /\ (l + 1) - 1 = l
    BY <1>n
  <2>2. g[l + 1] = IF l + 1 = 1 THEN y[l + 1] ELSE g[(l + 1) - 1] \o y[l + 1]
    BY <1>n, <1>4, <2>1 DEF Flattens
  <2> QED
    BY <1>n, <1>3, <2>1, <2>2
<1>6. CASE s = <<>>
  <2>1. l = 0
    BY <1>6, EmptySeq DEF l
  <2>2. <<>> \o x = x
    BY ConcatEmptySeq
  <2> QED
    BY <1>1, <1>4, <1>5, <1>6, <2>1, <2>2, <1>2 DEF y
<1>7. CASE s # <<>>
  <2>1. l # 0
    BY <1>7, EmptySeq DEF l
  <2>2. PICK f \in [1..l -> Seq(S)] : Flattens(f, s, l) /\ FlattenSeq(s) = f[l]
    BY <1>7, FlattenIs DEF l
  <2>3. \A i \in 1..l : f[i] = g[i]
    <3>1. SameUpTo(s, y, l)
      BY <1>3 DEF SameUpTo
    <3> DEFINE k == l + 1
    <3>2. k \in Nat /\ l <= k
      BY <1>n
    <3>3. Flattens(g, y, k)
      BY <1>4
    <3> HIDE DEF k
    <3>4. SameUpTo(f, g, l)
      BY <1>n, <2>2, <3>1, <3>2, <3>3, FlattensGrow
    <3> QED
      BY <3>4 DEF SameUpTo
  <2>4. f[l] = g[l] /\ l + 1 # 1
    BY <1>n, <2>1, <2>3
  <2>5. FlattenSeq(y) = g[l] \o x
    BY <1>4, <1>5, <2>4
  <2>6. FlattenSeq(y) = FlattenSeq(s) \o x
    BY <2>2, <2>4, <2>5
  <2>7. FlattenSeq(Append(s, x)) = FlattenSeq(s) \o x
    BY ONLY <2>6 DEF y
  <2> QED
    BY <1>1, <1>2, <2>7
<1> QED
  BY <1>6, <1>7

\* A list of lists of which at most one is not empty is flattened to that one.
LEMMA FlattenAlmost ==
  ASSUME NEW S, NEW s \in Seq(Seq(S)), NEW x \in Seq(S), NEW k \in Nat,
         \A i \in 1..Len(s) : s[i] = IF i = k THEN x ELSE <<>>
  PROVE  FlattenSeq(s) = IF k \in 1..Len(s) THEN x ELSE <<>>
<1> DEFINE l == Len(s)
           Sum(i) == IF k \in 1..i THEN x ELSE <<>>
<1>n. l \in Nat
  OBVIOUS
<1>1. CASE s = <<>>
  <2>1. Len(s) = 0 /\ FlattenSeq(<<>>) = <<>>
    BY <1>1, FlattenAppend
  <2> QED
    BY <1>1, <2>1
<1>2. CASE s # <<>>
  <2>1. PICK f \in [1..l -> Seq(S)] : Flattens(f, s, l) /\ FlattenSeq(s) = f[l]
    BY <1>2, FlattenIs
  <2>2. l # 0
    BY <1>2, EmptySeq
  <2> DEFINE I == {i \in Nat : i \in 1..l => f[i] = Sum(i)}
  <2>3. 0 \in I
    OBVIOUS
  <2>4. ASSUME NEW i \in Nat, i \in I
        PROVE  i + 1 \in I
    <3> SUFFICES ASSUME i + 1 \in 1..l
                 PROVE  f[i + 1] = Sum(i + 1)
      OBVIOUS
    <3>1. f[i + 1] = IF i + 1 = 1 THEN s[i + 1] ELSE f[i] \o s[i + 1]
      <4>1. (i + 1) - 1 = i
        OBVIOUS
      <4> QED
        BY <2>1, <4>1 DEF Flattens
    <3>2. s[i + 1] = IF i + 1 = k THEN x ELSE <<>>
      OBVIOUS
    <3>3. CASE i = 0
      <4>1. k \in 1..(i + 1) <=> i + 1 = k
        BY <3>3
      <4> QED
        BY <3>1, <3>2, <3>3, <4>1
    <3>4. CASE i # 0
      <4>1. f[i] = Sum(i)
        BY <2>4, <3>4
      <4>2. f[i + 1] = f[i] \o s[i + 1]
        <5>1. i + 1 # 1
          BY <3>4
        <5> QED
          BY <3>1, <5>1, Zenon
      <4>3. x \o <<>> = x /\ <<>> \o x = x /\ <<>> \o <<>> = <<>>
        BY ConcatEmptySeq, EmptySeq
      <4>4. (k \in 1..(i + 1) <=> k \in 1..i \/ i + 1 = k) /\ ~(k \in 1..i /\ i + 1 = k)
        OBVIOUS
      <4> QED
        BY <3>2, <4>1, <4>2, <4>3, <4>4
    <3> QED
      BY <3>3, <3>4
  <2>5. \A i \in Nat : i \in I
    <3> HIDE DEF I
    <3> QED
      BY <2>3, <2>4, SetInduction
  <2>6. f[l] = Sum(l)
    <3>1. l \in 1..l
      BY <1>n, <2>2
    <3> QED
      BY <1>n, <2>5, <3>1
  <2> QED
    BY <2>1, <2>6, Zenon
<1> QED
  BY <1>1, <1>2

-----------------------------------------------------------------------------
(* What is in flight, and on disk, and in memory.                           *)

\* The vector that is on its way to the temporary file is the swapping one.
LEMMA InFlightIs ==
  ASSUME TokenInv, SwapInv, bufs \in [Buffers -> Content]
  PROVE  InFlight = IF SwapRequests # {} THEN bufs[swappingBuffer] ELSE <<>>
<1> DEFINE list == [i \in 1..Len(fs) |-> IF fs[i].step = "swap" THEN bufs[fs[i].buf] ELSE <<>>]
           x == bufs[swappingBuffer]
<1>1. Len(fs) \in Nat /\ x \in Content
  BY DEF TokenInv, Lists, IsList, SwapInv, Buffers, swappingBuffer
<1>2. \A i \in 1..Len(fs) : fs[i].step = "swap" => bufs[fs[i].buf] = x
  BY DEF SwapRequests, Elements, SwapInv, SwapRequest
<1>3. \A i, j \in 1..Len(fs) : fs[i].step = "swap" /\ fs[j].step = "swap" => i = j
  BY DEF SwapRequests, Elements, SwapInv, TokenInv, FsOnce
<1>4. list \in Seq(Content) /\ Len(list) = Len(fs)
  <2>1. <<>> \in Content
    BY EmptySeq DEF Content
  <2> QED
    BY <1>1, <1>2, <2>1
<1>5. PICK k \in Nat : /\ SwapRequests # {} <=> k \in 1..Len(fs)
                       /\ \A i \in 1..Len(fs) : fs[i].step = "swap" <=> i = k
  <2>1. CASE SwapRequests = {}
    <3>1. \A i \in 1..Len(fs) : fs[i].step # "swap"
      BY <2>1 DEF SwapRequests, Elements
    <3> QED
      BY <1>1, <2>1, <3>1
  <2>2. CASE SwapRequests # {}
    <3>1. PICK k \in 1..Len(fs) : fs[k].step = "swap"
      BY <2>2 DEF SwapRequests, Elements
    <3>2. k \in Nat
      BY <1>1
    <3>3. \A i \in 1..Len(fs) : fs[i].step = "swap" <=> i = k
      BY <1>3, <3>1
    <3> QED
      BY <2>2, <3>2, <3>3
  <2> QED
    BY <2>1, <2>2
<1>6. \A i \in 1..Len(fs) : list[i] = IF i = k THEN x ELSE <<>>
  BY <1>2, <1>5
<1>7. InFlight = FlattenSeq(list)
  BY DEF InFlight
<1> HIDE DEF list, x
<1>8. FlattenSeq(list) = IF k \in 1..Len(list) THEN x ELSE <<>>
  BY <1>1, <1>4, <1>6, FlattenAlmost DEF Content
<1> QED
  BY <1>4, <1>5, <1>7, <1>8 DEF x

\* An application that awaits its swaps loses nothing: while no swap has failed and no
\* save has begun, the temporary file, the vector on its way to it and the vector in memory
\* hold, in this order, what an ordinary vector would hold.
THEOREM NothingLostAlways ==
  ASSUME SwapsAwaited
  PROVE  ReadersSpec => []NothingLost
<1>1. (Alive => IInv) => NothingLost
  <2> SUFFICES ASSUME IInv, ~error, ~Retrying, ~Saving
               PROVE  Stored = logical
    BY DEF NothingLost
  <2>1. TokenInv /\ SwapInv /\ DataInv /\ ~SaveBegun
    BY DEF IInv, CallInv, Saving, SaveBegun
  <2>2. Flying <=> SwapRequests # {}
    BY DEF Flying, Retrying, SwapHandlers, Elements
  <2>3. InFlight = IF Flying THEN bufs[swappingBuffer] ELSE <<>>
    BY <2>1, <2>2, InFlightIs DEF IInv, FileInv
  <2> QED
    BY <2>1, <2>3 DEF DataInv, Stored
<1> QED
  BY <1>1, IInvAlways, PTL

\* While a vector is being written no step changes it.
LEMMA SwapLeavesVector ==
  ASSUME SwapsAwaited, IInv, ReadersStep, NEW i \in 1..Len(fs), fs[i].step = "swap", fs' # Tail(fs)
  PROVE  bufs'[fs[i].buf] = bufs[fs[i].buf]
<1>1. TokenInv /\ OverlapInv /\ SwapInv /\ FileInv
  BY DEF IInv, CallInv
<1>2. fs[i] \in SwapRequests /\ fs[i].buf = swappingBuffer /\ swapping
  <2>1. fs[i] \in SwapRequests
    BY DEF SwapRequests, Elements
  <2> QED
    BY <1>1, <2>1 DEF SwapInv, SwapRequest
<1>3. SwapRequests # {} /\ SwapHandlers = {} /\ PostedOperations = {}
  BY <1>1, <1>2 DEF SwapInv
<1>4. currentBuffer \in Buffers /\ swappingBuffer \in Buffers /\ swappingBuffer # currentBuffer
      /\ bufs \in [Buffers -> Content]
  BY <1>1, CurrentTypes
<1>5. bufs' = bufs \/ \E x : bufs' = [bufs EXCEPT ![currentBuffer] = x]
  <2>1. ASSUME NEW size \in Sizes, AppendHuge(size) \/ AppendAndSwap(size)
        PROVE  FALSE
    <3>1. CASE AppendAndSwap(size)
      BY <1>2, <3>1 DEF AppendAndSwap
    <3>2. CASE AppendHuge(size)
      <4>1. ~(size <= maxBufferSize) /\ MayCall("append", size)
        BY <3>2, SwappingBufferAssumption DEF AppendHuge, AppendCall
      <4>2. Unanswered = {}
        BY <1>1, <4>1, AppendAllowed
      <4> QED
        BY <1>1, <1>2, <4>2, SwappingUnanswered
    <3> QED
      BY <2>1, <3>1, <3>2
  <2>2. ASSUME NEW size \in Sizes, AppendInMemory(size) \/ AppendDuringSwap(size)
        PROVE  \E x : bufs' = [bufs EXCEPT ![currentBuffer] = x]
    BY <2>2 DEF AppendInMemory, AppendDuringSwap
  <2>3. ASSUME NEW op, Enqueue(op)
        PROVE  bufs' = bufs
    BY <2>3 DEF Enqueue, bufferVars
  <2>4. CASE RunAppend \/ RunClear
    <3>1. io_ # <<>> /\ Head(io_).task = "operation"
      BY <2>4 DEF RunAppend, RunClear, Running
    <3>2. Head(io_) \in PostedOperations
      BY <1>1, <3>1, IoSets DEF PostedOperations
    <3> QED
      BY <1>3, <3>2
  <2>5. CASE RunSize \/ RunCleared \/ RunReadAll \/ RunSave
    BY <2>5 DEF RunSize, RunCleared, RunReadAll, RunSave, bufferVars
  <2>6. CASE SwapDone \/ SwapRetry \/ SwapFailed
    BY <2>6 DEF SwapDone, SwapRetry, SwapFailed, bufferVars
  <2>7. CASE OtherHandle
    BY <2>7 DEF OtherHandle, LocalSaved, RestSaved, MoveFailed, CopyChunk, ChunkCopied, TailSaved, ReadDone,
       ReadTmpDone
  <2>8. CASE CallbackReturns \/ Worker
    BY <2>8 DEF CallbackReturns, Worker, PerformRequest, FailRequest, bufferVars
  <2>9. CASE ReaderRuns \/ Ask \/ Stop
    <3>1. CASE ReaderRuns
      BY <3>1 DEF ReaderRuns, RunMake, MakeFails, RunMade, OfFile, PassOn, OfTmpFile, Cached,
         Deliver, Task, BufferRests, bufferVars
    <3>2. CASE Ask
      BY <3>2 DEF Ask, BufferRests, bufferVars
    <3>3. CASE Stop
      BY <3>3 DEF Stop, vars, bufferVars
    <3> QED
      BY <2>9, <3>1, <3>2, <3>3
  <2> QED
    BY ReadersSteps, HandleKinds, <2>1, <2>2, <2>3, <2>4, <2>5, <2>6, <2>7, <2>8, <2>9 DEF AppCall, Run
<1> QED
  BY <1>2, <1>4, <1>5

\* An application that awaits its swaps never changes a vector that was handed by
\* reference to the FilesystemManager and has not been written yet.
THEOREM VectorsLeftAloneAlways ==
  ASSUME SwapsAwaited
  PROVE  ReadersSpec => VectorsLeftAlone
<1>1. ASSUME IInv, ReadersThrow, NEW i \in 1..Len(fs), fs[i].step = "swap"
      PROVE  bufs' = bufs
  <2>1. ASSUME ClearThrows
        PROVE  FALSE
    <3>1. TokenInv /\ SwapInv
      BY <1>1 DEF IInv, CallInv
    <3>2. io_ # <<>> /\ Head(io_).task = "operation"
      BY <2>1 DEF ClearThrows, Running
    <3>3. Head(io_) \in PostedOperations
      BY <3>1, <3>2, IoSets DEF PostedOperations
    <3>4. fs[i] \in SwapRequests
      BY <1>1 DEF SwapRequests, Elements
    <3> QED
      BY <3>1, <3>3, <3>4 DEF SwapInv
  <2> QED
    BY <1>1, <2>1, ThrowEnds
<1>2. (Alive => IInv) /\ [ReadersNext]_allVars =>
        [\A i \in 1..Len(fs) :
           LET b == fs[i].buf
           IN  fs[i].step = "swap" /\ fs' # Tail(fs) => bufs'[b] = bufs[b]]_vars
  <2>1. ReadersStep => Alive
    BY StepAlive
  <2>2. ReadersThrow => Alive
    BY ThrowEnds
  <2> QED
    BY <1>1, <2>1, <2>2, SwapLeavesVector DEF allVars, ReadersNext
<1> QED
  BY <1>2, IInvAlways, PTL DEF ReadersSpec, VectorsLeftAlone

-----------------------------------------------------------------------------
(* What readAll and save answer.                                           *)

\* A call is told the content, or finds it in the destination.
Told(c, a) ==
  a.ok => /\ calls[c].op = "readAll" => a.data = Original \o logical
          /\ calls[c].op = "save" => dest' = Original \o logical

\* A step that answers at most the call whose turn it is, and tells it the content.
Tells ==
  \/ UNCHANGED answers
  \/ \E a : io_ # <<>> /\ Own(Head(io_)) /\ Answer(Turn, a) /\ Told(Turn, a)
  \/ io_ # <<>> /\ Own(Head(io_)) /\ answers' = [answers EXCEPT ![Turn] = @ \o <<Failed, Done>>]

\* An answer that is no content, or is a failure.
LEMMA ToldOther ==
  ASSUME NEW c, NEW a, calls[c].op \notin {"readAll", "save"} \/ a = Failed
  PROVE  Told(c, a)
BY DEF Told, Failed

\* What a call is told when its operation has its turn.
LEMMA RunTells ==
  ASSUME TokenInv, KindInv, SwapInv, FileInv, DataInv, OrderInv, FilesThere, ~error, Run
  PROVE  Tells
<1>1. CASE RunAppend \/ RunClear
  BY <1>1 DEF RunAppend, RunClear, Tells
<1>2. CASE RunSize
  <2>1. io_ # <<>> /\ Own(Head(io_)) /\ calls[Turn].op = "size" /\ Answer(Turn, Size(realSize))
    BY <1>2 DEF RunSize, Running, Own, Turn
  <2> QED
    BY <2>1, ToldOther DEF Tells
<1>3. CASE RunCleared
  <2>1. io_ # <<>> /\ Head(io_).task = "cleared" /\ Answer(Turn, Done)
    BY <1>3 DEF RunCleared
  <2>2. calls[Turn].op = "clear" /\ Own(Head(io_))
    BY <2>1, HeadOfIo DEF KindInv, TaskOp, Own, Turn
  <2> QED
    BY <2>1, <2>2, ToldOther DEF Tells
<1>4. CASE RunReadAll
  <2> DEFINE B == bufs[currentBuffer]
  <2>1. /\ io_ # <<>> /\ Own(Head(io_)) /\ calls[Turn].op = "readAll"
        /\ UNCHANGED answers \/ (kind = "Overwrite" /\ ~isOnDisk /\ Answer(Turn, Read(B)))
    BY <1>4 DEF RunReadAll, Running, Own, Turn
  <2>2. ~isOnDisk => logical = B
    BY <1>4, TurnAtRest DEF RunReadAll, AllHeld
  <2>3. B \in Content /\ <<>> \o B = B
    <3>1. B \in Content /\ 0 \in 0..MaxCalls
      BY CurrentTypes, SwappingBufferAssumption
    <3> HIDE DEF B
    <3> QED
      BY <3>1, ContentTypes
  <2> HIDE DEF B
  <2>4. Read(B).data = B
    BY DEF Read
  <2>5. kind = "Overwrite" /\ ~isOnDisk => Told(Turn, Read(B))
    BY <2>1, <2>2, <2>3, <2>4 DEF Told, Original
  <2> QED
    BY <2>1, <2>5 DEF Tells
<1>5. CASE RunSave
  <2>1. UNCHANGED answers
    BY <1>5 DEF RunSave
  <2> QED
    BY <2>1 DEF Tells
<1> QED
  BY <1>1, <1>2, <1>3, <1>4, <1>5 DEF Run

\* What a call is told when its request comes back.
LEMMA HandleTells ==
  ASSUME TokenInv, RequestInv, KindInv, SwapInv, FileInv, FilesThere, JobInv, ~error, Handle
  PROVE  Tells
<1> DEFINE t == Head(io_)
           B == bufs[currentBuffer]
<1>0. kind \in {"Append", "Overwrite"} /\ <<0>> \in Content /\ B \in Content /\ tmp \in Content \cup {None}
      /\ logical \in Content /\ 0 \in 0..MaxCalls
  BY CurrentTypes, SwappingBufferAssumption DEF FilesThere, Content
<1>10. <<>> \o logical = logical /\ <<>> \o B = B
  <2> HIDE DEF B
  <2> QED
    BY <1>0, ContentTypes
<1>1. CASE SwapDone \/ SwapRetry \/ SwapFailed
  <2>1. Handling("swap") /\ (UNCHANGED answers \/ \E a : Answer(Turn, a))
    BY <1>1 DEF SwapDone, SwapRetry, SwapFailed
  <2>2. io_ # <<>> /\ Own(Head(io_)) /\ calls[Turn].op = "append"
    BY <2>1, HandlingOp DEF OpOf
  <2> QED
    BY <2>1, <2>2, ToldOther DEF Tells
<1>2. ASSUME OtherHandle
      PROVE  Tells
  <2>1. io_ # <<>> /\ t \in DoneJobs
    BY <1>2, OtherHandleWorking
  <2>2. JobDone(t, t.request.step) /\ Own(t)
    BY <2>1 DEF JobInv, DoneJobs, Own
  <2>3. \A step : Handling(step) => t.request.step = step /\ calls[Turn].op = OpOf(step)
    BY HandlingOp DEF Handling
  <2>4. CASE LocalSaved
    <3>1. Handling("local") /\ UNCHANGED dest /\ (UNCHANGED answers \/ Answer(Turn, [ok |-> t.ec = "success"]))
      BY <2>4 DEF LocalSaved, Ec, fileVars
    <3>2. DoneLocal(t) /\ calls[Turn].op = "save"
      BY <2>2, <2>3, <3>1 DEF JobDone, OpOf
    <3>3. Told(Turn, [ok |-> t.ec = "success"])
      BY <3>1, <3>2 DEF Told, DoneLocal
    <3> QED
      BY <2>1, <2>2, <3>1, <3>3 DEF Tells
  <2>5. CASE RestSaved
    <3>1. /\ Handling("rest")
          /\ (t.ec = "success" /\ dest' = tmp /\ Answer(Turn, Done)) \/ Answer(Turn, Failed)
      BY <2>5 DEF RestSaved, Ec
    <3>2. DoneRest(t) /\ calls[Turn].op = "save"
      BY <2>2, <2>3, <3>1 DEF JobDone, OpOf
    <3>3. t.ec = "success" /\ dest' = tmp => Told(Turn, Done)
      BY <1>10, <3>2 DEF Told, DoneRest, Original
    <3> QED
      BY <2>1, <2>2, <3>1, <3>3, ToldOther DEF Tells
  <2>6. CASE MoveFailed \/ CopyChunk \/ ChunkCopied
    <3>1. UNCHANGED answers \/ Answer(Turn, Failed)
      BY <2>6 DEF MoveFailed, CopyChunk, ChunkCopied
    <3> QED
      BY <2>1, <2>2, <3>1, ToldOther DEF Tells
  <2>7. CASE TailSaved
    <3>1. /\ Handling("tail") /\ UNCHANGED dest
          /\ answers' = [answers EXCEPT ![Turn] = @ \o IF t.ec = "success" THEN <<Done>> ELSE <<Failed, Done>>]
      BY <2>7 DEF TailSaved, Ec, fileVars
    <3>2. DoneTail(t) /\ calls[Turn].op = "save"
      BY <2>2, <2>3, <3>1 DEF JobDone, OpOf
    <3>3. CASE t.ec = "success"
      <4>1. Told(Turn, Done)
        BY <3>1, <3>2, <3>3 DEF Told, DoneTail, Original
      <4>2. Answer(Turn, Done)
        <5>1. answers[Turn] = <<>> /\ Turn \in Ids
          BY <2>1, <2>2, HeadOfIo
        <5>2. <<>> \o <<Done>> = Append(<<>>, Done)
          OBVIOUS
        <5>3. answers[Turn] \o <<Done>> = Append(answers[Turn], Done)
          BY <5>1, <5>2
        <5> QED
          BY <3>1, <3>3, <5>3 DEF Answer
      <4> QED
        BY <2>1, <2>2, <4>1, <4>2 DEF Tells
    <3>4. CASE t.ec # "success"
      BY <2>1, <2>2, <3>1, <3>4 DEF Tells
    <3> QED
      BY <3>3, <3>4
  <2>8. CASE ReadDone
    <3>1. /\ Handling("read")
          /\ \/ UNCHANGED answers \/ Answer(Turn, Failed)
             \/ t.ec = "success" /\ ~(kind = "Append" /\ isOnDisk) /\ Answer(Turn, Read(tmp_read \o B))
      BY <2>8 DEF ReadDone, Ec
    <3>2. DoneRead(t) /\ calls[Turn].op = "readAll"
      BY <2>2, <2>3, <3>1 DEF JobDone, OpOf
    <3>3. t.ec = "success" /\ ~(kind = "Append" /\ isOnDisk) => tmp_read \o B = Original \o logical
      BY <1>10, <3>2 DEF DoneRead, AllHeld, AllStored, Original
    <3> DEFINE data == tmp_read \o B
    <3>4. Read(data).data = data
      BY DEF Read
    <3> HIDE DEF data
    <3>5. data = Original \o logical => Told(Turn, Read(data))
      BY <3>2, <3>4 DEF Told
    <3> QED
      BY <2>1, <2>2, <3>1, <3>3, <3>5, ToldOther DEF Tells, data
  <2>9. CASE ReadTmpDone
    <3> DEFINE data == tmp_read \o t.data \o B
    <3>1. Handling("read_tmp") /\ Answer(Turn, Read(data))
      BY <2>9 DEF ReadTmpDone
    <3>2. DoneReadTmp(t) /\ calls[Turn].op = "readAll"
      BY <2>2, <2>3, <3>1 DEF JobDone, OpOf
    <3>3. tmp \in Content /\ (<<0>> \o tmp) \o B = <<0>> \o (tmp \o B)
      <4>1. tmp \in Content
        BY <1>0, <3>2 DEF DoneReadTmp, AllStored
      <4> HIDE DEF B
      <4> QED
        BY <1>0, <4>1, ConcatAssociative DEF Content
    <3>4. data = Original \o logical
      BY <3>2, <3>3 DEF DoneReadTmp, AllStored, Original
    <3>5. Read(data).data = data
      BY DEF Read
    <3> HIDE DEF data
    <3>6. Told(Turn, Read(data))
      BY <3>2, <3>4, <3>5 DEF Told
    <3> QED
      BY <2>1, <2>2, <3>1, <3>6 DEF Tells
  <2> QED
    BY <1>2, <2>4, <2>5, <2>6, <2>7, <2>8, <2>9 DEF OtherHandle
<1> QED
  BY <1>1, <1>2, HandleKinds

\* What a call is told in a step that is no call of the application.
LEMMA StepTells ==
  ASSUME IInv, SwapsAwaited, ReadsAlone, ~error,
         Run \/ Handle \/ CallbackReturns \/ Worker \/ ReaderRuns \/ Ask \/ Stop
  PROVE  Tells
<1>1. /\ TokenInv /\ RequestInv /\ KindInv /\ SwapInv /\ FileInv /\ DataInv
      /\ OrderInv /\ FilesThere /\ JobInv
  BY DEF IInv, CallInv
<1>2. CASE Run
  BY <1>1, <1>2, RunTells
<1>3. CASE Handle
  BY <1>1, <1>3, HandleTells
<1>4. CASE CallbackReturns \/ Worker
  BY <1>4 DEF CallbackReturns, Worker, PerformRequest, FailRequest, Tells
<1>5. CASE ReaderRuns
  <2>1. CASE RunMake \/ OfFile \/ PassOn \/ OfTmpFile \/ Cached \/ Deliver
    BY <2>1 DEF RunMake, OfFile, PassOn, OfTmpFile, Cached, Deliver, Task, BufferRests, Tells
  <2>2. CASE MakeFails
    <3>1. io_ # <<>> /\ Own(Head(io_)) /\ Answer(Turn, Failed)
      BY <2>2 DEF MakeFails, Running, Own
    <3> QED
      BY <3>1, ToldOther DEF Tells
  <2>3. CASE RunMade
    <3>1. io_ # <<>> /\ Head(io_).task = "made" /\ Answer(Turn, Done)
      BY <2>3 DEF RunMade
    <3>2. calls[Turn].op = "make_chunked_stream" /\ Own(Head(io_))
      BY <1>1, <3>1, HeadOfIo DEF KindInv, TaskOp, Own, Turn
    <3> QED
      BY <3>1, <3>2, ToldOther DEF Tells
  <2> QED
    BY <1>5, <2>1, <2>2, <2>3 DEF ReaderRuns
<1>6. CASE Ask \/ Stop
  BY <1>6 DEF Ask, Stop, BufferRests, vars, Tells
<1> QED
  BY <1>2, <1>3, <1>4, <1>5, <1>6

\* A call that comes to have its only answer in such a step has been told the content.
LEMMA TellsContent ==
  ASSUME TokenInv, Tells, UNCHANGED calls, NEW c \in 1..Len(calls), NEW op, Replies(c, op)
  PROVE  /\ op = "readAll" => Given(c).data = Original \o logical
         /\ op = "save" => dest' = Original \o logical
<1>1. c \in Ids /\ DOMAIN answers = Ids /\ answers' # answers
  <2>1. c \in Ids /\ DOMAIN answers = Ids
    BY SwappingBufferAssumption DEF TokenInv, Lists, Ids
  <2> QED
    BY <2>1 DEF Replies
<1>2. /\ answers'[c] # answers[c] /\ Len(answers'[c]) = 1 /\ calls[c].op = op /\ Given(c).ok
  BY DEF Replies
<1>3. ASSUME NEW a, io_ # <<>>, Own(Head(io_)), Answer(Turn, a), Told(Turn, a)
      PROVE  /\ op = "readAll" => Given(c).data = Original \o logical
             /\ op = "save" => dest' = Original \o logical
  <2>1. c = Turn
    BY <1>1, <1>2, <1>3 DEF Answer
  <2>2. answers[Turn] = <<>>
    BY <1>3, HeadOfIo
  <2>3. answers'[c] = Append(<<>>, a)
    BY <1>1, <1>3, <2>1, <2>2 DEF Answer
  <2>4. Append(<<>>, a)[1] = a
    OBVIOUS
  <2>5. Given(c) = a
    BY <2>3, <2>4 DEF Given
  <2> QED
    BY <1>2, <1>3, <2>1, <2>5 DEF Told
<1>4. ASSUME io_ # <<>>, Own(Head(io_)), answers' = [answers EXCEPT ![Turn] = @ \o <<Failed, Done>>]
      PROVE  FALSE
  <2>1. c = Turn
    BY <1>1, <1>2, <1>4
  <2>2. answers[Turn] = <<>>
    BY <1>4, HeadOfIo
  <2>3. answers'[c] = <<>> \o <<Failed, Done>>
    BY <1>1, <1>4, <2>1, <2>2
  <2>4. Len(<<>> \o <<Failed, Done>>) = 2
    OBVIOUS
  <2> QED
    BY <1>2, <2>3, <2>4
<1> QED
  BY <1>1, <1>3, <1>4 DEF Tells

\* A call of the application answers no call but itself.
LEMMA CallTells ==
  ASSUME TokenInv, AppCall \/ Enqueue("make_chunked_stream"), NEW c \in 1..Len(calls)
  PROVE  answers'[c] = answers[c]
<1>1. New # c /\ c \in Ids /\ DOMAIN answers = Ids
  BY SwappingBufferAssumption DEF TokenInv, Lists, Ids, New
<1>2. UNCHANGED answers \/ \E a : Answer(New, a)
  BY DEF AppCall, AppendInMemory, AppendHuge, AppendAndSwap, AppendDuringSwap, Enqueue
<1> QED
  BY <1>1, <1>2 DEF Answer

\* A readAll that succeeds hands over the content, behind that of the file an Append buffer
\* extends, and a save that reports success and nothing else leaves just that in the
\* destination, for an application that awaits its swaps and what it reads.
THEOREM ContentExactAlways ==
  ASSUME SwapsAwaited, ReadsAlone
  PROVE  ReadersSpec => ContentExact
<1>1. ASSUME IInv, ReadersStep, ~error, NEW c \in 1..Len(calls), NEW op, Replies(c, op)
      PROVE  /\ op = "readAll" => Given(c).data = Original \o logical
             /\ op = "save" => dest' = Original \o logical
  <2>1. TokenInv
    BY <1>1 DEF IInv, CallInv
  <2>2. CASE AppCall \/ Enqueue("make_chunked_stream")
    BY <1>1, <2>1, <2>2, CallTells DEF Replies
  <2>3. CASE Run \/ Handle \/ CallbackReturns \/ Worker \/ ReaderRuns \/ Ask \/ Stop
    <3>1. Tells /\ UNCHANGED calls
      BY <1>1, <2>3, StepTells, AnsweringStep DEF Answering
    <3> QED
      BY <1>1, <2>1, <3>1, TellsContent
  <2> QED
    BY <1>1, <2>2, <2>3, ReadersSteps
<1>2. (Alive => IInv) /\ [ReadersNext]_allVars =>
        [~error => \A c \in 1..Len(calls) :
           /\ Replies(c, "readAll") => Given(c).data = Original \o logical
           /\ Replies(c, "save") => dest' = Original \o logical]_vars
  <2>1. ReadersStep => Alive
    BY StepAlive
  <2>2. ASSUME ReadersThrow
        PROVE  \A c, op : ~Replies(c, op)
    BY <2>2, ThrowEnds DEF Replies
  <2> QED
    BY <1>1, <2>1, <2>2 DEF allVars, ReadersNext
<1> QED
  BY <1>2, IInvAlways, PTL DEF ReadersSpec, ContentExact

-----------------------------------------------------------------------------
(* Sums, counted.                                                           *)

\* The pairs of an element of S and a member of its set.
Pairs(S, F) == UNION {{<<e, c>> : c \in F[e]} : e \in S}

\* One element more.
LEMMA PairsWith ==
  ASSUME NEW T, NEW F, NEW x, x \notin T, IsFiniteSet(F[x]), IsFiniteSet(Pairs(T, F))
  PROVE  /\ IsFiniteSet(Pairs(T \cup {x}, F))
         /\ Cardinality(Pairs(T \cup {x}, F)) = Cardinality(F[x]) + Cardinality(Pairs(T, F))
<1> DEFINE new == {<<x, c>> : c \in F[x]}
<1>1. /\ Pairs(T \cup {x}, F) = Pairs(T, F) \cup new
      /\ Pairs(T, F) \cap new = {}
  BY DEF Pairs
<1>2. IsFiniteSet(new) /\ Cardinality(new) = Cardinality(F[x])
  <2> DEFINE b == [c \in F[x] |-> <<x, c>>]
  <2>1. b \in Bijection(F[x], new)
    BY DEF Bijection, Injection, Surjection, IsInjective
  <2>2. ExistsBijection(F[x], new)
    BY <2>1 DEF ExistsBijection
  <2> HIDE DEF new
  <2> QED
    BY <2>2, FS_Bijection
<1> HIDE DEF new
<1>3. /\ IsFiniteSet(Pairs(T, F) \cup new)
      /\ Cardinality(Pairs(T, F) \cup new)
          = Cardinality(Pairs(T, F)) + Cardinality(new) - Cardinality(Pairs(T, F) \cap new)
  BY <1>2, FS_Union
<1>4. Cardinality(Pairs(T, F)) \in Nat /\ Cardinality(new) \in Nat
  BY <1>2, FS_CardinalityType
<1>5. Cardinality(Pairs(T, F) \cap new) = 0
  BY <1>1, FS_EmptySet
<1>6. Cardinality(Pairs(T, F) \cup new) = Cardinality(new) + Cardinality(Pairs(T, F))
  BY <1>3, <1>4, <1>5
<1> QED
  BY <1>1, <1>2, <1>3, <1>6, Zenon

Chosen(s) == CHOOSE x \in s : TRUE

\* sum[s] is the sum of fun over s, element by element, for every part s of S.
SumsUp(sum, fun, S) ==
  sum = [s \in SUBSET S |-> IF s = {} THEN 0 ELSE fun[Chosen(s)] + sum[s \ {Chosen(s)}]]

\* SumFunctionOnSet of the community modules is such a sum.
LEMMA SumIsOne ==
  ASSUME NEW fun, NEW S
  PROVE  SumFunctionOnSet(fun, S) = (CHOOSE sum : SumsUp(sum, fun, S))[S]
BY DEF SumFunctionOnSet, FoldFunctionOnSet, MapThenFoldSet, Chosen, SumsUp

\* A sum of the sizes of sets counts their members.
LEMMA PairsCounted ==
  ASSUME NEW S, IsFiniteSet(S), NEW F, NEW fun,
         \A e \in S : IsFiniteSet(F[e]) /\ fun[e] = Cardinality(F[e])
  PROVE  /\ IsFiniteSet(Pairs(S, F))
         /\ SumFunctionOnSet(fun, S) = Cardinality(Pairs(S, F))
<1> DEFINE Counted(s) == /\ IsFiniteSet(Pairs(s, F))
                        /\ \A sum : SumsUp(sum, fun, S) => sum[s] = Cardinality(Pairs(s, F))
           I == {n \in Nat : \A s \in SUBSET S : Cardinality(s) = n => Counted(s)}
           count == [s \in SUBSET S |-> Cardinality(Pairs(s, F))]
<1>0. ASSUME NEW s \in SUBSET S  PROVE IsFiniteSet(s) /\ Cardinality(s) \in Nat
  BY FS_Subset, FS_CardinalityType
<1>1. Pairs({}, F) = {}
  BY DEF Pairs
<1>2. Counted({})
  <2>1. \A sum : SumsUp(sum, fun, S) => sum[{}] = 0
    BY DEF SumsUp
  <2> QED
    BY <1>1, <2>1, FS_EmptySet
<1>3. ASSUME NEW s \in SUBSET S, s # {}, Counted(s \ {Chosen(s)})
      PROVE  /\ Counted(s)
             /\ Cardinality(Pairs(s, F))
                  = fun[Chosen(s)] + Cardinality(Pairs(s \ {Chosen(s)}, F))
  <2> DEFINE x == Chosen(s)
             T == s \ {x}
  <2>1. x \in s /\ x \in S
    BY <1>3 DEF Chosen
  <2>2. s = T \cup {x} /\ x \notin T
    BY <2>1
  <2>3. IsFiniteSet(F[x]) /\ fun[x] = Cardinality(F[x])
    BY <2>1
  <2>4. \A sum : SumsUp(sum, fun, S) => sum[s] = fun[x] + sum[T]
    BY <1>3 DEF SumsUp
  <2> HIDE DEF x, T
  <2>5. /\ IsFiniteSet(Pairs(T \cup {x}, F))
        /\ Cardinality(Pairs(T \cup {x}, F)) = Cardinality(F[x]) + Cardinality(Pairs(T, F))
    BY <1>3, <2>2, <2>3, PairsWith DEF x, T
  <2>6. IsFiniteSet(Pairs(s, F)) /\ Cardinality(Pairs(s, F)) = fun[x] + Cardinality(Pairs(T, F))
    BY <2>2, <2>3, <2>5, Zenon
  <2>7. \A sum : SumsUp(sum, fun, S) => sum[T] = Cardinality(Pairs(T, F))
    BY <1>3 DEF x, T
  <2>8. \A sum : SumsUp(sum, fun, S) => sum[s] = Cardinality(Pairs(s, F))
    BY <2>4, <2>6, <2>7, Zenon
  <2> QED
    BY <2>6, <2>8 DEF x, T
<1>4. 0 \in I
  <2>1. \A s \in SUBSET S : Cardinality(s) = 0 => s = {}
    BY <1>0, FS_EmptySet
  <2> HIDE DEF Counted
  <2> QED
    BY <1>2, <2>1
<1>5. ASSUME NEW n \in Nat, n \in I  PROVE n + 1 \in I
  <2> SUFFICES ASSUME NEW s \in SUBSET S, Cardinality(s) = n + 1  PROVE Counted(s)
    OBVIOUS
  <2> HIDE DEF Counted
  <2>1. s # {}
    <3>1. Cardinality({}) = 0 /\ n + 1 # 0
      BY FS_EmptySet
    <3> HIDE DEF I
    <3> QED
      BY <3>1, Zenon
  <2>2. Chosen(s) \in s
    BY <2>1 DEF Chosen
  <2>3. Cardinality(s \ {Chosen(s)}) = n
    <3>1. Cardinality(s \ {Chosen(s)}) = Cardinality(s) - 1
      BY <1>0, <2>2, FS_RemoveElement
    <3> QED
      BY <3>1
  <2>4. Counted(s \ {Chosen(s)})
    BY <1>5, <2>3
  <2> QED
    BY <1>3, <2>1, <2>4
<1>6. ASSUME NEW s \in SUBSET S  PROVE Counted(s)
  <2>1. Cardinality(s) \in I
    <3> HIDE DEF I
    <3> QED
      BY <1>0, <1>4, <1>5, SetInduction
  <2> HIDE DEF Counted
  <2> QED
    BY <2>1
<1>7. SumsUp(count, fun, S)
  <2>1. ASSUME NEW s \in SUBSET S, s # {}
        PROVE  count[s] = fun[Chosen(s)] + count[s \ {Chosen(s)}]
    <3>1. s \ {Chosen(s)} \in SUBSET S
      OBVIOUS
    <3> HIDE DEF Counted
    <3>2. Cardinality(Pairs(s, F)) = fun[Chosen(s)] + Cardinality(Pairs(s \ {Chosen(s)}, F))
      BY <1>3, <1>6, <2>1, <3>1
    <3> QED
      BY <3>1, <3>2
  <2>2. count[{}] = 0
    BY <1>1, FS_EmptySet
  <2>3. \A s \in SUBSET S : count[s] = IF s = {} THEN 0
                                       ELSE fun[Chosen(s)] + count[s \ {Chosen(s)}]
    <3> HIDE DEF count
    <3> QED
      BY <2>1, <2>2
  <2>4. count = [s \in SUBSET S |-> count[s]]
    OBVIOUS
  <2> HIDE DEF count
  <2> QED
    BY <2>3, <2>4 DEF SumsUp
<1>8. SumsUp(CHOOSE sum : SumsUp(sum, fun, S), fun, S)
  <2> HIDE DEF count
  <2> QED
    BY <1>7, Zenon
<1>9. S \in SUBSET S
  OBVIOUS
<1> QED
  <2> HIDE DEF count, I
  <2> QED
    BY <1>6, <1>8, <1>9, SumIsOne, Zenon

-----------------------------------------------------------------------------
(* Sizes.                                                                  *)

\* g is f and has a natural number for e besides.
Extends(f, g, e) ==
  /\ IsFiniteSet(DOMAIN f) /\ e \notin DOMAIN f /\ DOMAIN g = DOMAIN f \cup {e} /\ g[e] \in Nat
  /\ \A x \in DOMAIN f : f[x] \in Nat /\ g[x] = f[x]

\* The sum of a function that has one argument more.
LEMMA SumGrows ==
  ASSUME NEW f, NEW g, NEW e, Extends(f, g, e)
  PROVE  SumFunction(g) = SumFunction(f) + g[e] /\ SumFunction(f) \in Nat
<1> DEFINE D == DOMAIN f
           F == [x \in D \cup {e} |-> 1..g[x]]
<1>0. /\ IsFiniteSet(D) /\ e \notin D /\ DOMAIN g = D \cup {e} /\ g[e] \in Nat
      /\ \A x \in D : f[x] \in Nat /\ g[x] = f[x]
  BY DEF Extends
<1>1. ASSUME NEW x \in D \cup {e}
      PROVE  IsFiniteSet(F[x]) /\ g[x] = Cardinality(F[x])
  <2>1. g[x] \in Nat /\ F[x] = 1..g[x]
    BY <1>0
  <2>2. \A n \in Nat : IsFiniteSet(1..n) /\ Cardinality(1..n) = n
    <3>1. \A n \in Int : /\ IsFiniteSet(1..n)
                         /\ Cardinality(1..n) = IF 1 > n THEN 0 ELSE n - 1 + 1
      BY FS_Interval
    <3> QED
      BY <3>1
  <2> QED
    BY <2>1, <2>2, Zenon
<1>2. IsFiniteSet(D \cup {e})
  BY <1>0, FS_AddElement
<1> HIDE DEF F, D
<1>3. /\ IsFiniteSet(Pairs(D, F)) /\ SumFunctionOnSet(f, D) = Cardinality(Pairs(D, F))
      /\ SumFunctionOnSet(g, D \cup {e}) = Cardinality(Pairs(D \cup {e}, F))
  <2>1. \A x \in D : IsFiniteSet(F[x]) /\ f[x] = Cardinality(F[x])
    BY <1>0, <1>1
  <2> QED
    BY <1>0, <1>1, <1>2, <2>1, PairsCounted
<1>4. Cardinality(Pairs(D \cup {e}, F)) = Cardinality(F[e]) + Cardinality(Pairs(D, F))
  BY <1>0, <1>1, <1>3, PairsWith
<1>5. Cardinality(Pairs(D, F)) \in Nat
  BY <1>3, FS_CardinalityType
<1>6. SumFunction(g) = SumFunctionOnSet(g, D \cup {e}) /\ SumFunction(f) = SumFunctionOnSet(f, D)
  BY <1>0 DEF SumFunction, D
<1>7. g[e] = Cardinality(F[e]) /\ g[e] \in Nat
  BY <1>0, <1>1
<1> QED
  BY <1>3, <1>4, <1>5, <1>6, <1>7

\* The bytes of a list of pieces, and of one piece more.
LEMMA BytesGrow ==
  ASSUME NEW s, IsList(s), NEW x, NEW old, NEW new, new[x].size \in Nat,
         \A y \in Elements(s) : old[y].size \in Nat /\ new[y].size = old[y].size
  PROVE  Bytes(Append(s, x), new) = Bytes(s, old) + new[x].size /\ Bytes(s, old) \in Nat
<1> DEFINE n == Len(s)
           a == Append(s, x)
           f == [i \in DOMAIN s |-> old[s[i]].size]
           g == [i \in DOMAIN a |-> new[a[i]].size]
<1>1. /\ IsList(a) /\ n \in Nat /\ Len(a) = n + 1 /\ a[n + 1] = x
      /\ \A i \in 1..n : a[i] = s[i]
  BY AppendList
<1>2. DOMAIN s = 1..n /\ DOMAIN a = 1..(n + 1)
  BY <1>1 DEF IsList
<1>3. \A i \in 1..n : s[i] \in Elements(s)
  BY DEF Elements
<1> HIDE DEF n, a
<1> PICK D, e : D = 1..n /\ e = n + 1
  OBVIOUS
<1>4. /\ DOMAIN f = D /\ DOMAIN g = D \cup {e} /\ e \notin D /\ g[e] = new[x].size
      /\ \A i \in D : f[i] \in Nat /\ g[i] = f[i]
  BY <1>1, <1>2, <1>3
<1>5. IsFiniteSet(D)
  <2>1. 1 \in Int /\ n \in Int
    BY <1>1
  <2> QED
    BY <2>1, FS_Interval
<1>6. g[e] \in Nat
  BY <1>4
<1> HIDE DEF f, g
<1>7. SumFunction(g) = SumFunction(f) + g[e] /\ SumFunction(f) \in Nat
  <2>1. Extends(f, g, e)
    BY <1>4, <1>5, <1>6 DEF Extends
  <2> QED
    BY <2>1, SumGrows
<1>8. SumFunction(g) = Bytes(a, new) /\ SumFunction(f) = Bytes(s, old)
  BY DEF f, g, Bytes
<1> QED
  BY <1>4, <1>7, <1>8 DEF a

\* The bytes of the first n calls.
AllBytes(n, made) == Bytes([c \in 1..n |-> c], made)

\* The bytes of all calls, and of one call more.
LEMMA AllBytesGrow ==
  ASSUME NEW n \in Nat, NEW old, NEW new, new[n + 1].size \in Nat,
         \A y \in 1..n : old[y].size \in Nat /\ new[y].size = old[y].size
  PROVE  AllBytes(n + 1, new) = AllBytes(n, old) + new[n + 1].size /\ AllBytes(n, old) \in Nat
<1> DEFINE f == [i \in 1..n |-> old[[c \in 1..n |-> c][i]].size]
           g == [i \in 1..(n + 1) |-> new[[c \in 1..(n + 1) |-> c][i]].size]
<1> PICK D, e : D = 1..n /\ e = n + 1
  OBVIOUS
<1>1. /\ DOMAIN f = D /\ DOMAIN g = D \cup {e} /\ e \notin D /\ g[e] = new[n + 1].size
      /\ \A i \in D : f[i] \in Nat /\ g[i] = f[i]
  OBVIOUS
<1>2. IsFiniteSet(D)
  <2>1. 1 \in Int /\ n \in Int
    OBVIOUS
  <2> QED
    BY <2>1, FS_Interval
<1>3. g[e] \in Nat
  BY <1>1
<1> HIDE DEF f, g
<1>4. SumFunction(g) = SumFunction(f) + g[e] /\ SumFunction(f) \in Nat
  <2>1. Extends(f, g, e)
    BY <1>1, <1>2, <1>3 DEF Extends
  <2> QED
    BY <2>1, SumGrows
<1>5. SumFunction(g) = AllBytes(n + 1, new) /\ SumFunction(f) = AllBytes(n, old)
  BY DEF f, g, Bytes, AllBytes
<1> QED
  BY <1>1, <1>4, <1>5

\* Pieces of other calls, and calls made later, do not matter.
LEMMA BytesSame ==
  ASSUME NEW s, IsList(s), NEW old, NEW new, \A y \in Elements(s) : new[y] = old[y]
  PROVE  /\ Bytes(s, new) = Bytes(s, old)
         /\ \A c : BytesUpTo(c, s, new) = BytesUpTo(c, s, old)
<1>1. \A i \in DOMAIN s : s[i] \in Elements(s)
  BY DEF IsList, Elements
<1>2. [i \in DOMAIN s |-> new[s[i]].size] = [i \in DOMAIN s |-> old[s[i]].size]
  BY <1>1
<1>3. ASSUME NEW c
      PROVE  BytesUpTo(c, s, new) = BytesUpTo(c, s, old)
  <2> DEFINE D == {j \in DOMAIN s : s[j] <= c}
  <2>1. [i \in D |-> new[s[i]].size] = [i \in D |-> old[s[i]].size]
    BY <1>1
  <2> QED
    BY <2>1 DEF BytesUpTo
<1> QED
  BY <1>2, <1>3 DEF Bytes

\* A piece of a later call does not count.
LEMMA UpToLater ==
  ASSUME NEW s, IsList(s), NEW c \in Int, NEW x \in Int, x > c, NEW old, NEW new,
         \A y \in Elements(s) : new[y] = old[y]
  PROVE  BytesUpTo(c, Append(s, x), new) = BytesUpTo(c, s, old)
<1> DEFINE n == Len(s)
           a == Append(s, x)
           D == {j \in DOMAIN s : s[j] <= c}
           E == {j \in DOMAIN a : a[j] <= c}
<1>1. /\ IsList(a) /\ n \in Nat /\ Len(a) = n + 1 /\ a[n + 1] = x
      /\ \A i \in 1..n : a[i] = s[i]
  BY AppendList
<1>2. DOMAIN s = 1..n /\ DOMAIN a = 1..(n + 1)
  BY <1>1 DEF IsList
<1>3. \A i \in 1..n : s[i] \in Elements(s)
  BY DEF Elements
<1> HIDE DEF n, a
<1>4. D = E
  BY <1>1, <1>2
<1>5. [i \in E |-> new[a[i]].size] = [i \in D |-> old[s[i]].size]
  BY <1>1, <1>2, <1>3, <1>4
<1> QED
  BY <1>5 DEF BytesUpTo, a

\* The last call has all pieces before it.
LEMMA UpToLast ==
  ASSUME NEW s, IsList(s), NEW c, NEW made, \A y \in Elements(s) : y <= c
  PROVE  BytesUpTo(c, s, made) = Bytes(s, made)
<1>1. \A i \in DOMAIN s : s[i] \in Elements(s)
  BY DEF IsList, Elements
<1>2. {j \in DOMAIN s : s[j] <= c} = DOMAIN s
  BY <1>1
<1> QED
  BY <1>2 DEF BytesUpTo, Bytes

\* A step that makes no call and appends nothing.
SizesRest == UNCHANGED <<realSize, logical, calls>>

\* All steps but those of the application's calls, and of clear, are such steps.
LEMMA SizesStay ==
  ASSUME RunAppend \/ RunSize \/ RunCleared \/ RunReadAll \/ RunSave \/ Handle \/ CallbackReturns
           \/ Worker \/ ReaderRuns \/ Ask \/ Stop
  PROVE  SizesRest
<1>1. CASE RunAppend \/ RunSize \/ RunCleared \/ RunReadAll \/ RunSave
  BY <1>1 DEF RunAppend, RunSize, RunCleared, RunReadAll, RunSave, SizesRest, flagVars
<1>2. CASE SwapDone \/ SwapRetry \/ SwapFailed
  BY <1>2 DEF SwapDone, SwapRetry, SwapFailed, SizesRest
<1>3. CASE OtherHandle
  <2>1. Settled
    BY <1>3 DEF OtherHandle, LocalSaved, RestSaved, MoveFailed, CopyChunk, ChunkCopied, TailSaved,
       ReadDone, ReadTmpDone
  <2> QED
    BY <2>1 DEF Settled, SizesRest
<1>4. CASE CallbackReturns \/ Worker
  BY <1>4 DEF CallbackReturns, Worker, PerformRequest, FailRequest, SizesRest, flagVars
<1>5. CASE ReaderRuns
  BY <1>5 DEF ReaderRuns, RunMake, MakeFails, RunMade, OfFile, PassOn, OfTmpFile, Cached,
     Deliver, Task, BufferRests, SizesRest, flagVars
<1>6. CASE Ask \/ Stop
  BY <1>6 DEF Ask, Stop, BufferRests, vars, flagVars, SizesRest
<1> QED
  BY <1>1, <1>2, <1>3, <1>4, <1>5, <1>6, HandleKinds

\* The empty list has no bytes.
LEMMA NoBytes ==
  ASSUME NEW made
  PROVE  Bytes(<<>>, made) = 0
<1> DEFINE f == [i \in DOMAIN <<>> |-> made[<<>>[i]].size]
<1>1. DOMAIN f = {}
  OBVIOUS
<1> HIDE DEF f
<1>2. SumFunction(f) = 0
  <2>1. Pairs({}, f) = {}
    BY DEF Pairs
  <2>2. SumFunctionOnSet(f, {}) = Cardinality(Pairs({}, f))
    BY FS_EmptySet, PairsCounted
  <2> QED
    BY <1>1, <2>1, <2>2, FS_EmptySet DEF SumFunction
<1> QED
  BY <1>2 DEF Bytes, f

\* An append of a chunk.
AppCallOf(size) ==
  AppendInMemory(size) \/ AppendHuge(size) \/ AppendAndSwap(size) \/ AppendDuringSwap(size)

\* A new call of n bytes, and its chunk if it is an append.
LEMMA CallSizes ==
  ASSUME TokenInv, SizeInv, NEW op, NEW size \in Nat, MayCall(op, size),
         \/ op = "append" /\ logical' = Append(logical, New) /\ realSize' = realSize + size
         \/ UNCHANGED <<logical, realSize>>
  PROVE  SizeInv'
<1>0. Len(calls) \in Nat /\ New = Len(calls) + 1 /\ IsList(logical)
  BY DEF TokenInv, Lists, New, SizeInv
<1> PICK n \in Nat : n = Len(calls)
  BY <1>0
<1> PICK new : new = calls'
  OBVIOUS
<1>1. /\ NewCall /\ new[n + 1] = [op |-> op, size |-> size]
      /\ \A c \in 1..n : new[c] = calls[c]
      /\ 1..Len(calls') = (1..n) \cup {n + 1} /\ Len(calls') = n + 1
  <2>1. NewCall /\ new[n + 1] = [op |-> op, size |-> size]
    BY <1>0, CalledIs DEF TokenInv
  <2>2. \A c \in 1..n : new[c] = calls[c]
    BY <2>1, Called DEF TokenInv
  <2>3. 1..Len(calls') = (1..n) \cup {n + 1}
    BY <2>1, <1>0, Called DEF TokenInv
  <2>4. Len(calls') = n + 1
    BY <2>1, AppendList DEF TokenInv, Lists, NewCall
  <2> QED
    BY <2>1, <2>2, <2>3, <2>4
<1>2. new[n + 1].size = size
  BY <1>1
<1>3. \A c \in 1..Len(calls') : calls'[c].size \in Nat
  BY <1>1, <1>2 DEF SizeInv
<1>4. \A y \in Elements(logical) : calls[y].size \in Nat /\ new[y] = calls[y]
  BY <1>1 DEF SizeInv
<1> PICK b, all : b = Bytes(logical, calls) /\ all = AllBytes(n, calls)
  OBVIOUS
<1>5. AllBytes(n + 1, new) = all + size /\ all \in Nat
  <2> DEFINE Q == AllBytes(n, calls)
             R == AllBytes(n + 1, new)
  <2>1. new[n + 1].size \in Nat /\ \A y \in 1..n : calls[y].size \in Nat /\ new[y].size = calls[y].size
    BY <1>1, <1>2 DEF SizeInv
  <2>2. R = Q + new[n + 1].size /\ Q \in Nat
    BY <2>1, AllBytesGrow
  <2>3. all = Q
    OBVIOUS
  <2> HIDE DEF Q, R
  <2>4. R = all + size /\ all \in Nat
    BY <1>2, <2>2, <2>3
  <2> QED
    BY <2>4 DEF R
<1>6. realSize = b /\ b <= all
  BY DEF SizeInv, AllBytes
<1>7. CASE op = "append" /\ logical' = Append(logical, New) /\ realSize' = realSize + size
  <2>1. IsList(logical') /\ Elements(logical') = Elements(logical) \cup {n + 1}
    BY <1>0, <1>7, AppendList
  <2>2. Bytes(logical', new) = b + size /\ b \in Nat
    <3> PICK k : k = n + 1
      OBVIOUS
    <3>1. logical' = Append(logical, k) /\ new[k].size = size
      BY <1>0, <1>2, <1>7
    <3>2. \A y \in Elements(logical) : calls[y].size \in Nat /\ new[y].size = calls[y].size
      BY <1>4
    <3>3. IsList(logical) /\ new[k].size \in Nat
      BY <1>0, <3>1
    <3>4. Bytes(Append(logical, k), new) = Bytes(logical, calls) + new[k].size /\ Bytes(logical, calls) \in Nat
      BY <3>2, <3>3, BytesGrow
    <3> QED
      BY <3>1, <3>4
  <2>3. realSize' = b + size /\ b + size <= all + size
    BY <1>5, <1>6, <1>7, <2>2
  <2>4. Elements(logical') \subseteq 1..Len(calls')
    BY <1>1, <2>1 DEF SizeInv
  <2> QED
    BY <1>1, <1>3, <1>5, <2>1, <2>2, <2>3, <2>4 DEF SizeInv, AllBytes
<1>8. CASE UNCHANGED <<logical, realSize>>
  <2>1. Bytes(logical', new) = b
    BY <1>0, <1>4, <1>8, BytesSame
  <2>2. b <= all + size
    <3>1. b \in Nat
      <4>1. \A y \in Elements(logical) \cup {n + 1} : new[y].size \in Nat
        BY <1>2, <1>4
      <4>2. \A y \in Elements(logical) : calls[y].size \in Nat /\ new[y].size = calls[y].size
        BY <1>4
      <4> QED
        BY <1>0, <4>1, <4>2, BytesGrow
    <3> QED
      BY <1>5, <1>6, <3>1
  <2>3. Elements(logical') \subseteq 1..Len(calls')
    BY <1>1, <1>8 DEF SizeInv
  <2> QED
    BY <1>0, <1>1, <1>3, <1>5, <1>6, <1>8, <2>1, <2>2, <2>3 DEF SizeInv, AllBytes
<1> QED
  BY <1>7, <1>8

\* Every step preserves SizeInv.
LEMMA SizeStep ==
  ASSUME TokenInv, SizeInv,
         \/ AppCall \/ Enqueue("make_chunked_stream")
         \/ Run \/ Handle \/ CallbackReturns \/ Worker
         \/ ReaderRuns \/ Ask \/ Stop
  PROVE  SizeInv'
<1>1. ASSUME NEW size \in Sizes, AppCallOf(size)
      PROVE  SizeInv'
  <2>1. size \in Nat
    BY SwappingBufferAssumption
  <2>2. MayCall("append", size) /\ logical' = Append(logical, New) /\ realSize' = realSize + size
    BY <1>1 DEF AppCallOf, AppendInMemory, AppendHuge, AppendAndSwap, AppendDuringSwap, AppendCall
  <2> QED
    BY <2>1, <2>2, CallSizes
<1>2. ASSUME NEW op, Enqueue(op)
      PROVE  SizeInv'
  <2>1. MayCall(op, 0) /\ UNCHANGED <<logical, realSize>>
    BY <1>2 DEF Enqueue, flagVars
  <2> QED
    BY <2>1, CallSizes
<1>3. CASE RunClear
  <2>1. logical' = <<>> /\ realSize' = 0 /\ UNCHANGED calls
    BY <1>3 DEF RunClear
  <2>2. Bytes(logical', calls) = 0 /\ IsList(<<>>) /\ Elements(<<>>) = {}
    BY <2>1, NoBytes, EmptyList
  <2>3. 0 <= AllBytes(Len(calls), calls)
    <3> PICK n \in Nat : n = Len(calls)
      BY DEF TokenInv, Lists
    <3> PICK all : all = AllBytes(n, calls)
      OBVIOUS
    <3>1. all \in Nat
      <4> DEFINE new == [c \in 1..(n + 1) |-> IF c = n + 1 THEN [size |-> 0] ELSE calls[c]]
      <4>1. new[n + 1].size \in Nat /\ \A y \in 1..n : calls[y].size \in Nat /\ new[y].size = calls[y].size
        BY DEF SizeInv
      <4> HIDE DEF new
      <4> QED
        BY <4>1, AllBytesGrow
    <3> QED
      BY <3>1
  <2> QED
    BY <2>1, <2>2, <2>3 DEF SizeInv, AllBytes
<1>4. CASE SizesRest
  BY <1>4 DEF SizesRest, SizeInv
<1> QED
  BY <1>1, <1>2, <1>3, <1>4, SizesStay DEF AppCall, AppCallOf, Run

-----------------------------------------------------------------------------
(* The sizes that append and size report.                                  *)

\* A new call leaves the sizes up to the calls before it alone.
LEMMA SentStays ==
  ASSUME TokenInv, SizeInv, NewCall, logical' = Append(logical, New) \/ UNCHANGED logical,
         NEW r, r.call \in 1..Len(calls), Sent(r)
  PROVE  Sent(r)'
<1> PICK n, new, c : n = New /\ new = calls' /\ c = r.call
  OBVIOUS
<1>1. n \in Int /\ c \in Int /\ n > c /\ \A d \in 1..Len(calls) : new[d] = calls[d]
  <2>1. Len(calls) \in Nat /\ n = Len(calls) + 1
    BY DEF TokenInv, Lists, New
  <2>2. \A d \in 1..Len(calls) : new[d] = calls[d]
    BY Called DEF TokenInv
  <2> QED
    BY <2>1, <2>2
<1>2. IsList(logical) /\ \A y \in Elements(logical) : new[y] = calls[y]
  BY <1>1 DEF SizeInv
<1>3. CASE logical' = Append(logical, New)
  <2>1. BytesUpTo(c, Append(logical, n), new) = BytesUpTo(c, logical, calls)
    BY <1>1, <1>2, UpToLater
  <2> QED
    BY <1>3, <2>1 DEF Sent
<1>4. CASE UNCHANGED logical
  <2>1. BytesUpTo(c, logical, new) = BytesUpTo(c, logical, calls)
    BY <1>2, BytesSame
  <2> QED
    BY <1>4, <2>1 DEF Sent
<1> QED
  BY <1>3, <1>4

\* Every piece is that of a call made before.
LEMMA PiecesBefore ==
  ASSUME TokenInv, SizeInv, NewCall, logical' = Append(logical, New)
  PROVE  \A p \in Elements(logical') : p <= New
<1>1. Len(calls) \in Nat /\ New = Len(calls) + 1 /\ Elements(logical') = Elements(logical) \cup {New}
  BY AppendList DEF TokenInv, Lists, New, SizeInv
<1> QED
  BY <1>1 DEF SizeInv

\* The calls of the application preserve SentInv.
LEMMA AppCallSent ==
  ASSUME TokenInv, RequestInv, AnswerInv, OverlapInv, SwapInv, SizeInv, SizeInv', SentInv, SwapsAwaited,
         AppCall \/ Enqueue("make_chunked_stream")
  PROVE  SentInv'
<1>1. /\ \A r \in SwapRequests : r.call \in 1..Len(calls)
      /\ \A t \in SwapHandlers : t.request.call \in 1..Len(calls)
  BY RequestsOfOldCalls DEF SwapRequests, SwapHandlers
<1>2. ASSUME NewCall, logical' = Append(logical, New) \/ UNCHANGED logical,
             SwapRequests' = SwapRequests, SwapHandlers' = SwapHandlers
      PROVE  (\A r \in SwapRequests' : Sent(r)') /\ (\A t \in SwapHandlers' : Sent(t.request)')
  BY <1>1, <1>2, SentStays DEF SentInv
<1>3. ASSUME NEW size \in Sizes, AppCallOf(size)
      PROVE  SentInv'
  <2>1. MayCall("append", size) /\ logical' = Append(logical, New)
    BY <1>3 DEF AppCallOf, AppendInMemory, AppendHuge, AppendAndSwap, AppendDuringSwap, AppendCall
  <2>2. NewCall
    BY <2>1, CalledIs DEF TokenInv
  <2>3. callbacks = <<>> /\ PostedOperations = {} /\ (Unanswered = {} \/ size <= maxBufferSize)
    BY <2>1, AppendAllowed
  <2>4. Queued = {}
    BY <2>3, EmptyList DEF Queued
  <2>5. \A p \in Elements(logical') : p <= New
    BY <2>1, <2>2, PiecesBefore
  <2>6. CASE AppendInMemory(size)
    <3>1. SwapRequests' = SwapRequests /\ SwapHandlers' = SwapHandlers /\ Queued' = {}
      BY <2>4, <2>6 DEF AppendInMemory, queueVars, SwapRequests, SwapHandlers, Queued, PostedOperations
    <3> QED
      BY <1>2, <2>1, <2>2, <3>1 DEF SentInv
  <2>7. CASE AppendHuge(size) \/ AppendAndSwap(size)
    <3>1. ~swapping
      <4>1. CASE AppendAndSwap(size)
        BY <4>1 DEF AppendAndSwap
      <4>2. CASE AppendHuge(size)
        <5>1. ~(size <= maxBufferSize)
          BY <4>2, SwappingBufferAssumption DEF AppendHuge
        <5> QED
          BY <2>3, <5>1, SwappingUnanswered
      <4> QED
        BY <2>7, <4>1, <4>2
    <3>2. PICK r : fs' = Append(fs, r) /\ r.call = New /\ r.n = realSize'
      BY <2>7 DEF AppendHuge, AppendAndSwap, startSwapping, swappingOperation, Submit, Request
    <3>3. SwapRequests = {} /\ SwapHandlers = {} /\ UNCHANGED <<callbacks, io_>>
      BY <2>7, <3>1 DEF SwapInv, AppendHuge, AppendAndSwap
    <3>4. \A s \in SwapRequests' : s = r
      BY <3>2, <3>3, FsSets DEF SwapRequests
    <3>5. SwapHandlers' = {} /\ Queued' = {}
      BY <2>4, <3>3 DEF SwapHandlers, Queued, PostedOperations
    <3>6. Sent(r)'
      <4> PICK c, new, l : c = New /\ new = calls' /\ l = logical'
        OBVIOUS
      <4>1. IsList(l) /\ \A y \in Elements(l) : y <= c
        BY <2>5 DEF SizeInv
      <4>2. BytesUpTo(c, l, new) = Bytes(l, new)
        BY <4>1, UpToLast
      <4> QED
        BY <3>2, <4>2 DEF Sent, SizeInv
    <3> QED
      BY <3>4, <3>5, <3>6 DEF SentInv
  <2>8. CASE AppendDuringSwap(size)
    <3>1. UNCHANGED fs /\ enqueueAndRun(New)
      BY <2>8 DEF AppendDuringSwap
    <3>2. SwapRequests' = SwapRequests /\ SwapHandlers' = SwapHandlers /\ Queued' = {New}
      BY <2>4, <3>1, EnqueueSets DEF SwapRequests
    <3> QED
      BY <1>2, <2>1, <2>2, <2>5, <3>2 DEF SentInv
  <2> QED
    BY <1>3, <2>6, <2>7, <2>8 DEF AppCallOf
<1>4. ASSUME NEW op, op # "append", Enqueue(op)
      PROVE  SentInv'
  <2>1. MayCall(op, 0) /\ UNCHANGED <<logical, fs>> /\ enqueueAndRun(New)
    BY <1>4 DEF Enqueue
  <2>2. NewCall /\ calls'[New] = [op |-> op, size |-> 0]
    BY <2>1, CalledIs DEF TokenInv
  <2>3. SwapRequests' = SwapRequests /\ SwapHandlers' = SwapHandlers /\ Queued' = Queued \cup {New}
    BY <2>1, EnqueueSets DEF SwapRequests
  <2>4. \A c \in Queued : calls'[c] = calls[c]
    <3>1. \A c \in Queued : c \in 1..Len(calls)
      BY QueuedUnanswered DEF Unanswered
    <3> QED
      BY <2>2, <3>1, Called DEF TokenInv
  <2>5. calls'[New].op # "append"
    BY <1>4, <2>2
  <2> QED
    BY <1>2, <2>1, <2>2, <2>3, <2>4, <2>5 DEF SentInv
<1> QED
  BY <1>3, <1>4 DEF AppCall, AppCallOf

\* The other steps preserve SentInv.
LEMMA OtherSent ==
  ASSUME TokenInv, RequestInv, KindInv, OverlapInv, SwapInv, SizeInv, SentInv, SwapsAwaited,
         Run \/ Handle \/ CallbackReturns \/ Worker \/ ReaderRuns \/ Ask \/ Stop
  PROVE  SentInv'
<1>1. ASSUME SizesRest, SwapRequests' \subseteq SwapRequests, SwapHandlers' \subseteq SwapHandlers,
             Queued' \subseteq Queued
      PROVE  SentInv'
  BY <1>1 DEF SizesRest, SentInv, Sent
<1>2. ASSUME Quiet, SizesRest
      PROVE  SentInv'
  <2>1. Queued' \subseteq Queued
    BY <1>2 DEF Quiet, Queued
  <2> QED
    BY <1>1, <1>2, <2>1 DEF Quiet
<1>3. CASE RunAppend
  <2>1. /\ SwapHandlers = {} /\ SwapRequests = {} /\ SwapHandlers' = {}
    BY <1>3, RunAppendSwaps
  <2>2. /\ io_ # <<>> /\ Head(io_).task = "operation" /\ calls[Turn].op = "append" /\ io_' = Tail(io_)
        /\ UNCHANGED callbacks
    BY <1>3 DEF RunAppend, Running, Turn
  <2>3. PICK r : fs' = Append(fs, r) /\ r.call = Turn /\ r.n = realSize'
    BY <1>3 DEF RunAppend, startSwapping, swappingOperation, Submit, Request
  <2>4. \A s \in SwapRequests' : s = r
    BY <2>1, <2>3, FsSets DEF SwapRequests
  <2>5. SizesRest
    BY <1>3, SizesStay
  <2>6. Turn \in Queued /\ Queued' \subseteq Queued
    <3>1. Head(io_) \in Elements(io_)
      BY <2>2, HeadOfIo
    <3>2. Elements(io_') \subseteq Elements(io_)
      BY <2>2, IoSets
    <3> QED
      BY <2>2, <3>1, <3>2 DEF Queued, PostedOperations, Turn
  <2>7. Sent(r)'
    <3> PICK c : c = Turn
      OBVIOUS
    <3>1. IsList(logical) /\ \A y \in Elements(logical) : y <= c
      BY <2>2, <2>6 DEF SizeInv, SentInv
    <3>2. BytesUpTo(c, logical, calls) = Bytes(logical, calls)
      BY <3>1, UpToLast
    <3> QED
      BY <2>3, <2>5, <3>2 DEF Sent, SizeInv, SizesRest
  <2> QED
    BY <2>1, <2>4, <2>5, <2>6, <2>7 DEF SentInv, SizesRest
<1>4. CASE RunClear
  <2>1. io_ # <<>> /\ Head(io_).task = "operation" /\ logical' = <<>>
    BY <1>4 DEF RunClear, Running
  <2>2. Head(io_) \in PostedOperations
    BY <2>1, HeadOfIo DEF PostedOperations
  <2>3. SwapRequests = {} /\ SwapHandlers = {}
    BY <2>2 DEF SwapInv
  <2>4. SwapRequests' = {} /\ SwapHandlers' = {}
    BY <1>4, <2>3, QuietRun DEF Quiet
  <2>5. Elements(logical') = {}
    BY <2>1, EmptyList
  <2> QED
    BY <2>4, <2>5 DEF SentInv
<1>5. CASE RunSize \/ RunCleared \/ RunReadAll \/ RunSave
  BY <1>2, <1>5, QuietRun, SizesStay
<1>6. CASE OtherHandle
  BY <1>2, <1>6, QuietHandle, SizesStay DEF OtherHandle, Handle
<1>7. CASE SwapDone \/ SwapRetry \/ SwapFailed
  <2>1. Handling("swap") /\ UNCHANGED callbacks /\ SizesRest
    BY <1>7, SizesStay DEF SwapDone, SwapRetry, SwapFailed, Handle
  <2>2. /\ SwapHandlers = {Head(io_)} /\ SwapRequests = {} /\ SwapHandlers' = {} /\ PostedOperations' = {}
    BY <2>1, SwapHandled
  <2>3. Queued' \subseteq Queued
    BY <2>1, <2>2 DEF Queued
  <2>4. CASE UNCHANGED fs
    <3>1. SwapRequests' = {}
      BY <2>2, <2>4 DEF SwapRequests
    <3> QED
      BY <1>1, <2>1, <2>2, <2>3, <3>1
  <2>5. CASE SwapRetry
    <3>1. PICK r : fs' = Append(fs, r) /\ r.call = Turn /\ r.n = Head(io_).request.n
      BY <2>5 DEF SwapRetry, swappingOperation, Submit, Request
    <3>2. \A s \in SwapRequests' : s = r
      BY <2>2, <3>1, FsSets DEF SwapRequests
    <3>3. Head(io_).request.call = Turn
      BY <2>2 DEF RequestInv, SwapHandlers, Turn
    <3>4. Sent(r)
      BY <2>2, <3>1, <3>3 DEF SentInv, Sent
    <3> QED
      BY <2>1, <2>2, <2>3, <3>2, <3>4 DEF SentInv, Sent, SizesRest
  <2> QED
    BY <1>7, <2>4, <2>5 DEF SwapDone, SwapFailed
<1>8. CASE CallbackReturns
  <2>1. SwapRequests' = SwapRequests /\ SwapHandlers' = SwapHandlers
    BY <1>8, CallbackSwaps
  <2>2. Queued' = Queued
    BY <1>8, CallbackQueued
  <2> QED
    BY <1>1, <1>8, <2>1, <2>2, SizesStay
<1>9. CASE Worker
  <2>1. SizesRest
    BY <1>9, SizesStay
  <2>2. CASE Head(fs).step # "swap"
    BY <1>2, <1>9, <2>1, <2>2, QuietWorker
  <2>3. CASE Head(fs).step = "swap"
    <3>1. \E code, data : Handler(Head(fs), code, data)
      BY <1>9 DEF Worker, PerformRequest, FailRequest
    <3>2. /\ Head(fs) \in SwapRequests /\ SwapRequests' = {}
          /\ \E t : SwapHandlers' = {t} /\ t.request = Head(fs)
      BY <1>9, <2>3, <3>1, WorkerSwaps
    <3>3. Queued' \subseteq Queued
      <4>1. UNCHANGED callbacks /\ PostedOperations' \subseteq PostedOperations
        <5>1. PICK t : t.task = "handler" /\ io_' = Append(io_, t)
          BY <3>1 DEF Handler
        <5>2. Elements(io_') = Elements(io_) \cup {t}
          BY <5>1, AppendList DEF TokenInv, Lists
        <5> QED
          BY <1>9, <5>1, <5>2 DEF PostedOperations, Worker, PerformRequest, FailRequest
      <4> QED
        BY <4>1 DEF Queued
    <3> QED
      BY <2>1, <3>2, <3>3 DEF SentInv, Sent, SizesRest
  <2> QED
    BY <2>2, <2>3
<1>10. CASE ReaderRuns \/ Ask \/ Stop
  BY <1>2, <1>10, QuietReader, SizesStay
<1> QED
  BY <1>3, <1>4, <1>5, <1>6, <1>7, <1>8, <1>9, <1>10, HandleKinds DEF Run

-----------------------------------------------------------------------------
(* What append and size answer.                                            *)

\* A new buffer is empty.
LEMMA SizesInitially == ReadersInit => SizeInv /\ SentInv
<1> SUFFICES ASSUME Init
             PROVE  SizeInv /\ SentInv
  BY DEF ReadersInit
<1>1. /\ callbacks = <<>> /\ io_ = <<>> /\ fs = <<>> /\ calls = <<>> /\ logical = <<>> /\ realSize = 0
  BY DEF Init
<1>2. Elements(callbacks) = {} /\ Elements(io_) = {} /\ Elements(fs) = {} /\ Len(calls) = 0
  BY <1>1, EmptyList
<1>3. SwapRequests = {} /\ SwapHandlers = {} /\ Queued = {}
  BY <1>2 DEF SwapRequests, SwapHandlers, PostedOperations, Queued
<1>4. SentInv
  BY <1>3 DEF SentInv
<1>5. IsList(logical) /\ Elements(logical) = {} /\ Bytes(logical, calls) = 0
  BY <1>1, EmptyList, NoBytes
<1>6. Bytes([c \in 1..Len(calls) |-> c], calls) = 0
  <2> DEFINE none == [c \in 1..0 |-> c]
  <2>1. none = <<>>
    OBVIOUS
  <2>2. Bytes(none, calls) = 0
    BY <2>1, NoBytes
  <2> QED
    BY <1>2, <2>2
<1>7. 1..Len(calls) = {}
  BY <1>2
<1> PICK n : n = Bytes([c \in 1..Len(calls) |-> c], calls)
  OBVIOUS
<1>8. n = 0 /\ 0 <= n
  BY <1>6
<1>9. SizeInv
  BY <1>1, <1>5, <1>7, <1>8 DEF SizeInv
<1> QED
  BY <1>4, <1>9

\* The sizes are exact in every state.
SizesInv == IInv /\ SizeInv /\ (SwapsAwaited => SentInv)

\* Every step preserves SizesInv.
LEMMA SizesStep ==
  ASSUME SizesInv, [ReadersStep]_allVars
  PROVE  SizesInv'
<1>1. IInv'
  BY ReadersSteps, StepKeeps, StutterKeeps DEF allVars, SizesInv
<1>2. /\ TokenInv /\ RequestInv /\ AnswerInv /\ KindInv /\ SizeInv
      /\ SwapsAwaited => OverlapInv /\ SwapInv /\ SentInv
  BY DEF SizesInv, IInv, CallInv
<1>3. CASE UNCHANGED vars
  <2>1. SizesRest /\ UNCHANGED <<callbacks, io_, fs>>
    BY <1>3 DEF vars, flagVars, queueVars, SizesRest
  <2>2. SizeInv'
    BY <1>2, <2>1 DEF SizesRest, SizeInv
  <2>3. SwapsAwaited => SentInv'
    BY <1>2, <2>1 DEF SizesRest, SentInv, Sent, SwapRequests, SwapHandlers, Queued, PostedOperations
  <2> QED
    BY <1>1, <2>2, <2>3 DEF SizesInv
<1>4. CASE AppCall \/ Enqueue("make_chunked_stream")
  <2>1. SizeInv'
    BY <1>2, <1>4, SizeStep
  <2>2. SwapsAwaited => SentInv'
    BY <1>2, <1>4, <2>1, AppCallSent
  <2> QED
    BY <1>1, <2>1, <2>2 DEF SizesInv
<1>5. CASE Run \/ Handle \/ CallbackReturns \/ Worker \/ ReaderRuns \/ Ask \/ Stop
  <2>1. SizeInv'
    BY <1>2, <1>5, SizeStep
  <2>2. SwapsAwaited => SentInv'
    BY <1>2, <1>5, OtherSent
  <2> QED
    BY <1>1, <2>1, <2>2 DEF SizesInv
<1> QED
  BY <1>3, <1>4, <1>5, ReadersSteps DEF allVars

\* SizesInv holds in every state until an exception gets out.
LEMMA SizesAlways == ReadersSpec => [](Alive => SizesInv)
<1>1. ReadersInit => (Alive => SizesInv)
  BY IInvInitially, SizesInitially DEF SizesInv
<1>2. (Alive => SizesInv) /\ [ReadersNext]_allVars => (Alive => SizesInv)'
  BY UntilThrown, SizesStep
<1> QED
  BY <1>1, <1>2, PTL DEF ReadersSpec

\* A call is told its size.
SizeTold(c, a) ==
  a.ok => /\ calls[c].op = "append" => a.size = BytesUpTo(c, logical, calls) % Uint32
          /\ calls[c].op = "size" => a.size = Bytes(logical, calls) % Uint32

\* A step that answers at most the call whose turn it is, and tells it the size.
SizeTells ==
  \/ UNCHANGED answers
  \/ \E a : /\ io_ # <<>> /\ Own(Head(io_)) /\ Answer(Turn, a)
            /\ SizeTold(Turn, a) /\ UNCHANGED <<logical, calls>>
  \/ io_ # <<>> /\ Own(Head(io_)) /\ answers' = [answers EXCEPT ![Turn] = @ \o <<Failed, Done>>]

\* An answer that is no size, or is a failure.
LEMMA SizeToldOther ==
  ASSUME NEW c, NEW a, calls[c].op \notin {"append", "size"} \/ a = Failed
  PROVE  SizeTold(c, a)
BY DEF SizeTold, Failed

\* What a call is told in a step that is no call of the application.
LEMMA StepSizes ==
  ASSUME TokenInv, RequestInv, KindInv, SizeInv, SwapInv, SentInv,
         Run \/ Handle \/ CallbackReturns \/ Worker \/ ReaderRuns \/ Ask \/ Stop
  PROVE  SizeTells
<1>1. CASE RunAppend \/ RunClear \/ CallbackReturns \/ Worker
  BY <1>1 DEF RunAppend, RunClear, CallbackReturns, Worker, PerformRequest, FailRequest, SizeTells
<1>2. CASE RunSize
  <2>1. /\ io_ # <<>> /\ Own(Head(io_)) /\ calls[Turn].op = "size" /\ Answer(Turn, Size(realSize))
        /\ UNCHANGED <<logical, calls>>
    BY <1>2 DEF RunSize, Running, Own, Turn
  <2>2. SizeTold(Turn, Size(realSize))
    BY <2>1 DEF SizeTold, Size, SizeInv
  <2> QED
    BY <2>1, <2>2 DEF SizeTells
<1>3. CASE RunCleared
  <2>1. io_ # <<>> /\ Head(io_).task = "cleared" /\ Answer(Turn, Done) /\ UNCHANGED <<logical, calls>>
    BY <1>3 DEF RunCleared
  <2>2. calls[Turn].op = "clear" /\ Own(Head(io_))
    BY <2>1, HeadOfIo DEF KindInv, TaskOp, Own, Turn
  <2> QED
    BY <2>1, <2>2, SizeToldOther DEF SizeTells
<1>4. CASE RunReadAll \/ RunSave
  <2>1. /\ io_ # <<>> /\ Own(Head(io_)) /\ calls[Turn].op \in {"readAll", "save"}
        /\ UNCHANGED answers \/ (\E a : Answer(Turn, a))
        /\ UNCHANGED <<logical, calls>>
    BY <1>4 DEF RunReadAll, RunSave, Running, Own, Turn
  <2> QED
    BY <2>1, SizeToldOther DEF SizeTells
<1>5. CASE SwapDone
  <2>1. Handling("swap") /\ Answer(Turn, Size(Head(io_).request.n)) /\ UNCHANGED <<logical, calls>>
    BY <1>5 DEF SwapDone
  <2>2. io_ # <<>> /\ Own(Head(io_)) /\ calls[Turn].op = "append"
    BY <2>1, HandlingOp DEF OpOf
  <2>3. Head(io_) \in SwapHandlers
    BY <2>1, HeadOfIo DEF Handling, SwapHandlers
  <2>4. Sent(Head(io_).request) /\ Head(io_).request.call = Turn
    BY <2>3 DEF SentInv, RequestInv, SwapHandlers, Turn
  <2>5. SizeTold(Turn, Size(Head(io_).request.n))
    BY <2>2, <2>4 DEF SizeTold, Size, Sent
  <2> QED
    BY <2>1, <2>2, <2>5 DEF SizeTells
<1>6. CASE SwapRetry \/ SwapFailed
  <2>1. Handling("swap") /\ (UNCHANGED answers \/ Answer(Turn, Failed)) /\ UNCHANGED <<logical, calls>>
    BY <1>6 DEF SwapRetry, SwapFailed
  <2>2. io_ # <<>> /\ Own(Head(io_))
    BY <2>1, HandlingOp
  <2> QED
    BY <2>1, <2>2, SizeToldOther DEF SizeTells
<1>7. CASE OtherHandle
  <2>1. Settled /\ \E step \in SaveSteps \cup {"read", "read_tmp"} : Handling(step)
    BY <1>7 DEF OtherHandle, LocalSaved, RestSaved, MoveFailed, CopyChunk, ChunkCopied, TailSaved,
       ReadDone, ReadTmpDone, SaveSteps
  <2>2. io_ # <<>> /\ Own(Head(io_)) /\ calls[Turn].op \in {"readAll", "save"}
    BY <2>1, HandlingOp DEF OpOf, SaveSteps
  <2>3. \/ UNCHANGED answers \/ \E a : Answer(Turn, a)
        \/ answers' = [answers EXCEPT ![Turn] = @ \o <<Failed, Done>>]
    <3>1. CASE TailSaved
      <4>1. \/ answers' = [answers EXCEPT ![Turn] = @ \o <<Done>>]
            \/ answers' = [answers EXCEPT ![Turn] = @ \o <<Failed, Done>>]
        BY <3>1 DEF TailSaved
      <4>2. answers' = [answers EXCEPT ![Turn] = @ \o <<Done>>] => Answer(Turn, Done)
        <5>1. answers[Turn] = <<>>
          BY <2>2, HeadOfIo
        <5>2. <<>> \o <<Done>> = Append(<<>>, Done)
          OBVIOUS
        <5> QED
          BY <5>1, <5>2 DEF Answer
      <4> QED
        BY <4>1, <4>2
    <3>2. CASE LocalSaved \/ RestSaved \/ MoveFailed \/ CopyChunk \/ ChunkCopied \/ ReadDone \/ ReadTmpDone
      BY <3>2 DEF LocalSaved, RestSaved, MoveFailed, CopyChunk, ChunkCopied, ReadDone, ReadTmpDone
    <3> QED
      BY <1>7, <3>1, <3>2 DEF OtherHandle
  <2> QED
    BY <2>1, <2>2, <2>3, SizeToldOther DEF SizeTells, Settled
<1>8. CASE ReaderRuns
  <2>1. CASE RunMake \/ OfFile \/ PassOn \/ OfTmpFile \/ Cached \/ Deliver
    BY <2>1 DEF RunMake, OfFile, PassOn, OfTmpFile, Cached, Deliver, Task, BufferRests, SizeTells
  <2>2. CASE MakeFails
    <3>1. io_ # <<>> /\ Own(Head(io_)) /\ Answer(Turn, Failed) /\ UNCHANGED <<logical, calls>>
      BY <2>2 DEF MakeFails, Running, Own
    <3> QED
      BY <3>1, SizeToldOther DEF SizeTells
  <2>3. CASE RunMade
    <3>1. io_ # <<>> /\ Head(io_).task = "made" /\ Answer(Turn, Done) /\ UNCHANGED <<logical, calls>>
      BY <2>3 DEF RunMade
    <3>2. calls[Turn].op = "make_chunked_stream" /\ Own(Head(io_))
      BY <3>1, HeadOfIo DEF KindInv, TaskOp, Own, Turn
    <3> QED
      BY <3>1, <3>2, SizeToldOther DEF SizeTells
  <2> QED
    BY <1>8, <2>1, <2>2, <2>3 DEF ReaderRuns
<1>9. CASE Ask \/ Stop
  BY <1>9 DEF Ask, Stop, BufferRests, vars, SizeTells
<1> QED
  BY <1>1, <1>2, <1>3, <1>4, <1>5, <1>6, <1>7, <1>8, <1>9, HandleKinds DEF Run

\* The size a call has been told.
SizeGiven(c, op) ==
  /\ op = "append" => Given(c).size = BytesUpTo(c, logical', calls') % Uint32
  /\ op = "size" => Given(c).size = Bytes(logical', calls') % Uint32

\* A call that comes to have its only answer in such a step has been told its size.
LEMMA TellsSize ==
  ASSUME TokenInv, SizeTells, UNCHANGED calls, NEW c \in 1..Len(calls), NEW op, Replies(c, op)
  PROVE  SizeGiven(c, op)
<1>1. c \in Ids /\ DOMAIN answers = Ids /\ answers' # answers
  <2>1. c \in Ids /\ DOMAIN answers = Ids
    BY SwappingBufferAssumption DEF TokenInv, Lists, Ids
  <2> QED
    BY <2>1 DEF Replies
<1>2. /\ answers'[c] # answers[c] /\ Len(answers'[c]) = 1 /\ calls[c].op = op /\ Given(c).ok
  BY DEF Replies
<1>3. ASSUME NEW a, io_ # <<>>, Own(Head(io_)), Answer(Turn, a), SizeTold(Turn, a),
             UNCHANGED <<logical, calls>>
      PROVE  SizeGiven(c, op)
  <2>1. c = Turn
    BY <1>1, <1>2, <1>3 DEF Answer
  <2>2. answers[Turn] = <<>>
    BY <1>3, HeadOfIo
  <2>3. answers'[c] = Append(<<>>, a)
    BY <1>1, <1>3, <2>1, <2>2 DEF Answer
  <2>4. Append(<<>>, a)[1] = a
    OBVIOUS
  <2>5. Given(c) = a
    BY <2>3, <2>4 DEF Given
  <2> QED
    BY <1>2, <1>3, <2>1, <2>5 DEF SizeTold, SizeGiven
<1>4. ASSUME io_ # <<>>, Own(Head(io_)), answers' = [answers EXCEPT ![Turn] = @ \o <<Failed, Done>>]
      PROVE  FALSE
  <2>1. c = Turn
    BY <1>1, <1>2, <1>4
  <2>2. answers[Turn] = <<>>
    BY <1>4, HeadOfIo
  <2>3. answers'[c] = <<>> \o <<Failed, Done>>
    BY <1>1, <1>4, <2>1, <2>2
  <2>4. Len(<<>> \o <<Failed, Done>>) = 2
    OBVIOUS
  <2> QED
    BY <1>2, <2>3, <2>4
<1> QED
  BY <1>1, <1>3, <1>4 DEF SizeTells

\* An append that fits into memory is told the size at once.
LEMMA CallTellsSize ==
  ASSUME TokenInv, AnswerInv, SizeInv, SizeInv', AppCall \/ Enqueue("make_chunked_stream"),
         NEW c \in 1..Len(calls'), NEW op, Replies(c, op)
  PROVE  SizeGiven(c, op)
<1>1. c \in 1..Len(calls) => answers'[c] = answers[c]
  BY CallTells
<1>2. c \notin 1..Len(calls) /\ answers' # answers
  BY <1>1 DEF Replies
<1>3. ASSUME NEW size \in Sizes, AppendInMemory(size)
      PROVE  SizeGiven(c, op)
  <2>1. /\ MayCall("append", size) /\ logical' = Append(logical, New)
        /\ Answer(New, Size(realSize'))
    BY <1>3 DEF AppendInMemory, AppendCall
  <2>2. NewCall /\ calls'[New] = [op |-> "append", size |-> size]
    BY <2>1, CalledIs DEF TokenInv
  <2>3. c = New /\ New \in Ids /\ New > Len(calls)
    BY <1>2, <2>2, Called DEF TokenInv
  <2>4. answers[New] = <<>> /\ DOMAIN answers = Ids
    BY <2>3, UnaskedByAnswers DEF Unasked, TokenInv, Lists
  <2>5. answers'[c] = Append(<<>>, Size(realSize'))
    BY <2>1, <2>3, <2>4 DEF Answer
  <2> PICK a : a = Size(realSize')
    OBVIOUS
  <2>6. Append(<<>>, a)[1] = a
    OBVIOUS
  <2>7. Given(c) = a /\ a.size = realSize' % Uint32
    BY <2>5, <2>6 DEF Given, Size
  <2>8. op = "append"
    BY <2>2, <2>3 DEF Replies
  <2> PICK new, l : new = calls' /\ l = logical'
    OBVIOUS
  <2>9. IsList(l) /\ \A y \in Elements(l) : y <= c
    BY <2>1, <2>2, <2>3, PiecesBefore DEF SizeInv
  <2>10. BytesUpTo(c, l, new) = Bytes(l, new)
    BY <2>9, UpToLast
  <2> QED
    BY <2>7, <2>8, <2>10 DEF SizeGiven, SizeInv
<1> QED
  BY <1>2, <1>3 DEF AppCall, AppendHuge, AppendAndSwap, AppendDuringSwap, Enqueue

\* An append reports the number of bytes that were appended up to it, also when the swap
\* it began or waited for ends after later appends have added to the buffer, and size
\* the number of all of them, both modulo 2^32 since they hand over a uint32_t, for an
\* application that awaits its swaps.
THEOREM SizeExactAlways ==
  ASSUME SwapsAwaited
  PROVE  ReadersSpec => SizeExact
<1>1. ASSUME SizesInv, SizesInv', ReadersStep, NEW c \in 1..Len(calls'), NEW op, Replies(c, op)
      PROVE  SizeGiven(c, op)
  <2>1. /\ TokenInv /\ RequestInv /\ AnswerInv /\ KindInv /\ SizeInv /\ SizeInv'
        /\ SwapInv /\ SentInv
    BY <1>1 DEF SizesInv, IInv, CallInv
  <2>2. CASE AppCall \/ Enqueue("make_chunked_stream")
    BY <1>1, <2>1, <2>2, CallTellsSize
  <2>3. CASE Run \/ Handle \/ CallbackReturns \/ Worker \/ ReaderRuns \/ Ask \/ Stop
    <3>1. SizeTells /\ UNCHANGED calls
      BY <2>1, <2>3, StepSizes, AnsweringStep DEF Answering
    <3> QED
      BY <1>1, <2>1, <3>1, TellsSize
  <2> QED
    BY <1>1, <2>2, <2>3, ReadersSteps
<1>2. (Alive => SizesInv) /\ (Alive => SizesInv)' /\ [ReadersNext]_allVars =>
        [\A c \in 1..Len(calls') :
           /\ Replies(c, "append") => Given(c).size = BytesUpTo(c, logical', calls') % Uint32
           /\ Replies(c, "size") => Given(c).size = Bytes(logical', calls') % Uint32]_vars
  <2>1. ReadersStep => Alive /\ Alive'
    BY StepAlive
  <2>2. ASSUME ReadersThrow
        PROVE  \A c, op : ~Replies(c, op)
    BY <2>2, ThrowEnds DEF Replies
  <2> QED
    BY <1>1, <2>1, <2>2 DEF allVars, ReadersNext, SizeGiven
<1> QED
  BY <1>2, SizesAlways, PTL DEF ReadersSpec, SizeExact

-----------------------------------------------------------------------------
(* Types.                                                                  *)

\* A step that counts at most one more failure.
FaultStep == UNCHANGED faults \/ (faults < MaxFaults /\ faults' = faults + 1)

\* Every step preserves the types of the flags.
LEMMA ScalarStep ==
  ASSUME ScalarTypes,
         \/ AppCall \/ Enqueue("make_chunked_stream")
         \/ Run \/ Handle \/ CallbackReturns \/ Worker
         \/ ReaderRuns \/ Ask \/ Stop
  PROVE  ScalarTypes'
<1>0. MaxFaults \in Nat /\ (faults \in 0..MaxFaults /\ faults < MaxFaults => faults + 1 \in 0..MaxFaults)
  BY SwappingBufferAssumption
<1>1. CASE AppCall \/ Enqueue("make_chunked_stream")
  <2>1. UNCHANGED <<kind, isOnDisk, error, isFirstSwappingAttempt, isFirstSaveAttempt, pc, faults>>
    BY <1>1 DEF AppCall, AppendInMemory, AppendHuge, AppendAndSwap, AppendDuringSwap, AppendCall,
       Enqueue, fileVars, flagVars
  <2> QED
    BY <2>1 DEF ScalarTypes
<1>2. CASE Run
  <2>1. UNCHANGED <<kind, error, isFirstSwappingAttempt, isFirstSaveAttempt, pc, faults>>
        /\ isOnDisk' \in {isOnDisk, FALSE}
    BY <1>2 DEF Run, RunAppend, RunSize, RunClear, RunCleared, RunReadAll, RunSave, fileVars, flagVars
  <2> QED
    BY <2>1 DEF ScalarTypes
<1>3. CASE SwapDone \/ SwapRetry \/ SwapFailed
  <2>1. CASE SwapDone
    BY <2>1 DEF SwapDone, fileVars, ScalarTypes
  <2>2. CASE SwapRetry
    BY <2>2 DEF SwapRetry, fileVars, ScalarTypes
  <2>3. CASE SwapFailed
    BY <1>0, <2>3 DEF SwapFailed, ScalarTypes
  <2> QED
    BY <1>3, <2>1, <2>2, <2>3
<1>4. CASE OtherHandle
  <2>1. UNCHANGED <<kind, isOnDisk, error, isFirstSwappingAttempt, pc>>
    BY <1>4 DEF OtherHandle, LocalSaved, RestSaved, MoveFailed, CopyChunk, ChunkCopied, TailSaved,
       ReadDone, ReadTmpDone, Settled
  <2>2. isFirstSaveAttempt' \in {isFirstSaveAttempt, FALSE}
        /\ FaultStep
    <3>1. CASE LocalSaved \/ RestSaved
      BY <3>1 DEF LocalSaved, RestSaved, fileVars, FaultStep
    <3>2. CASE MoveFailed
      BY <3>2 DEF MoveFailed, FaultStep
    <3>3. CASE CopyChunk \/ ChunkCopied \/ TailSaved \/ ReadDone \/ ReadTmpDone
      BY <3>3 DEF CopyChunk, ChunkCopied, TailSaved, ReadDone, ReadTmpDone, fileVars, FaultStep
    <3> QED
      BY <1>4, <3>1, <3>2, <3>3 DEF OtherHandle
  <2> QED
    BY <1>0, <2>1, <2>2 DEF ScalarTypes, FaultStep
<1>5. CASE CallbackReturns \/ Worker
  <2>1. UNCHANGED <<kind, isOnDisk, error, isFirstSwappingAttempt, isFirstSaveAttempt>>
        /\ pc' \in {pc, "idle"}
        /\ FaultStep
    BY <1>5 DEF CallbackReturns, Worker, PerformRequest, FailRequest, fileVars, flagVars, FaultStep
  <2> QED
    BY <1>0, <2>1 DEF ScalarTypes, FaultStep
<1>6. CASE ReaderRuns \/ Ask \/ Stop
  <2>1. UNCHANGED <<kind, isOnDisk, error, isFirstSwappingAttempt, isFirstSaveAttempt, pc>>
        /\ FaultStep
    <3>1. CASE ReaderRuns
      BY <3>1 DEF ReaderRuns, RunMake, MakeFails, RunMade, OfFile, PassOn, OfTmpFile, Cached,
         Deliver, Task, BufferRests, flagVars, fileVars, FaultStep
    <3>2. CASE Ask \/ Stop
      BY <3>2 DEF Ask, Stop, BufferRests, vars, flagVars, fileVars, FaultStep
    <3> QED
      BY <1>6, <3>1, <3>2
  <2> QED
    BY <1>0, <2>1 DEF ScalarTypes, FaultStep
<1> QED
  BY <1>1, <1>2, <1>3, <1>4, <1>5, <1>6, HandleKinds

\* A step that performs no request adds no handler.
LEMMA HandlersKept ==
  ASSUME TokenInv, PlainStep, UNCHANGED fs \/ \E r : Submit(r)
  PROVE  \A t \in Elements(io_') : t.task = "handler" => t \in Elements(io_)
<1>1. ~(fs # <<>> /\ fs' = Tail(fs))
  <2>1. Elements(fs) \subseteq Elements(fs')
    BY FsSets DEF Submit
  <2> QED
    BY <2>1, FsSets
<1> QED
  BY <1>1, PlainElements DEF NewTask

\* What a call of the application adds to the queues, and the return of a callback.
LEMMA CallAdds ==
  ASSUME TokenInv, SwapInv, AppCall \/ Enqueue("make_chunked_stream") \/ CallbackReturns
  PROVE  /\ \A r \in Elements(fs') : r \in Elements(fs) \/ (r.step = "swap" /\ RequestTypes(r))
         /\ \A t \in Elements(io_') : t \in Elements(io_) \/ t.task = "operation"
<1> DEFINE FsKept == \A r \in Elements(fs') : r \in Elements(fs) \/ (r.step = "swap" /\ RequestTypes(r))
           IoKept == \A t \in Elements(io_') : t \in Elements(io_) \/ t.task = "operation"
<1>0. Lists /\ currentBuffer \in Buffers
  BY DEF TokenInv, SwapInv, Buffers
<1>1. ASSUME NEW l, IsList(l), io_' = io_ \o Tasks(l)
      PROVE  IoKept
  <2>1. Elements(io_') = Elements(io_) \cup OperationsOf(l)
    BY <1>0, <1>1, PostList DEF Lists
  <2> QED
    BY <2>1 DEF OperationsOf, OperationOf
<1>2. ASSUME enqueueAndRun(New)
      PROVE  IoKept
  <2>1. IsList(Append(callbacks, New))
    BY <1>0, AppendList DEF Lists
  <2> QED
    BY <1>1, <1>2, <2>1 DEF enqueueAndRun, Post
<1>3. ASSUME NEW size \in Sizes, AppendInMemory(size)
      PROVE  FsKept /\ IoKept
  BY <1>3 DEF AppendInMemory, queueVars
<1>4. ASSUME NEW size \in Sizes, AppendHuge(size) \/ AppendAndSwap(size)
      PROVE  FsKept /\ IoKept
  <2>1. PICK r : Submit(r) /\ r.step = "swap" /\ r.buf = currentBuffer /\ r.mode \in {"append", "write"}
    BY <1>4 DEF AppendHuge, AppendAndSwap, startSwapping, swappingOperation, Request
  <2>2. RequestTypes(r)
    BY <1>0, <2>1 DEF RequestTypes
  <2>3. UNCHANGED io_
    BY <1>4 DEF AppendHuge, AppendAndSwap
  <2> QED
    BY <2>1, <2>2, <2>3, FsSets DEF Submit
<1>5. ASSUME NEW size \in Sizes, AppendDuringSwap(size)
      PROVE  FsKept /\ IoKept
  BY <1>2, <1>5 DEF AppendDuringSwap
<1>6. ASSUME NEW op, Enqueue(op)
      PROVE  FsKept /\ IoKept
  BY <1>2, <1>6 DEF Enqueue
<1>7. CASE CallbackReturns
  BY <1>0, <1>1, <1>7 DEF CallbackReturns, Post, Lists
<1> QED
  BY <1>3, <1>4, <1>5, <1>6, <1>7 DEF AppCall

\* What the operations and the handlers submit.
LEMMA StepAdds ==
  ASSUME TokenInv, RequestInv, KindInv, SwapInv, TypesInv, Run \/ Handle
  PROVE  \/ UNCHANGED fs
         \/ \E r : Submit(r) /\ RequestTypes(r) /\ (r.step \in CopySteps => ~error)
<1>0. currentBuffer \in Buffers /\ swappingBuffer \in Buffers
  BY DEF SwapInv, Buffers, swappingBuffer
<1>1. CASE RunAppend \/ SwapRetry
  <2>1. PICK r : Submit(r) /\ r.step = "swap" /\ r.buf \in Buffers /\ r.mode \in {"append", "write"}
    BY <1>0, <1>1 DEF RunAppend, SwapRetry, startSwapping, swappingOperation, Request
  <2> QED
    BY <2>1 DEF RequestTypes, CopySteps
<1>2. CASE RunSize \/ RunClear \/ RunCleared \/ SwapDone \/ SwapFailed \/ RestSaved \/ MoveFailed
             \/ TailSaved \/ ReadTmpDone
  BY <1>2 DEF RunSize, RunClear, RunCleared, SwapDone, SwapFailed, RestSaved, MoveFailed, TailSaved,
     ReadTmpDone
<1>3. CASE RunReadAll \/ ReadDone
  <2>1. UNCHANGED fs \/ \E r : Submit(r) /\ r.step \in {"read", "read_tmp"} /\ r.mode = "read"
    BY <1>3 DEF RunReadAll, ReadDone, Request
  <2> QED
    BY <2>1 DEF RequestTypes, CopySteps
<1>4. CASE LocalSaved
  <2>1. UNCHANGED fs \/ \E r : Submit(r) /\ r.step = "local" /\ r.buf = currentBuffer /\ r.mode \in {"append", "write"}
    BY <1>4 DEF LocalSaved, SaveLocal, Request
  <2> QED
    BY <1>0, <2>1 DEF RequestTypes, CopySteps
<1>5. CASE RunSave
  <2>1. \/ UNCHANGED fs
        \/ \E r : Submit(r) /\ r.step = "local" /\ r.buf = currentBuffer /\ r.mode \in {"append", "write"}
        \/ \E r : Submit(r) /\ r.step = "rest" /\ r.buf = currentBuffer /\ r.mode = "append" /\ r.file = "tmp"
        \/ \E r : Submit(r) /\ r.step = "chunk" /\ r.mode = "chunk" /\ kind = "Append"
                    /\ (kind = "Overwrite" \/ ~error)
    BY <1>5 DEF RunSave, SaveLocal, NextChunk, Request
  <2> QED
    BY <1>0, <2>1 DEF RequestTypes, CopySteps
<1>6. CASE CopyChunk \/ ChunkCopied
  <2>1. Handling("chunk") \/ Handling("copied") \/ Handling("last")
    BY <1>6 DEF CopyChunk, ChunkCopied
  <2>2. Head(io_) \in DoneJobs /\ Head(io_).request.step \in CopySteps
    BY <2>1, HeadOfIo DEF Handling, DoneJobs, CopySteps
  <2>3. ~error
    BY <2>2 DEF TypesInv
  <2>4. \/ UNCHANGED fs
        \/ \E r : Submit(r) /\ r.step \in {"copied", "last", "tail"} /\ r.mode = "append"
                    /\ r.buf \in {"tmp_read", currentBuffer}
        \/ \E r : Submit(r) /\ r.step = "chunk" /\ r.mode = "chunk"
    BY <1>6 DEF CopyChunk, ChunkCopied, NextChunk, Request
  <2> QED
    BY <1>0, <2>3, <2>4 DEF RequestTypes
<1> QED
  BY <1>1, <1>2, <1>3, <1>4, <1>5, <1>6 DEF Run, Handle

\* What TypesInv says of the queues.
QueueTypes ==
  /\ \A r \in Elements(fs) : RequestTypes(r)
  /\ \A t \in Elements(io_) : HandlerTypes(t)
  /\ \A r \in Jobs : r.step \in CopySteps => ~error
  /\ \A t \in DoneJobs : /\ t.request.step \in CopySteps => ~error
                         /\ t.request.step = "rest" /\ t.ec = "success" => tmp # None

\* A step that adds no handler preserves it, if no save is at work or nothing interferes.
LEMMA QueuesKept ==
  ASSUME QueueTypes,
         \A r \in Elements(fs') : r \in Elements(fs) \/ (RequestTypes(r) /\ (r.step \in CopySteps => ~error)),
         \A t \in Elements(io_') : t.task = "handler" => t \in Elements(io_),
         \/ UNCHANGED error /\ (tmp # None => tmp' # None)
         \/ Jobs' = {} /\ DoneJobs' = {}
  PROVE  QueueTypes'
<1>1. \A r \in Elements(fs') : RequestTypes(r)
  BY DEF QueueTypes
<1>2. \A t \in Elements(io_') : HandlerTypes(t)
  BY DEF QueueTypes, HandlerTypes
<1>3. DoneJobs' \subseteq DoneJobs
  BY DEF DoneJobs
<1>4. \A r \in Jobs' : r.step \in CopySteps => ~error
  BY DEF Jobs, QueueTypes
<1> QED
  BY <1>1, <1>2, <1>3, <1>4 DEF QueueTypes

\* The steps that run in the thread of the io_service, and those of the application,
\* preserve the types of the queues.
LEMMA OtherQueues ==
  ASSUME TokenInv, RequestInv, KindInv, OverlapInv, SwapInv, OrderInv, WorkInv, TypesInv, ReadsAlone,
         SwapsAwaited,
         \/ AppCall \/ Enqueue("make_chunked_stream") \/ CallbackReturns
         \/ Run \/ Handle \/ ReaderRuns \/ Ask \/ Stop
  PROVE  QueueTypes'
<1>0. QueueTypes
  BY DEF TypesInv, QueueTypes
<1>1. CASE AppCall \/ Enqueue("make_chunked_stream") \/ CallbackReturns
  <2>1. UNCHANGED <<error, tmp>>
    BY <1>1 DEF AppCall, AppendInMemory, AppendHuge, AppendAndSwap, AppendDuringSwap, AppendCall,
       Enqueue, CallbackReturns, fileVars, flagVars
  <2>2. /\ \A r \in Elements(fs') : r \in Elements(fs) \/ (r.step = "swap" /\ RequestTypes(r))
        /\ \A t \in Elements(io_') : t \in Elements(io_) \/ t.task = "operation"
    BY <1>1, CallAdds
  <2>3. \A r \in Elements(fs') : r \in Elements(fs) \/ (RequestTypes(r) /\ (r.step \in CopySteps => ~error))
    BY <2>2 DEF CopySteps
  <2>4. \A t \in Elements(io_') : t.task = "handler" => t \in Elements(io_)
    BY <2>2
  <2> QED
    BY <1>0, <2>1, <2>3, <2>4, QueuesKept
<1>2. CASE Run \/ Handle
  <2>1. PlainStep
    BY <1>2, RunPlain, HandlePlain
  <2>2. \/ UNCHANGED fs
        \/ \E r : Submit(r) /\ RequestTypes(r) /\ (r.step \in CopySteps => ~error)
    BY <1>2, StepAdds
  <2>3. \A r \in Elements(fs') : r \in Elements(fs) \/ (RequestTypes(r) /\ (r.step \in CopySteps => ~error))
    BY <2>2, FsSets DEF Submit
  <2>4. \A t \in Elements(io_') : t.task = "handler" => t \in Elements(io_)
    BY <2>1, <2>2, HandlersKept
  <2>5. CASE RunClear
    <3>1. UNCHANGED fs
      BY <2>5 DEF RunClear
    <3>2. Working = {}
      BY <1>2, <2>5, TurnAlone DEF Run
    <3>3. Working' = {}
      BY <2>1, <3>1, <3>2, WorkingShrinks
    <3> QED
      BY <1>0, <2>3, <2>4, <3>3, NoJobs, QueuesKept
  <2>6. CASE SwapFailed
    <3>1. Working' = {}
      BY <2>6, SwapHandledWorking
    <3> QED
      BY <1>0, <2>3, <2>4, <3>1, NoJobs, QueuesKept
  <2>7. CASE RestSaved
    <3>1. io_ # <<>> /\ Head(io_) \in DoneJobs /\ io_' = Tail(io_) /\ UNCHANGED fs
      BY <2>7, OtherHandleWorking DEF OtherHandle, RestSaved
    <3>2. DoneJobs = {Head(io_)} /\ Jobs = {}
      BY <3>1, OneJob
    <3>3. Elements(io_') = Elements(io_) \ {Head(io_)}
      BY <3>1, IoSets DEF DoneJobs, Own
    <3>4. DoneJobs' = {} /\ Jobs' = {}
      BY <3>1, <3>2, <3>3 DEF DoneJobs, Jobs
    <3> QED
      BY <1>0, <2>3, <2>4, <3>4, QueuesKept
  <2>8. CASE RunAppend \/ RunSize \/ RunCleared \/ RunReadAll \/ RunSave
    <3>1. UNCHANGED <<error, tmp>>
      BY <2>8 DEF RunAppend, RunSize, RunCleared, RunReadAll, RunSave, flagVars, fileVars
    <3> QED
      BY <1>0, <2>3, <2>4, <3>1, QueuesKept
  <2>9. CASE SwapDone \/ SwapRetry \/ LocalSaved \/ MoveFailed \/ CopyChunk \/ ChunkCopied \/ TailSaved
               \/ ReadDone \/ ReadTmpDone
    <3>1. UNCHANGED <<error, tmp>>
      BY <2>9 DEF SwapDone, SwapRetry, LocalSaved, MoveFailed, CopyChunk, ChunkCopied, TailSaved,
         ReadDone, ReadTmpDone, Settled, flagVars, fileVars
    <3> QED
      BY <1>0, <2>3, <2>4, <3>1, QueuesKept
  <2> QED
    BY <1>2, <2>5, <2>6, <2>7, <2>8, <2>9 DEF Run, Handle
<1>3. CASE ReaderRuns \/ Ask \/ Stop
  <2>1. UNCHANGED <<error, tmp, fs>>
    <3>1. CASE ReaderRuns
      BY <3>1 DEF ReaderRuns, RunMake, MakeFails, RunMade, OfFile, PassOn, OfTmpFile, Cached,
         Deliver, Task, BufferRests, flagVars, fileVars
    <3>2. CASE Ask \/ Stop
      BY <3>2 DEF Ask, Stop, BufferRests, vars, flagVars, fileVars, queueVars
    <3> QED
      BY <1>3, <3>1, <3>2
  <2>2. PlainStep
    BY <1>3, ReaderPlain
  <2>3. \A t \in Elements(io_') : t.task = "handler" => t \in Elements(io_)
    BY <2>1, <2>2, HandlersKept
  <2> QED
    BY <1>0, <2>1, <2>3, QueuesKept
<1> QED
  BY <1>1, <1>2, <1>3

\* What the worker reads, and what it leaves in the files.
LEMMA WorkerTypes ==
  ASSUME TokenInv, SwapInv, FileInv, JobInv, TypesInv, PerformRequest
  PROVE  LET r == Head(fs) IN
         /\ Returns(WorkerFile(r), r) \in Content /\ tmp_read' \in Content /\ dest' \in Content
         /\ tmp # None => tmp' # None
         /\ r.step = "rest" => tmp' # None
<1> DEFINE r == Head(fs)
           f == WorkerFile(r)
           src == Source(r.buf)
<1>1. /\ fs # <<>> /\ r \in Elements(fs) /\ fs' = Tail(fs)
      /\ r.mode = "read" => f # None
      /\ tmp'  = IF r.file = "tmp"  THEN Completed(f, r) ELSE tmp
      /\ dest' = IF r.file = "dest" THEN Completed(f, r) ELSE dest
      /\ tmp_read' = IF r.buf = "tmp_read" /\ r.mode = "read" THEN f ELSE tmp_read
  <2>1. fs # <<>> /\ fs' = Tail(fs)
    BY DEF PerformRequest
  <2>2. r \in Elements(fs)
    BY <2>1, FsSets
  <2> QED
    BY <2>1, <2>2 DEF PerformRequest
<1>2. /\ tmp \in Content \cup {None} /\ dest \in Content /\ tmp_read \in Content /\ None \notin Content
      /\ bufs \in [Buffers -> Content] /\ <<>> \in Content /\ 0 \in 0..MaxCalls
  BY CurrentTypes, SwappingBufferAssumption DEF TypesInv, Content
<1>3. RequestTypes(r)
  BY <1>1 DEF TypesInv
<1>4. r.mode \in {"append", "write"} => src \in Content
  BY <1>2, <1>3 DEF RequestTypes, Source, Buffers
<1>5. f \in Content \cup {None}
  BY <1>2 DEF WorkerFile
<1>6. CASE r.mode \in {"append", "write"}
  <2>1. Completed(f, r) \in Content
    <3>1. CASE r.mode = "write" \/ f = None
      BY <1>4, <1>6, <3>1 DEF Completed
    <3>2. CASE r.mode = "append" /\ f # None
      <4>1. Completed(f, r) = f \o src
        BY <3>2 DEF Completed
      <4>2. f \in Content /\ src \in Content
        BY <1>4, <1>5, <1>6, <3>2
      <4>3. f \o src \in Content
        <5> HIDE DEF f, src
        <5> QED
          BY <1>2, <4>2, ContentTypes
      <4> QED
        BY <4>1, <4>3
    <3> QED
      BY <1>6, <3>1, <3>2
  <2>2. Returns(f, r) = <<>>
    BY <1>6 DEF Returns
  <2> HIDE DEF f, r
  <2> QED
    BY <1>1, <1>2, <1>3, <1>6, <2>1, <2>2 DEF RequestTypes, f, r
<1>7. CASE r.mode = "read"
  <2>1. f \in Content /\ Completed(f, r) = f /\ Returns(f, r) = f /\ r.step # "rest"
    BY <1>1, <1>3, <1>5, <1>7 DEF Completed, Returns, RequestTypes
  <2>2. (r.file = "tmp" => f = tmp) /\ (r.file = "dest" => f = dest)
    BY DEF WorkerFile
  <2> QED
    BY <1>1, <1>2, <1>7, <2>1, <2>2
<1>8. CASE r.mode = "chunk"
  <2>1. r.step = "chunk" /\ r \in Jobs
    BY <1>1, <1>3, <1>8 DEF RequestTypes, Jobs
  <2>2. PendingChunk(r)
    BY <2>1 DEF TypesInv, CopySteps, JobInv, Pending
  <2>3. tmp # None /\ r.file = "tmp" /\ IsPlace(r.n) /\ f = tmp
    BY <2>2 DEF PendingChunk, Does, AllStored, WorkerFile
  <2>4. Completed(f, r) = f
    BY <1>8 DEF Completed
  <2>5. Returns(f, r) \in Content
    <3>1. Returns(f, r) = IF tmp = <<>> THEN <<>> ELSE <<tmp[r.n]>>
      BY <1>8, <2>3 DEF Returns
    <3>2. tmp # <<>> => tmp[r.n] \in 0..MaxCalls
      <4>1. tmp \in Seq(0..MaxCalls)
        BY <1>2, <2>3 DEF Content
      <4> PICK n : n = r.n
        OBVIOUS
      <4>2. IsPlace(n)
        BY <2>3
      <4>3. tmp # <<>> => n \in 1..Len(tmp)
        <5>1. n \in Nat \ {0} /\ (n = 1 \/ n <= Len(tmp))
          BY <4>2 DEF IsPlace
        <5>2. tmp # <<>> => Len(tmp) \in Nat /\ 1 <= Len(tmp)
          BY <4>1
        <5> QED
          BY <4>1, <5>1, <5>2
      <4>4. tmp # <<>> => tmp[n] \in 0..MaxCalls
        <5> PICK X, S : X = tmp /\ S = 0..MaxCalls
          OBVIOUS
        <5>1. X \in Seq(S) /\ (X # <<>> => n \in 1..Len(X))
          BY <4>1, <4>3
        <5>2. X # <<>> => X[n] \in S
          BY <5>1, ElementOfSeq
        <5> QED
          BY <5>2
      <4> QED
        BY <4>4
    <3>3. \A n \in 0..MaxCalls : <<n>> \in Content
      BY DEF Content
    <3> QED
      BY <1>2, <3>1, <3>2, <3>3
  <2> QED
    BY <1>1, <1>2, <1>8, <2>1, <2>3, <2>4, <2>5
<1>9. CASE r.mode \notin {"append", "write", "read", "chunk"}
  <2>1. Completed(f, r) = f /\ Returns(f, r) = <<>> /\ r.step # "rest"
    BY <1>3, <1>9 DEF Completed, Returns, RequestTypes
  <2>2. (r.file = "tmp" => f = tmp) /\ (r.file = "dest" => f = dest)
    BY DEF WorkerFile
  <2> QED
    BY <1>1, <1>2, <1>9, <2>1, <2>2
<1> QED
  BY <1>6, <1>7, <1>8, <1>9

\* The worker preserves the types.
LEMMA WorkerTypesKept ==
  ASSUME TokenInv, SwapInv, FileInv, JobInv, TypesInv, Worker
  PROVE  TypesInv'
<1>0. fs # <<>> /\ fs' = Tail(fs) /\ ScalarTypes' /\ UNCHANGED error
  BY ScalarStep DEF TypesInv, Worker, PerformRequest, FailRequest, flagVars
<1>1. Elements(fs') \subseteq Elements(fs) /\ Head(fs) \in Elements(fs)
  BY <1>0, FsSets
<1>2. PICK code, data : /\ Handler(Head(fs), code, data) /\ data \in Content
                        /\ tmp_read' \in Content /\ dest' \in Content
                        /\ tmp # None => tmp' # None
                        /\ Head(fs).step = "rest" /\ code = "success" => tmp' # None
  <2>1. CASE PerformRequest
    <3>1. Handler(Head(fs), CodeOf(WorkerFile(Head(fs)), Head(fs)), Returns(WorkerFile(Head(fs)), Head(fs)))
      BY <2>1 DEF PerformRequest
    <3> QED
      BY <2>1, <3>1, WorkerTypes
  <2>2. CASE FailRequest
    <3>1. /\ UNCHANGED <<tmp, dest, tmp_read>>
          /\ \E code \in {"open_failure", "other_failure"} : Handler(Head(fs), code, <<>>)
      BY <2>2 DEF FailRequest
    <3>2. <<>> \in Content
      BY CurrentTypes
    <3> QED
      BY <3>1, <3>2 DEF TypesInv
  <2> QED
    BY <2>1, <2>2 DEF Worker
<1> DEFINE t == [task |-> "handler", call |-> Head(fs).call, request |-> Head(fs), ec |-> code, data |-> data]
<1>3. io_' = Append(io_, t) /\ t.data = data /\ t.ec = code /\ t.request = Head(fs)
  BY <1>2 DEF Handler
<1> HIDE DEF t
<1>4. Elements(io_') = Elements(io_) \cup {t}
  BY <1>3, AppendList DEF TokenInv, Lists
<1>5. \A u \in Elements(io_') : HandlerTypes(u)
  BY <1>2, <1>3, <1>4 DEF HandlerTypes, TypesInv
<1>6. \A r \in Elements(fs') : RequestTypes(r)
  BY <1>1 DEF TypesInv
<1>7. \A r \in Jobs' : r.step \in CopySteps => ~error
  BY <1>1 DEF TypesInv, Jobs
<1>8. \A u \in DoneJobs' : u \in DoneJobs \/ (u = t /\ (t.request.step \in CopySteps => ~error))
  <2>1. Head(fs).step \in CopySteps => ~error
    BY <1>1 DEF TypesInv, Jobs, CopySteps
  <2> QED
    BY <1>3, <1>4, <2>1 DEF DoneJobs
<1>9. \A u \in DoneJobs' : /\ u.request.step \in CopySteps => ~error'
                           /\ u.request.step = "rest" /\ u.ec = "success" => tmp' # None
  BY <1>0, <1>2, <1>3, <1>8 DEF TypesInv
<1> QED
  BY <1>0, <1>2, <1>5, <1>6, <1>7, <1>9 DEF TypesInv

\* What is read, and the destination, keep their types when a handler runs.
LEMMA HandleReads ==
  ASSUME TokenInv, SwapInv, FileInv, TypesInv, Handle
  PROVE  tmp_read' \in Content /\ dest' \in Content
<1> DEFINE t == Head(io_)
           B == bufs[currentBuffer]
<1>0. B \in Content /\ tmp_read \in Content /\ dest \in Content /\ tmp \in Content \cup {None}
      /\ 0 \in 0..MaxCalls
  BY CurrentTypes, SwappingBufferAssumption DEF TypesInv
<1>1. \A step : Handling(step) => t.data \in Content
  BY HeadOfIo DEF Handling, TypesInv, HandlerTypes
<1>2. CASE SwapDone \/ SwapRetry \/ SwapFailed \/ LocalSaved \/ MoveFailed \/ ChunkCopied \/ TailSaved
  BY <1>0, <1>2 DEF SwapDone, SwapRetry, SwapFailed, LocalSaved, MoveFailed, ChunkCopied, TailSaved, fileVars
<1>3. CASE RestSaved
  <2>1. /\ io_ # <<>> /\ t.task = "handler" /\ t.request.step = "rest"
        /\ UNCHANGED tmp_read /\ (UNCHANGED dest \/ (t.ec = "success" /\ dest' = tmp))
    BY <1>3 DEF RestSaved, Handling, Ec
  <2>2. t \in DoneJobs
    BY <2>1, HeadOfIo DEF DoneJobs
  <2>3. t.ec = "success" => tmp # None
    BY <2>1, <2>2 DEF TypesInv
  <2> QED
    BY <1>0, <2>1, <2>3
<1>4. CASE CopyChunk
  BY <1>0, <1>1, <1>4 DEF CopyChunk, fileVars
<1>5. CASE ReadDone
  <2>1. tmp_read \o B \in Content
    <3> HIDE DEF B
    <3> QED
      BY <1>0, ContentTypes
  <2> QED
    BY <1>0, <1>5, <2>1 DEF ReadDone, fileVars
<1>6. CASE ReadTmpDone
  <2>1. t.data \in Content
    BY <1>1, <1>6 DEF ReadTmpDone
  <2>2. tmp_read \o t.data \o B \in Content
    <3> DEFINE X == tmp_read \o t.data
    <3>1. X \in Content
      BY <1>0, <2>1, ContentTypes
    <3> HIDE DEF X, B
    <3>2. X \o B \in Content
      BY <1>0, <3>1, ContentTypes
    <3> QED
      BY <3>2 DEF X
  <2> QED
    BY <1>0, <1>6, <2>2 DEF ReadTmpDone, fileVars
<1> QED
  BY <1>2, <1>3, <1>4, <1>5, <1>6 DEF Handle

\* Every step preserves the types.
LEMMA TypesStep ==
  ASSUME IInv, TypesInv, SwapsAwaited, ReadsAlone, [ReadersStep]_allVars
  PROVE  TypesInv'
<1>0. /\ TokenInv /\ RequestInv /\ KindInv /\ OverlapInv /\ SwapInv /\ FileInv /\ OrderInv /\ WorkInv /\ JobInv
  BY DEF IInv, CallInv
<1>1. ASSUME QueueTypes', ScalarTypes', tmp_read' \in Content, dest' \in Content
      PROVE  TypesInv'
  BY <1>1 DEF TypesInv, QueueTypes
<1>2. CASE UNCHANGED vars
  <2>1. UNCHANGED <<kind, isOnDisk, error, isFirstSwappingAttempt, isFirstSaveAttempt, pc, faults,
                    tmp_read, dest, tmp, fs, io_>>
    BY <1>2 DEF vars, flagVars, fileVars, queueVars
  <2> QED
    BY <2>1 DEF TypesInv, ScalarTypes, Jobs, DoneJobs
<1>3. CASE AppCall \/ Enqueue("make_chunked_stream") \/ CallbackReturns \/ Run \/ ReaderRuns \/ Ask \/ Stop
  <2>1. QueueTypes' /\ ScalarTypes'
    BY <1>0, <1>3, OtherQueues, ScalarStep DEF TypesInv
  <2>2. UNCHANGED <<tmp_read, dest>>
    <3>1. CASE AppCall \/ Enqueue("make_chunked_stream")
      BY <3>1 DEF AppCall, AppendInMemory, AppendHuge, AppendAndSwap, AppendDuringSwap, AppendCall,
         Enqueue, fileVars
    <3>2. CASE CallbackReturns \/ Run
      BY <3>2 DEF CallbackReturns, Run, RunAppend, RunSize, RunClear, RunCleared, RunReadAll, RunSave, fileVars
    <3>3. CASE ReaderRuns
      BY <3>3 DEF ReaderRuns, RunMake, MakeFails, RunMade, OfFile, PassOn, OfTmpFile, Cached,
         Deliver, Task, BufferRests, fileVars
    <3>4. CASE Ask \/ Stop
      BY <3>4 DEF Ask, Stop, BufferRests, vars, fileVars
    <3> QED
      BY <1>3, <3>1, <3>2, <3>3, <3>4
  <2> QED
    BY <1>1, <2>1, <2>2 DEF TypesInv
<1>4. CASE Handle
  BY <1>0, <1>1, <1>4, OtherQueues, ScalarStep, HandleReads DEF TypesInv
<1>5. CASE Worker
  BY <1>0, <1>5, WorkerTypesKept
<1> QED
  BY <1>2, <1>3, <1>4, <1>5, ReadersSteps DEF allVars

\* The types of all variables hold in every state until an exception gets out.
LEMMA TypesAlways ==
  ASSUME SwapsAwaited, ReadsAlone
  PROVE  ReadersSpec => [](Alive => SizesInv /\ TypesInv)
<1>1. ReadersInit => TypesInv
  <2> SUFFICES ASSUME Init
               PROVE  TypesInv
    BY DEF ReadersInit
  <2>1. Elements(io_) = {} /\ Elements(fs) = {}
    BY EmptyList DEF Init
  <2>2. <<>> \in Content /\ <<0>> \in Content /\ 0 \in 0..MaxFaults
    BY SwappingBufferAssumption DEF Content
  <2> QED
    BY <2>1, <2>2 DEF TypesInv, ScalarTypes, Jobs, DoneJobs, Init
<1>2. (Alive => SizesInv) /\ (Alive => TypesInv) /\ [ReadersNext]_allVars => (Alive => TypesInv)'
  BY UntilThrown, TypesStep DEF SizesInv
<1> QED
  BY <1>1, <1>2, SizesAlways, PTL DEF ReadersSpec

\* What an exception changes of what has a type.
LEMMA ThrowTypes ==
  ASSUME ReadersThrow, faults \in 0..MaxFaults, isFirstSaveAttempt \in BOOLEAN
  PROVE  /\ pc' = "thrown" /\ isFirstSaveAttempt' \in BOOLEAN /\ faults' \in 0..MaxFaults
         /\ \/ UNCHANGED <<bufs, realSize>>
            \/ bufs' = [b \in {"bufA", "bufB"} |-> <<>>] /\ realSize' = 0
<1>1. \A x, y : x # y => Cardinality({x}) = 1 /\ Cardinality({x, y}) = 2
  <2> TAKE x, y
  <2>1. IsFiniteSet({}) /\ Cardinality({}) = 0
    BY FS_EmptySet
  <2>2. IsFiniteSet({x}) /\ Cardinality({x}) = 1
    BY FS_Singleton
  <2>3. x # y => Cardinality({x, y}) = Cardinality({x}) + 1
    <3>1. x # y => Cardinality({x} \cup {y}) = Cardinality({x}) + 1
      BY <2>2, FS_AddElement
    <3>2. {x} \cup {y} = {x, y}
      OBVIOUS
    <3> QED
      BY <3>1, <3>2
  <2> QED
    BY <2>2, <2>3
<1>2. Cardinality({"removeFile"}) = 1 /\ Cardinality({"open"}) = 1 /\ Cardinality({"createDirectory"}) = 1
        /\ Cardinality({"move", "createDirectory"}) = 2
  <2>1. "removeFile" # "open" /\ "open" # "createDirectory" /\ "createDirectory" # "move" /\ "move" # "createDirectory"
    OBVIOUS
  <2> QED
    BY <1>1, <2>1, Zenon
<1>3. MaxFaults \in Nat
  BY SwappingBufferAssumption
<1>4. CASE ClearThrows \/ SaveThrows
  BY <1>2, <1>3, <1>4 DEF ClearThrows, SaveThrows, Throw, Fails
<1>5. CASE DirectoryThrows
  <2>1. ASSUME Fails({"createDirectory"}) \/ Fails({"move", "createDirectory"})
        PROVE  faults' \in 0..MaxFaults
    BY <1>2, <1>3, <2>1 DEF Fails
  <2>2. Fails({"createDirectory"}) \/ Fails({"move", "createDirectory"})
    BY <1>5 DEF DirectoryThrows
  <2>3. isFirstSaveAttempt' = FALSE /\ pc' = "thrown" /\ UNCHANGED <<bufs, realSize>>
    BY <1>5 DEF DirectoryThrows, Throw
  <2> QED
    BY <2>1, <2>2, <2>3
<1>6. CASE MakeThrows \/ OfFileThrows
  BY <1>2, <1>3, <1>6 DEF MakeThrows, OfFileThrows, Throw, Fails
<1> QED
  BY <1>4, <1>5, <1>6 DEF ReadersThrow, Throws

\* All variables of a buffer have their types in every state, and its size is at most the
\* number of bytes that were ever appended, for an application that awaits its swaps and
\* what it reads: no file the code hands on is missing, and no vector is taken for another.
THEOREM TypeCorrect ==
  ASSUME SwapsAwaited, ReadsAlone
  PROVE  ReadersSpec => []TypeOK
<1> DEFINE Most == Bytes([c \in 1..Len(calls) |-> c], calls)
<1>1. SizesInv /\ TypesInv => TypeOK /\ 0 \in 0..Most
  <2> SUFFICES ASSUME SizesInv, TypesInv
               PROVE  TypeOK /\ 0 \in 0..Most
    OBVIOUS
  <2>1. TokenInv /\ SwapInv /\ FileInv /\ SizeInv
    BY DEF SizesInv, IInv, CallInv
  <2>2. callbacks \in Seq(Ids)
    <3>1. \A c \in Elements(callbacks) : c \in Ids
      BY <2>1, SwappingBufferAssumption DEF TokenInv, Lists, Outstanding, Unanswered, Ids
    <3>2. callbacks \in Seq(Elements(callbacks))
      BY <2>1 DEF TokenInv, Lists, IsList
    <3> QED
      BY <3>1, <3>2
  <2>3. realSize \in 0..Most /\ 0 \in 0..Most
    <3> PICK n \in Nat : n = Len(calls)
      BY <2>1 DEF TokenInv, Lists
    <3> PICK all, b : all = Bytes([c \in 1..Len(calls) |-> c], calls) /\ b = Bytes(logical, calls)
      OBVIOUS
    <3>1. all \in Nat
      <4> DEFINE new == [c \in 1..(n + 1) |-> IF c = n + 1 THEN [size |-> 0] ELSE calls[c]]
      <4>1. new[n + 1].size \in Nat /\ \A y \in 1..n : calls[y].size \in Nat /\ new[y].size = calls[y].size
        BY <2>1 DEF SizeInv
      <4> HIDE DEF new
      <4>2. AllBytes(n, calls) \in Nat
        BY <4>1, AllBytesGrow
      <4> QED
        BY <4>2 DEF AllBytes
    <3>2. b \in Nat
      <4> DEFINE new == [c \in Elements(logical) \cup {0} |-> IF c \in Elements(logical) THEN calls[c] ELSE [size |-> 0]]
      <4>1. \A y \in Elements(logical) : calls[y].size \in Nat /\ new[y].size = calls[y].size
        BY <2>1 DEF SizeInv
      <4>2. new[0].size \in Nat
        BY <2>1 DEF SizeInv
      <4> HIDE DEF new
      <4>3. IsList(logical)
        BY <2>1 DEF SizeInv
      <4>4. Bytes(logical, calls) \in Nat
        BY <4>1, <4>2, <4>3, BytesGrow
      <4> QED
        BY <4>4
    <3>3. realSize = b /\ b <= all
      BY <2>1 DEF SizeInv
    <3> QED
      BY <3>1, <3>2, <3>3
  <2>4. Len(calls) <= MaxCalls
    BY <2>1, SwappingBufferAssumption DEF TokenInv, Lists
  <2>5. /\ bufs \in [{"bufA", "bufB"} -> Content] /\ currentBuffer \in {"bufA", "bufB"} /\ swapping \in BOOLEAN
        /\ logical \in Content /\ tmp \in Content \cup {None}
    BY <2>1 DEF SwapInv, FileInv, Buffers
  <2>6. {isOnDisk, swapping, error, isFirstSwappingAttempt, isFirstSaveAttempt} \subseteq BOOLEAN
    BY <2>5 DEF TypesInv, ScalarTypes
  <2> QED
    BY <2>2, <2>3, <2>4, <2>5, <2>6 DEF TypeOK, TypesInv, ScalarTypes
<1> HIDE DEF Most
<1>2. ReadersInit => Alive
  BY DEF ReadersInit, Init, Alive
<1>3. TypeOK /\ 0 \in 0..Most /\ (Alive => SizesInv /\ TypesInv) /\ (Alive => SizesInv /\ TypesInv)'
        /\ [ReadersNext]_allVars
      => (TypeOK /\ 0 \in 0..Most)'
  <2> SUFFICES ASSUME TypeOK, 0 \in 0..Most, Alive => SizesInv /\ TypesInv,
                      (Alive => SizesInv /\ TypesInv)', [ReadersNext]_allVars
               PROVE  (TypeOK /\ 0 \in 0..Most)'
    OBVIOUS
  <2>1. CASE Alive'
    <3>1. (SizesInv /\ TypesInv)'
      BY <2>1
    <3>2. (SizesInv /\ TypesInv => TypeOK /\ 0 \in 0..Most)'
      BY <1>1, PTL
    <3> QED
      BY <3>1, <3>2
  <2>2. CASE UNCHANGED allVars
    BY <2>2 DEF allVars, vars, bufferVars, flagVars, queueVars, fileVars, TypeOK, Most
  <2>3. CASE ReadersThrow
    <3>1. UNCHANGED <<kind, currentBuffer, isOnDisk, error, isFirstSwappingAttempt, swapping,
                      tmp_read, callbacks, tmp, dest, calls, logical>>
      BY <2>3, ThrowEnds
    <3>2. /\ pc' = "thrown" /\ isFirstSaveAttempt' \in BOOLEAN /\ faults' \in 0..MaxFaults
          /\ \/ UNCHANGED <<bufs, realSize>>
             \/ bufs' = [b \in {"bufA", "bufB"} |-> <<>>] /\ realSize' = 0
      BY <2>3, ThrowTypes DEF TypeOK
    <3>3. Most' = Most
      BY <3>1 DEF Most
    <3>4. bufs' \in [{"bufA", "bufB"} -> Content] /\ realSize' \in 0..Most
      <4>1. CASE UNCHANGED <<bufs, realSize>>
        BY <4>1 DEF TypeOK, Most
      <4>2. CASE bufs' = [b \in {"bufA", "bufB"} |-> <<>>] /\ realSize' = 0
        BY <4>2 DEF Content
      <4> QED
        BY <3>2, <4>1, <4>2
    <3> QED
      BY <3>1, <3>2, <3>3, <3>4 DEF TypeOK, Most
  <2>4. CASE ReadersStep
    BY <2>1, <2>4, StepAlive
  <2> QED
    BY <2>1, <2>2, <2>3, <2>4 DEF ReadersNext
<1> QED
  BY <1>1, <1>2, <1>3, TypesAlways, PTL DEF ReadersSpec


-----------------------------------------------------------------------------
(* The pieces a buffer holds.                                               *)

\* What is made of lists of pieces.
LEMMA PieceLists ==
  ASSUME NEW n \in Nat, NEW X \in Seq(0..n), NEW Y \in Seq(0..n)
  PROVE  /\ <<>> \in Seq(0..n) /\ X \o Y \in Seq(0..n)
         /\ Seq(0..n) \subseteq Seq(0..(n + 1)) /\ Append(X, n + 1) \in Seq(0..(n + 1))
         /\ \A p \in 0..n : <<p>> \in Seq(0..n)
<1>1. 0..n \subseteq 0..(n + 1) /\ n + 1 \in 0..(n + 1)
  OBVIOUS
<1>2. Seq(0..n) \subseteq Seq(0..(n + 1))
  BY <1>1
<1>3. Append(X, n + 1) \in Seq(0..(n + 1))
  <2> DEFINE T == 0..(n + 1)
  <2>1. X \in Seq(T) /\ n + 1 \in T
    BY <1>1, <1>2
  <2> HIDE DEF T
  <2>2. Append(X, n + 1) \in Seq(T)
    BY <2>1
  <2> QED
    BY <2>2 DEF T
<1>4. X \o Y \in Seq(0..n)
  <2> DEFINE T == 0..n
  <2>1. X \in Seq(T) /\ Y \in Seq(T)
    OBVIOUS
  <2> HIDE DEF T
  <2>2. X \o Y \in Seq(T)
    BY <2>1
  <2> QED
    BY <2>2 DEF T
<1> QED
  BY <1>2, <1>3, <1>4

\* The vectors of a buffer when the application calls it hold pieces.
LEMMA CallVectors ==
  ASSUME TokenInv, SwapInv, PiecesInv, AppCall \/ Enqueue("make_chunked_stream")
  PROVE  /\ Len(calls) \in Nat /\ Len(calls') = Len(calls) + 1
         /\ bufs' \in [Buffers -> Seq(0..Len(calls'))]
<1> PICK n \in Nat : n = Len(calls)
  BY DEF TokenInv, Lists
<1> DEFINE P == Seq(0..n)
           Q == Seq(0..(n + 1))
           B == bufs[currentBuffer]
<1>1. NewCall
  <2>1. PICK op, size : MayCall(op, size)
    BY DEF AppCall, AppendInMemory, AppendHuge, AppendAndSwap, AppendDuringSwap, AppendCall,
       Enqueue
  <2> QED
    BY <2>1, CalledIs DEF TokenInv
<1>2. Len(calls') = n + 1
  BY <1>1, AppendList DEF TokenInv, Lists, NewCall
<1>3. bufs \in [Buffers -> P] /\ currentBuffer \in Buffers /\ swappingBuffer \in Buffers
  BY DEF PiecesInv, Pieces, SwapInv, swappingBuffer, Buffers
<1>4. /\ P \subseteq Q /\ <<>> \in Q /\ B \in P
      /\ Append(B, n + 1) \in Q /\ <<n + 1>> \in Q
  <2>1. B \in P
    BY <1>3
  <2> HIDE DEF B
  <2>2. P \subseteq Q /\ <<>> \in P /\ Append(B, n + 1) \in Q
    BY <2>1, PieceLists
  <2>3. <<n + 1>> \in Q
    OBVIOUS
  <2> QED
    BY <2>1, <2>2, <2>3
<1>5. New = n + 1
  BY DEF New
<1> HIDE DEF P, Q, B
<1>6. bufs \in [Buffers -> Q]
  BY <1>3, <1>4
<1>7. \A X, Y \in Q : /\ [bufs EXCEPT ![currentBuffer] = X] \in [Buffers -> Q]
                      /\ [bufs EXCEPT ![currentBuffer] = X, ![swappingBuffer] = Y] \in [Buffers -> Q]
  BY <1>3, <1>6
<1>8. bufs' \in [Buffers -> Q]
  <2>1. ASSUME NEW size, AppendInMemory(size) \/ AppendDuringSwap(size)
        PROVE  bufs' \in [Buffers -> Q]
    BY <1>4, <1>5, <1>7, <2>1 DEF AppendInMemory, AppendDuringSwap, B
  <2>2. ASSUME NEW size, AppendHuge(size)
        PROVE  bufs' \in [Buffers -> Q]
    BY <1>4, <1>5, <1>7, <2>2 DEF AppendHuge, startSwapping, B
  <2>3. ASSUME NEW size, AppendAndSwap(size)
        PROVE  bufs' \in [Buffers -> Q]
    BY <1>4, <1>5, <1>7, <2>3 DEF AppendAndSwap, startSwapping, B
  <2>4. ASSUME NEW op, Enqueue(op)
        PROVE  bufs' \in [Buffers -> Q]
    BY <1>6, <2>4 DEF Enqueue, bufferVars
  <2> QED
    BY <2>1, <2>2, <2>3, <2>4 DEF AppCall
<1> QED
  BY <1>2, <1>8 DEF Q

\* What is made of lists of pieces, as the steps make it.
LEMMA PiecesClosed ==
  ASSUME TokenInv, NEW X \in Pieces, NEW Y \in Pieces
  PROVE  <<>> \in Pieces /\ X \o Y \in Pieces
<1> PICK n \in Nat : n = Len(calls)
  BY DEF TokenInv, Lists
<1> QED
  BY PieceLists DEF Pieces

\* The pieces of the vectors and of the files.
LEMMA PiecesOf ==
  ASSUME TokenInv, SwapInv, PiecesInv
  PROVE  /\ bufs \in [Buffers -> Pieces] /\ tmp \in Pieces \cup {None} /\ None \notin Pieces
         /\ dest \in Pieces /\ tmp_read \in Pieces /\ <<>> \in Pieces
         /\ currentBuffer \in Buffers /\ bufs[currentBuffer] \in Pieces
<1>1. bufs \in [Buffers -> Pieces] /\ currentBuffer \in Buffers
  BY DEF PiecesInv, SwapInv, Buffers
<1>2. None \notin Pieces
  <2>1. Len(calls) <= MaxCalls /\ Len(calls) \in Nat /\ MaxCalls \in Nat
    BY SwappingBufferAssumption DEF TokenInv, Lists
  <2>2. 0..Len(calls) \subseteq 0..MaxCalls
    BY <2>1
  <2>3. Pieces \subseteq Seq(0..MaxCalls)
    <3> DEFINE A == 0..Len(calls)
               B == 0..MaxCalls
    <3>1. A \subseteq B
      BY <2>2
    <3> HIDE DEF A, B
    <3>2. Seq(A) \subseteq Seq(B)
      BY <3>1
    <3> QED
      BY <3>2 DEF A, B, Pieces
  <2> QED
    BY <2>3, SwappingBufferAssumption
<1>3. <<>> \in Pieces
  BY DEF Pieces
<1> QED
  BY <1>1, <1>2, <1>3 DEF PiecesInv

\* A step of the io_service keeps the pieces together.
LEMMA StepPieces ==
  ASSUME TokenInv, SwapInv, PiecesInv, TypesInv, Run \/ Handle \/ CallbackReturns \/ ReaderRuns \/ Ask \/ Stop
  PROVE  /\ bufs' \in [Buffers -> Pieces] /\ tmp' \in Pieces \cup {None}
         /\ dest' \in Pieces /\ tmp_read' \in Pieces
<1> DEFINE t == Head(io_)
           B == bufs[currentBuffer]
           Kept == /\ bufs' \in [Buffers -> Pieces] /\ tmp' \in Pieces \cup {None}
                   /\ dest' \in Pieces /\ tmp_read' \in Pieces
<1>0. /\ bufs \in [Buffers -> Pieces] /\ tmp \in Pieces \cup {None}
      /\ dest \in Pieces /\ tmp_read \in Pieces /\ <<>> \in Pieces
      /\ currentBuffer \in Buffers /\ swappingBuffer \in Buffers /\ B \in Pieces
  BY PiecesOf DEF swappingBuffer, Buffers
<1>1. ASSUME NEW step, Handling(step)
      PROVE  t \in Elements(io_) /\ t.task = "handler" /\ t.request.step = step /\ t.data \in Pieces
  BY <1>1, HeadOfIo DEF Handling, PiecesInv
<1>2. \A X, Y \in Pieces : X \o Y \in Pieces
  BY PiecesClosed
<1>3. ASSUME NEW X \in Pieces
      PROVE  /\ [bufs EXCEPT ![currentBuffer] = X] \in [Buffers -> Pieces]
             /\ [bufs EXCEPT ![currentBuffer] = X, ![swappingBuffer] = <<>>] \in [Buffers -> Pieces]
  BY <1>0
<1> HIDE DEF B, t
<1>4. CASE Run
  <2>1. CASE RunAppend
    BY <1>0, <1>3, <2>1 DEF RunAppend, startSwapping, fileVars, B
  <2>2. CASE RunClear
    BY <1>0, <2>2 DEF RunClear, Buffers
  <2>3. CASE RunSize \/ RunCleared \/ RunReadAll \/ RunSave
    BY <1>0, <2>3 DEF RunSize, RunCleared, RunReadAll, RunSave, bufferVars, fileVars
  <2> QED
    BY <1>4, <2>1, <2>2, <2>3 DEF Run
<1>5. CASE Handle
  <2>1. CASE SwapDone \/ SwapRetry \/ SwapFailed \/ LocalSaved \/ MoveFailed \/ ChunkCopied
    BY <1>0, <2>1 DEF SwapDone, SwapRetry, SwapFailed, LocalSaved, MoveFailed, ChunkCopied,
       bufferVars,
       fileVars
  <2>2. CASE RestSaved
    <3>1. /\ io_ # <<>> /\ Handling("rest") /\ UNCHANGED <<bufs, tmp_read>>
          /\ UNCHANGED <<tmp, dest>> \/ (t.ec = "success" /\ dest' = tmp /\ tmp' = None)
      BY <2>2 DEF RestSaved, Handling, Ec, t
    <3>2. t \in DoneJobs /\ t.request.step = "rest"
      BY <1>1, <3>1 DEF DoneJobs
    <3>3. t.ec = "success" => tmp # None
      BY <3>2 DEF TypesInv
    <3> QED
      BY <1>0, <3>1, <3>3
  <2>3. CASE CopyChunk
    <3>1. t.data \in Pieces /\ UNCHANGED <<bufs, tmp, dest>> /\ tmp_read' \in {tmp_read, t.data}
      BY <1>1, <2>3 DEF CopyChunk, fileVars, t
    <3> QED
      BY <1>0, <3>1
  <2>4. CASE TailSaved
    BY <1>0, <1>3, <2>4 DEF TailSaved, fileVars
  <2>5. CASE ReadDone
    <3>1. UNCHANGED <<bufs, tmp, dest>> /\ tmp_read' \in {tmp_read, tmp_read \o B}
      BY <2>5 DEF ReadDone, fileVars, B
    <3> QED
      BY <1>0, <1>2, <3>1
  <2>6. CASE ReadTmpDone
    <3>1. t.data \in Pieces /\ UNCHANGED <<bufs, tmp, dest>> /\ tmp_read' = (tmp_read \o t.data) \o B
      BY <1>1, <2>6 DEF ReadTmpDone, fileVars, B, t
    <3> DEFINE X == tmp_read \o t.data
    <3>2. X \in Pieces
      BY <1>0, <1>2, <3>1
    <3> HIDE DEF X
    <3>3. X \o B \in Pieces
      BY <1>0, <1>2, <3>2
    <3> QED
      BY <1>0, <3>1, <3>3 DEF X
  <2> QED
    BY <1>5, <2>1, <2>2, <2>3, <2>4, <2>5, <2>6 DEF Handle
<1>6. CASE CallbackReturns \/ ReaderRuns \/ Ask \/ Stop
  <2>1. UNCHANGED <<bufs, tmp, dest, tmp_read>>
    <3>1. CASE CallbackReturns
      BY <3>1 DEF CallbackReturns, bufferVars, fileVars
    <3>2. CASE ReaderRuns
      BY <3>2 DEF ReaderRuns, RunMake, MakeFails, RunMade, OfFile, PassOn, OfTmpFile, Cached,
         Deliver, Task, BufferRests, bufferVars, fileVars
    <3>3. CASE Ask \/ Stop
      BY <3>3 DEF Ask, Stop, BufferRests, vars, bufferVars, fileVars
    <3> QED
      BY <1>6, <3>1, <3>2, <3>3
  <2> QED
    BY <1>0, <2>1
<1> QED
  BY <1>4, <1>5, <1>6

\* So does the worker.
LEMMA WorkerPieces ==
  ASSUME TokenInv, SwapInv, FileInv, JobInv, TypesInv, PiecesInv, PerformRequest
  PROVE  LET r == Head(fs) IN
         /\ Returns(WorkerFile(r), r) \in Pieces /\ tmp_read' \in Pieces /\ dest' \in Pieces
         /\ tmp' \in Pieces \cup {None}
<1> DEFINE r == Head(fs)
           f == WorkerFile(r)
           src == Source(r.buf)
<1>1. /\ fs # <<>> /\ r \in Elements(fs) /\ fs' = Tail(fs)
      /\ r.mode = "read" => f # None
      /\ tmp'  = IF r.file = "tmp"  THEN Completed(f, r) ELSE tmp
      /\ dest' = IF r.file = "dest" THEN Completed(f, r) ELSE dest
      /\ tmp_read' = IF r.buf = "tmp_read" /\ r.mode = "read" THEN f ELSE tmp_read
  <2>1. fs # <<>> /\ fs' = Tail(fs)
    BY DEF PerformRequest
  <2>2. r \in Elements(fs)
    BY <2>1, FsSets
  <2> QED
    BY <2>1, <2>2 DEF PerformRequest
<1>2. /\ bufs \in [Buffers -> Pieces] /\ tmp \in Pieces \cup {None} /\ None \notin Pieces
      /\ dest \in Pieces /\ tmp_read \in Pieces /\ <<>> \in Pieces
  BY PiecesOf
<1>3. RequestTypes(r)
  BY <1>1 DEF TypesInv
<1>4. r.mode \in {"append", "write"} => src \in Pieces
  BY <1>2, <1>3 DEF RequestTypes, Source, Buffers
<1>5. /\ f \in Pieces \cup {None} /\ (r.file = "tmp" => f = tmp)
      /\ r.file # "tmp" => f \in Pieces /\ f = dest
  BY <1>2 DEF WorkerFile
<1>6. CASE r.mode \in {"append", "write"}
  <2>1. Completed(f, r) \in Pieces
    <3>1. CASE r.mode = "write" \/ f = None
      BY <1>4, <1>6, <3>1 DEF Completed
    <3>2. CASE r.mode = "append" /\ f # None
      <4>1. Completed(f, r) = f \o src
        BY <3>2 DEF Completed
      <4>2. f \in Pieces /\ src \in Pieces
        BY <1>4, <1>5, <1>6, <3>2
      <4>3. f \o src \in Pieces
        <5> HIDE DEF f, src
        <5> QED
          BY <4>2, PiecesClosed
      <4> QED
        BY <4>1, <4>3
    <3> QED
      BY <1>6, <3>1, <3>2
  <2>2. Returns(f, r) = <<>>
    BY <1>6 DEF Returns
  <2> HIDE DEF f, r
  <2> QED
    BY <1>1, <1>2, <1>6, <2>1, <2>2 DEF f, r
<1>7. CASE r.mode = "read"
  <2>1. f \in Pieces /\ Completed(f, r) = f /\ Returns(f, r) = f
    BY <1>1, <1>5, <1>7 DEF Completed, Returns
  <2> HIDE DEF f, r
  <2> QED
    BY <1>1, <1>2, <1>5, <1>7, <2>1 DEF f, r
<1>8. CASE r.mode = "chunk"
  <2>1. r.step = "chunk" /\ r \in Jobs
    BY <1>1, <1>3, <1>8 DEF RequestTypes, Jobs
  <2>2. PendingChunk(r)
    BY <2>1 DEF TypesInv, CopySteps, JobInv, Pending
  <2>3. tmp # None /\ r.file = "tmp" /\ IsPlace(r.n) /\ f = tmp
    BY <2>2 DEF PendingChunk, Does, AllStored, WorkerFile
  <2>4. Completed(f, r) = f
    BY <1>8 DEF Completed
  <2>5. Returns(f, r) \in Pieces
    <3>1. Returns(f, r) = IF tmp = <<>> THEN <<>> ELSE <<tmp[r.n]>>
      BY <1>8, <2>3 DEF Returns
    <3> PICK n, c : n = r.n /\ c = Len(calls)
      OBVIOUS
    <3> PICK X, S : X = tmp /\ S = 0..c
      OBVIOUS
    <3>2. X \in Seq(S)
      BY <1>2, <2>3 DEF Pieces
    <3>3. X # <<>> => n \in 1..Len(X)
      <4>1. n \in Nat \ {0} /\ (n = 1 \/ n <= Len(X))
        BY <2>3 DEF IsPlace
      <4>2. X # <<>> => Len(X) \in Nat /\ 1 <= Len(X)
        BY <3>2
      <4> QED
        BY <3>2, <4>1, <4>2
    <3>4. X # <<>> => X[n] \in S
      BY <3>2, <3>3, ElementOfSeq
    <3>5. \A x \in S : <<x>> \in Seq(S)
      OBVIOUS
    <3>6. X # <<>> => <<X[n]>> \in Pieces
      BY <3>4, <3>5 DEF Pieces
    <3> QED
      BY <1>2, <3>1, <3>6
  <2> HIDE DEF f, r
  <2> QED
    BY <1>1, <1>2, <1>8, <2>3, <2>4, <2>5 DEF f, r
<1>9. CASE r.mode \notin {"append", "write", "read", "chunk"}
  <2>1. Completed(f, r) = f /\ Returns(f, r) = <<>>
    BY <1>9 DEF Completed, Returns
  <2> HIDE DEF f, r
  <2> QED
    BY <1>1, <1>2, <1>5, <1>9, <2>1 DEF f, r
<1> QED
  BY <1>6, <1>7, <1>8, <1>9

\* Every step keeps the pieces together.
LEMMA PiecesStep ==
  ASSUME IInv, TypesInv, PiecesInv, SwapsAwaited, ReadsAlone, [ReadersStep]_allVars
  PROVE  PiecesInv'
<1>0. /\ TokenInv /\ RequestInv /\ KindInv /\ OverlapInv /\ SwapInv /\ FileInv /\ OrderInv /\ WorkInv /\ JobInv
  BY DEF IInv, CallInv
<1>1. ASSUME \A t \in Elements(io_') : t.task = "handler" => t \in Elements(io_) \/ t.data \in Pieces,
             UNCHANGED calls, bufs' \in [Buffers -> Pieces], tmp' \in Pieces \cup {None},
             dest' \in Pieces, tmp_read' \in Pieces
      PROVE  PiecesInv'
  <2>1. Pieces' = Pieces
    BY <1>1 DEF Pieces
  <2>2. \A t \in Elements(io_') : t.task = "handler" => t.data \in Pieces
    BY <1>1 DEF PiecesInv
  <2> QED
    BY <1>1, <2>1, <2>2 DEF PiecesInv
<1>2. CASE UNCHANGED vars
  <2>1. UNCHANGED <<bufs, tmp, dest, tmp_read, calls, io_>>
    BY <1>2 DEF vars, bufferVars, fileVars, queueVars
  <2> QED
    BY <1>1, <2>1 DEF PiecesInv
<1>3. CASE AppCall \/ Enqueue("make_chunked_stream")
  <2>1. UNCHANGED <<tmp, dest, tmp_read>>
    BY <1>3 DEF AppCall, AppendInMemory, AppendHuge, AppendAndSwap, AppendDuringSwap, AppendCall,
       Enqueue, fileVars
  <2>2. \A t \in Elements(io_') : t.task = "handler" => t \in Elements(io_)
    BY <1>0, <1>3, CallAdds
  <2>3. /\ Len(calls) \in Nat /\ Len(calls') = Len(calls) + 1
        /\ bufs' \in [Buffers -> Seq(0..Len(calls'))]
    BY <1>0, <1>3, CallVectors
  <2>4. Pieces \subseteq Pieces'
    <3> PICK n \in Nat : n = Len(calls) /\ n + 1 = Len(calls')
      BY <2>3
    <3> QED
      BY PieceLists DEF Pieces
  <2>5. /\ bufs' \in [Buffers -> Pieces'] /\ tmp' \in Pieces' \cup {None}
        /\ dest' \in Pieces' /\ tmp_read' \in Pieces'
    BY <2>1, <2>3, <2>4 DEF Pieces, PiecesInv
  <2>6. \A t \in Elements(io_') : t.task = "handler" => t.data \in Pieces'
    BY <2>2, <2>4 DEF PiecesInv
  <2> QED
    BY <2>5, <2>6 DEF PiecesInv
<1>4. CASE Run \/ Handle \/ CallbackReturns \/ ReaderRuns \/ Ask \/ Stop
  <2>1. /\ bufs' \in [Buffers -> Pieces] /\ tmp' \in Pieces \cup {None}
        /\ dest' \in Pieces /\ tmp_read' \in Pieces
    BY <1>0, <1>4, StepPieces
  <2>2. UNCHANGED calls
    BY <1>4, AnsweringStep DEF Answering
  <2>3. \A t \in Elements(io_') : t.task = "handler" => t \in Elements(io_)
    <3>1. CASE CallbackReturns
      <4>1. \A t \in Elements(io_') : t \in Elements(io_) \/ t.task = "operation"
        BY <1>0, <3>1, CallAdds
      <4> QED
        BY <4>1
    <3>2. CASE Run \/ Handle
      <4>1. PlainStep
        BY <1>0, <3>2, RunPlain, HandlePlain
      <4>2. UNCHANGED fs \/ \E r : Submit(r)
        BY <1>0, <3>2, StepAdds
      <4> QED
        BY <1>0, <4>1, <4>2, HandlersKept
    <3>3. CASE ReaderRuns \/ Ask \/ Stop
      <4>1. PlainStep
        BY <3>3, ReaderPlain
      <4>2. UNCHANGED fs
        BY <3>3, ReaderLeavesFs
      <4> QED
        BY <1>0, <4>1, <4>2, HandlersKept
    <3> QED
      BY <1>4, <3>1, <3>2, <3>3
  <2> QED
    BY <1>1, <2>1, <2>2, <2>3
<1>5. CASE Worker
  <2>1. UNCHANGED <<calls, bufs>>
    BY <1>5 DEF Worker, PerformRequest, FailRequest, bufferVars
  <2>2. /\ bufs \in [Buffers -> Pieces] /\ tmp \in Pieces \cup {None}
        /\ dest \in Pieces /\ tmp_read \in Pieces /\ <<>> \in Pieces
    BY <1>0, PiecesOf
  <2>3. PICK code, data : /\ Handler(Head(fs), code, data) /\ data \in Pieces
                          /\ tmp_read' \in Pieces /\ dest' \in Pieces /\ tmp' \in Pieces \cup {None}
    <3>1. CASE PerformRequest
      <4>1. Handler(Head(fs), CodeOf(WorkerFile(Head(fs)), Head(fs)), Returns(WorkerFile(Head(fs)), Head(fs)))
        BY <3>1 DEF PerformRequest
      <4> QED
        BY <1>0, <3>1, <4>1, WorkerPieces
    <3>2. CASE FailRequest
      <4>1. /\ UNCHANGED <<tmp, dest, tmp_read>>
            /\ \E code \in {"open_failure", "other_failure"} : Handler(Head(fs), code, <<>>)
        BY <3>2 DEF FailRequest
      <4> QED
        BY <2>2, <4>1
    <3> QED
      BY <1>5, <3>1, <3>2 DEF Worker
  <2> DEFINE t == [task |-> "handler", call |-> Head(fs).call, request |-> Head(fs), ec |-> code, data |-> data]
  <2>4. io_' = Append(io_, t) /\ t.data = data
    BY <2>3 DEF Handler
  <2> HIDE DEF t
  <2>5. Elements(io_') = Elements(io_) \cup {t}
    BY <1>0, <2>4, AppendList DEF TokenInv, Lists
  <2>6. \A u \in Elements(io_') : u.task = "handler" => u \in Elements(io_) \/ u.data \in Pieces
    BY <2>3, <2>4, <2>5
  <2> QED
    BY <1>1, <2>1, <2>2, <2>3, <2>6
<1> QED
  BY <1>2, <1>3, <1>4, <1>5, ReadersSteps DEF allVars

\* The pieces of a buffer are calls that were made, in every state.
LEMMA PiecesInitially == ReadersInit => PiecesInv
<1> SUFFICES ASSUME Init PROVE PiecesInv
  BY DEF ReadersInit
<1>1. Elements(io_) = {} /\ Len(calls) = 0
  BY EmptyList DEF Init
<1>2. <<>> \in Pieces /\ <<0>> \in Pieces
  BY <1>1 DEF Pieces
<1> QED
  BY <1>1, <1>2 DEF Init, PiecesInv, Buffers

=============================================================================

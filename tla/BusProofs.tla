------------------------------ MODULE BusProofs ------------------------------
(* Theorems about Bus, for any number of events, listeners and functions,   *)
(* and publications nested to any depth.                                    *)
EXTENDS Bus, FiniteSetTheorems, SequenceTheorems, WellFoundedInduction, TLAPS

-----------------------------------------------------------------------------
(* The inductive invariant.                                                 *)

\* What a publication p of the list cs has behind it and before it, when the calls
\* in valid are the valid ones.
Passed(p, cs, valid) ==
  /\ p.it \in 0..Len(cs)
  /\ p.running # None => p.it >= 1 /\ cs[p.it] = p.running /\ p.running \in ToSet(p.got)
  /\ IsInjective(p.got) /\ ToSet(p.got) \subseteq p.due /\ p.due \cap p.gone = {}
  /\ \A k \in 1..p.it : /\ cs[k] \in p.due \cup p.gone
                        /\ cs[k] \in ToSet(p.got) => p.running # None /\ k = p.it
  /\ \A c \in p.due \cap valid : c \in ToSet(p.got) \/ \E k \in 1..p.it : cs[k] = c
  /\ p.gone \cap valid = {}
  /\ \A k \in (p.it + 1)..Len(cs) : cs[k] \notin p.gone

Types ==
  /\ calls \in [Events -> Seq(Call)]
  /\ stack \in Seq(Publication)
  /\ wanted \in [Events -> SUBSET Call]
  /\ held \in SUBSET Listeners

\* No event is published by two publications under way.
Distinct ==
  \A i, j \in DOMAIN stack : stack[i].event = stack[j].event => i = j

IInv ==
  /\ Types
  /\ SubscribedOnce
  /\ Distinct
  /\ \A i \in DOMAIN stack : Passed(stack[i], calls[stack[i].event], Live(Call))

-----------------------------------------------------------------------------
(* Lists of calls.                                                          *)

\* What is kept of a list: the elements at those places, none of them twice.
LEMMA KeptElements ==
  ASSUME NEW S, NEW cs \in Seq(S), NEW keep \in SUBSET DOMAIN cs
  PROVE  /\ Kept(cs, keep) \in Seq(S)
         /\ ToSet(Kept(cs, keep)) = {cs[i] : i \in keep}
         /\ IsInjective(cs) => IsInjective(Kept(cs, keep))
<1> DEFINE upto(i) == {j \in keep : j <= i}
           rank == [i \in keep |-> Cardinality(upto(i))]
           n == Cardinality(keep)
           nth(k) == CHOOSE i \in keep : Cardinality(upto(i)) = k
<1>1. keep \subseteq 1..Len(cs) /\ Len(cs) \in Nat
  BY LenProperties
<1>2. IsFiniteSet(keep) /\ n \in Nat
  <2>1. IsFiniteSet(1..Len(cs))
    BY <1>1, FS_Interval
  <2>2. IsFiniteSet(keep)
    BY <1>1, <2>1, FS_Subset
  <2> QED
    BY <2>2, FS_CardinalityType
<1>3. ASSUME NEW i \in keep
      PROVE  IsFiniteSet(upto(i)) /\ rank[i] \in 1..n
  <2>1. IsFiniteSet(upto(i)) /\ rank[i] <= n /\ rank[i] \in Nat
    BY <1>2, FS_Subset, FS_CardinalityType
  <2>2. i \in upto(i)
    BY <1>1
  <2>3. rank[i] # 0
    BY <2>1, <2>2, FS_EmptySet
  <2> HIDE DEF rank
  <2> QED
    BY <1>2, <2>1, <2>3
<1>4. ASSUME NEW i \in keep, NEW j \in keep, i < j
      PROVE  rank[i] # rank[j]
  <2>1. upto(i) \in SUBSET upto(j) /\ j \in upto(j) /\ j \notin upto(i)
    BY <1>1, <1>4
  <2> HIDE DEF upto
  <2>2. Cardinality(upto(j)) # Cardinality(upto(i))
    BY <1>3, <2>1, FS_Subset
  <2> QED
    BY <2>2
<1>5. rank \in Injection(keep, 1..n)
  <2>1. rank \in [keep -> 1..n]
    BY <1>3
  <2>2. ASSUME NEW i \in keep, NEW j \in keep, rank[i] = rank[j] PROVE i = j
    <3>1. i \in Nat /\ j \in Nat
      BY <1>1
    <3> HIDE DEF rank
    <3> QED
      BY <1>4, <2>2, <3>1
  <2> QED
    BY <2>1, <2>2 DEF Injection, IsInjective
<1>6. rank \in Surjection(keep, 1..n)
  <2>1. IsFiniteSet(1..n) /\ Cardinality(1..n) = n
    BY <1>2, FS_Interval
  <2> HIDE DEF rank
  <2> QED
    BY <1>5, <2>1, FS_Injection
<1>7. \A k \in 1..n : nth(k) \in keep /\ rank[nth(k)] = k
  BY <1>6 DEF Surjection
<1>8. \A i \in keep : rank[i] \in 1..n /\ nth(rank[i]) = i
  BY <1>3, <1>5, <1>7 DEF Injection, IsInjective
<1>9. Kept(cs, keep) = [k \in 1..n |-> cs[nth(k)]]
  BY DEF Kept
<1> HIDE DEF rank, nth, n
<1>10. Kept(cs, keep) \in Seq(S) /\ DOMAIN Kept(cs, keep) = 1..n
  <2>1. \A k \in 1..n : cs[nth(k)] \in S
    BY <1>1, <1>7
  <2> QED
    BY <1>2, <1>9, <2>1, IsASeq
<1>11. ToSet(Kept(cs, keep)) = {cs[i] : i \in keep}
  BY <1>7, <1>8, <1>9 DEF ToSet
<1>12. ASSUME IsInjective(cs) PROVE IsInjective(Kept(cs, keep))
  <2> SUFFICES ASSUME NEW k \in 1..n, NEW l \in 1..n, cs[nth(k)] = cs[nth(l)]
               PROVE  k = l
    BY <1>9 DEF IsInjective
  <2>1. nth(k) = nth(l)
    BY <1>7, <1>12 DEF IsInjective
  <2> QED
    BY <1>7, <2>1
<1> QED
  BY <1>10, <1>11, <1>12

\* Removing a call takes no other valid call away and leaves none twice.
LEMMA RemoveKeeps ==
  ASSUME NEW cs \in Seq(Call), NEW c \in Call, NEW live
  PROVE  LET rest == remove(cs, c, live)
         IN  /\ rest \in Seq(Call)
             /\ IsInjective(cs) => IsInjective(rest)
             /\ ToSet(rest) \subseteq ToSet(cs) \ {c}
             /\ \A d \in ToSet(cs) \ {c} : Valid(d, live) => d \in ToSet(rest)
<1> DEFINE keep == {i \in DOMAIN cs : ~Equal(cs[i], c, live)}
           rest == remove(cs, c, live)
<1>1. /\ rest \in Seq(Call) /\ ToSet(rest) = {cs[i] : i \in keep}
      /\ IsInjective(cs) => IsInjective(rest)
  BY KeptElements DEF remove
<1>2. Equal(c, c, live)
  BY DEF Equal
<1>3. ASSUME NEW d \in Call, Valid(d, live), Equal(d, c, live) PROVE d = c
  <2>1. d.call = c.call /\ lock(d, live) = lock(c, live)
    BY <1>3 DEF Equal
  <2>2. CASE d.call \in Functions
    BY <2>1, <2>2, BusAssumption DEF Call
  <2>3. CASE d.call \notin Functions
    <3>1. d.instance \in Listeners /\ d.instance \in live
      BY <1>3, <2>3 DEF Call, Valid
    <3>2. c.instance = d.instance
      BY <2>1, <3>1, BusAssumption DEF lock
    <3> QED
      BY <2>1, <3>1, <3>2 DEF Call
  <2> QED
    BY <2>2, <2>3
<1>4. ASSUME NEW d \in ToSet(cs), d # c, Valid(d, live) PROVE d \in ToSet(rest)
  <2>1. PICK i \in DOMAIN cs : d = cs[i]
    BY DEF ToSet
  <2>2. d \in Call
    BY <2>1
  <2>3. i \in keep
    BY <1>3, <1>4, <2>1, <2>2
  <2> QED
    BY <1>1, <2>1, <2>3
<1>5. ToSet(rest) \subseteq ToSet(cs) \ {c}
  BY <1>1, <1>2 DEF ToSet
<1> QED
  BY <1>1, <1>4, <1>5

\* An element put behind a list that lacks it is in it once.
LEMMA AppendNew ==
  ASSUME NEW S, NEW s \in Seq(S), NEW c \in S
  PROVE  /\ Append(s, c) \in Seq(S)
         /\ ToSet(Append(s, c)) = ToSet(s) \cup {c}
         /\ IsInjective(s) /\ c \notin ToSet(s) => IsInjective(Append(s, c))
<1> DEFINE t == Append(s, c)
           n == Len(s)
<1>1. /\ t \in Seq(S) /\ DOMAIN t = 1..(n + 1) /\ n \in Nat
      /\ t[n + 1] = c /\ DOMAIN s = 1..n /\ \A i \in 1..n : t[i] = s[i]
  BY AppendProperties, LenProperties
<1> HIDE DEF t, n
<1>2. ToSet(t) = ToSet(s) \cup {c}
  BY <1>1 DEF ToSet
<1>3. ASSUME IsInjective(s), c \notin ToSet(s) PROVE IsInjective(t)
  <2> SUFFICES ASSUME NEW i \in DOMAIN t, NEW j \in DOMAIN t, t[i] = t[j]
               PROVE  i = j
    BY DEF IsInjective
  <2>1. CASE i \in 1..n /\ j \in 1..n
    BY <1>1, <1>3, <2>1 DEF IsInjective
  <2>2. CASE i = n + 1 \/ j = n + 1
    BY <1>1, <1>3, <2>2 DEF ToSet
  <2> QED
    BY <1>1, <2>1, <2>2
<1> QED
  BY <1>1, <1>2, <1>3 DEF t

\* Adding a call adds it once.
LEMMA AddKeeps ==
  ASSUME NEW cs \in Seq(Call), NEW c \in Call, NEW live
  PROVE  LET more == add(cs, c, live)
         IN  /\ more \in Seq(Call)
             /\ IsInjective(cs) => IsInjective(more)
             /\ ToSet(more) \subseteq ToSet(cs) \cup {c} /\ c \in ToSet(more)
             /\ \A d \in ToSet(cs) : Valid(d, live) => d \in ToSet(more)
<1> DEFINE rest == remove(cs, c, live)
           more == add(cs, c, live)
<1>1. /\ rest \in Seq(Call)
      /\ IsInjective(cs) => IsInjective(rest)
      /\ ToSet(rest) \subseteq ToSet(cs) \ {c}
      /\ \A d \in ToSet(cs) \ {c} : Valid(d, live) => d \in ToSet(rest)
  BY RemoveKeeps
<1>2. more = Append(rest, c)
  BY DEF add
<1> HIDE DEF rest, more
<1>3. /\ more \in Seq(Call) /\ ToSet(more) = ToSet(rest) \cup {c}
      /\ IsInjective(rest) => IsInjective(more)
  BY <1>1, <1>2, AppendNew
<1> QED
  BY <1>1, <1>3 DEF more

\* Erasing an element moves those after it up.
LEMMA EraseKeeps ==
  ASSUME NEW cs \in Seq(Call), NEW i \in 1..Len(cs)
  PROVE  LET rest == erase(cs, i)
         IN  /\ rest \in Seq(Call) /\ Len(rest) = Len(cs) - 1
             /\ \A k \in 1..Len(rest) : rest[k] = IF k < i THEN cs[k] ELSE cs[k + 1]
<1> DEFINE front == SubSeq(cs, 1, i - 1)
           back == SubSeq(cs, i + 1, Len(cs))
<1>1. Len(cs) \in Nat /\ i \in Int /\ i - 1 \in Int /\ i + 1 \in Int
  BY LenProperties
<1>2. \A k \in 1..Len(cs) : cs[k] \in Call
  BY LenProperties
<1>3. /\ front \in Seq(Call) /\ Len(front) = i - 1
      /\ \A k \in 1..(i - 1) : front[k] = cs[k]
  BY <1>1, <1>2, SubSeqProperties
<1>4. /\ back \in Seq(Call) /\ Len(back) = Len(cs) - i
      /\ \A k \in 1..(Len(cs) - i) : back[k] = cs[k + i]
  BY <1>1, <1>2, SubSeqProperties
<1>5. erase(cs, i) = front \o back
  BY DEF erase, RemoveAt
<1> DEFINE rest == erase(cs, i)
<1> HIDE DEF front, back
<1>6. /\ rest \in Seq(Call) /\ Len(rest) = Len(front) + Len(back)
      /\ \A k \in 1..(Len(front) + Len(back)) :
           rest[k] = IF k <= Len(front) THEN front[k] ELSE back[k - Len(front)]
  <2>1. /\ front \o back \in Seq(Call) /\ Len(front \o back) = Len(front) + Len(back)
        /\ \A k \in 1..(Len(front) + Len(back)) :
             (front \o back)[k] = IF k <= Len(front) THEN front[k] ELSE back[k - Len(front)]
    <3>1. front \in Seq(Call) /\ back \in Seq(Call)
      BY <1>3, <1>4
    <3> QED
      BY <3>1, ConcatProperties
  <2> QED
    BY <1>5, <2>1
<1> HIDE DEF rest
<1>7. Len(rest) = Len(cs) - 1
  BY <1>1, <1>3, <1>4, <1>6
<1>8. ASSUME NEW k \in 1..Len(rest), k < i PROVE rest[k] = cs[k]
  <2>1. k \in 1..(Len(front) + Len(back)) /\ k <= Len(front) /\ k \in 1..(i - 1)
    BY <1>1, <1>3, <1>6, <1>8
  <2>2. rest[k] = front[k]
    BY <1>6, <2>1
  <2> QED
    BY <1>3, <2>1, <2>2
<1>9. ASSUME NEW k \in 1..Len(rest), ~(k < i) PROVE rest[k] = cs[k + 1]
  <2>1. /\ k \in 1..(Len(front) + Len(back)) /\ ~(k <= Len(front))
        /\ k - Len(front) \in 1..(Len(cs) - i) /\ k - Len(front) + i = k + 1
    BY <1>1, <1>3, <1>6, <1>7, <1>9
  <2>2. rest[k] = back[k - Len(front)]
    BY <1>6, <2>1
  <2>3. back[k - Len(front)] = cs[k - Len(front) + i]
    BY <1>4, <2>1
  <2> QED
    BY <2>1, <2>2, <2>3
<1> QED
  BY <1>6, <1>7, <1>8, <1>9 DEF rest

-----------------------------------------------------------------------------
(* What is alive.                                                           *)

\* Valid calls become fewer when listeners do.
LEMMA FewerValid ==
  ASSUME NEW C, C \subseteq Call, alive' \subseteq alive \cup {None}
  PROVE  Live(C)' \subseteq Live(C)
<1> SUFFICES ASSUME NEW c \in C, Valid(c, alive') PROVE Valid(c, alive)
  BY DEF Live
<1>1. CASE c.call \in Functions
  BY <1>1 DEF Valid
<1>2. CASE c.call \notin Functions
  <2>1. c.instance \in Listeners /\ c.instance \in alive'
    BY <1>2 DEF Valid, Call
  <2> QED
    BY <2>1, BusAssumption DEF Valid
<1> QED
  BY <1>1, <1>2

\* When calls become invalid a publication has no more to do.
LEMMA PassedKeeps ==
  ASSUME NEW p, NEW cs, NEW V, NEW W \in SUBSET V, Passed(p, cs, V)
  PROVE  Passed(p, cs, W)
BY DEF Passed

-----------------------------------------------------------------------------
(* Steps that change no list under publication.                             *)

LEMMA InitInv == Init => IInv
<1> SUFFICES ASSUME Init PROVE IInv
  OBVIOUS
<1>1. stack = <<>> /\ DOMAIN stack = {}
  BY DEF Init
<1>2. Types
  BY DEF Init, Types
<1>3. SubscribedOnce
  BY DEF Init, SubscribedOnce, IsInjective, ToSet, Live
<1> QED
  BY <1>1, <1>2, <1>3 DEF IInv, Distinct

\* The lists change by adding or removing a call, none of them while it is published.
Changed(e) ==
  \/ calls'[e] = calls[e] /\ wanted'[e] = wanted[e]
  \/ /\ ~Busy(e)
     /\ \E c \in Call : \/ /\ calls'[e] = add(calls[e], c, alive)
                         /\ wanted'[e] = wanted[e] \cup {c}
                      \/ /\ calls'[e] = remove(calls[e], c, alive)
                         /\ wanted'[e] = wanted[e] \ {c}

LEMMA ListsKeep ==
  ASSUME IInv, UNCHANGED <<held, stack>>,
         calls' = [e \in Events |-> calls'[e]], wanted' = [e \in Events |-> wanted'[e]],
         \A e \in Events : Changed(e)
  PROVE  IInv'
<1>1. alive' = alive
  BY DEF alive
<1>2. \A C : Live(C)' = {c \in C : Valid(c, alive)}
  BY <1>1 DEF Live
<1>3. ASSUME NEW e \in Events
      PROVE  /\ calls'[e] \in Seq(Call) /\ wanted'[e] \in SUBSET Call
             /\ IsInjective(calls'[e])
             /\ \A d \in Call : Valid(d, alive) => (d \in ToSet(calls'[e]) <=> d \in wanted'[e])
  <2>1. /\ calls[e] \in Seq(Call) /\ wanted[e] \in SUBSET Call /\ IsInjective(calls[e])
        /\ \A d \in Call : Valid(d, alive) => (d \in ToSet(calls[e]) <=> d \in wanted[e])
    BY DEF IInv, Types, SubscribedOnce, Live
  <2>2. CASE calls'[e] = calls[e] /\ wanted'[e] = wanted[e]
    BY <2>1, <2>2
  <2>3. ASSUME NEW c \in Call, calls'[e] = add(calls[e], c, alive), wanted'[e] = wanted[e] \cup {c}
        PROVE  <1>3!2
    BY <2>1, <2>3, AddKeeps
  <2>4. ASSUME NEW c \in Call, calls'[e] = remove(calls[e], c, alive), wanted'[e] = wanted[e] \ {c}
        PROVE  <1>3!2
    BY <2>1, <2>4, RemoveKeeps
  <2> QED
    BY <2>2, <2>3, <2>4 DEF Changed
<1>4. Types'
  BY <1>3 DEF IInv, Types
<1>5. SubscribedOnce'
  <2> SUFFICES ASSUME NEW e \in Events
               PROVE  IsInjective(calls'[e]) /\ Live(ToSet(calls[e]))' = Live(wanted[e])'
    BY DEF SubscribedOnce
  <2>1. ToSet(calls'[e]) \subseteq Call
    BY <1>3 DEF ToSet
  <2> QED
    BY <1>1, <1>3, <2>1 DEF Live
<1>6. \A i \in DOMAIN stack : stack[i].event \in Events /\ Busy(stack[i].event)
  <2>1. \A i \in DOMAIN stack : stack[i] \in Publication
    BY DEF IInv, Types
  <2> QED
    BY <2>1 DEF Publication, Busy
<1>7. \A i \in DOMAIN stack : calls'[stack[i].event] = calls[stack[i].event]
  BY <1>6 DEF Changed
<1>8. Live(Call)' = Live(Call)
  BY <1>1 DEF Live
<1> QED
  BY <1>4, <1>5, <1>7, <1>8 DEF IInv, Distinct

LEMMA AddCallKeeps ==
  ASSUME IInv, NEW e \in Events, NEW c \in Call, AddCall(e, c) \/ RemoveCall(e, c)
  PROVE  IInv'
<1>1. DOMAIN calls = Events /\ DOMAIN wanted = Events
  BY DEF IInv, Types
<1>2. \A f \in Events : Changed(f)
  BY <1>1 DEF AddCall, RemoveCall, Changed
<1> QED
  BY <1>1, <1>2, ListsKeep DEF AddCall, RemoveCall

LEMMA RegKeeps ==
  ASSUME IInv, NEW l \in Listeners, Reg(l) \/ Unreg(l)
  PROVE  IInv'
<1>1. Receive(l) \in Call
  BY BusAssumption DEF Receive, Call
<1>2. \A e \in Events : Changed(e)
  BY <1>1 DEF Reg, Unreg, Changed
<1>3. calls' = [e \in Events |-> calls'[e]] /\ wanted' = [e \in Events |-> wanted'[e]]
  BY DEF Reg, Unreg
<1> QED
  BY <1>2, <1>3, ListsKeep DEF Reg, Unreg

-----------------------------------------------------------------------------
(* Steps that change the stack or destroy a listener.                       *)

\* What the lists need when fewer are alive.
LEMMA FewerKeep ==
  ASSUME Types, SubscribedOnce, alive' \subseteq alive \cup {None},
         UNCHANGED <<calls, wanted>>
  PROVE  SubscribedOnce'
<1> SUFFICES ASSUME NEW e \in Events
             PROVE  IsInjective(calls[e]) /\ Live(ToSet(calls[e]))' = Live(wanted[e])'
  BY DEF SubscribedOnce
<1>1. calls[e] \in Seq(Call) /\ wanted[e] \subseteq Call
  BY DEF Types
<1>2. ToSet(calls[e]) \subseteq Call
  BY <1>1 DEF ToSet
<1>3. Live(Call)' \subseteq Live(Call)
  BY FewerValid
<1>4. Live(ToSet(calls[e])) = Live(wanted[e]) /\ IsInjective(calls[e])
  BY DEF SubscribedOnce
<1>5. \A c \in Call : Valid(c, alive') => Valid(c, alive)
  BY <1>3 DEF Live
<1>6. \A c \in Call : Valid(c, alive) => (c \in ToSet(calls[e]) <=> c \in wanted[e])
  BY <1>4 DEF Live
<1> QED
  BY <1>1, <1>2, <1>4, <1>5, <1>6 DEF Live

LEMMA DropKeeps ==
  ASSUME IInv, NEW l \in Listeners, Drop(l)
  PROVE  IInv'
<1>1. alive' \subseteq alive \cup {None}
  BY DEF Drop, alive
<1>2. Types'
  BY DEF Drop, IInv, Types
<1>3. SubscribedOnce'
  BY <1>1, FewerKeep DEF Drop, IInv
<1>4. Live(Call)' \subseteq Live(Call)
  BY <1>1, FewerValid
<1>5. \A i \in DOMAIN stack : Passed(stack[i], calls[stack[i].event], Live(Call)')
  BY <1>4, PassedKeeps DEF IInv
<1> QED
  BY <1>2, <1>3, <1>5 DEF Drop, IInv, Distinct

\* The publication that ends leaves the others as they were.
LEMMA FrontKeeps ==
  ASSUME IInv, stack # <<>>, stack' = Front(stack), UNCHANGED <<calls, held, wanted>>
  PROVE  IInv'
<1>1. stack \in Seq(Publication) /\ Len(stack) \in Nat \ {0}
  BY EmptySeq DEF IInv, Types
<1>2. /\ stack' \in Seq(Publication) /\ DOMAIN stack' = 1..(Len(stack) - 1)
      /\ \A i \in DOMAIN stack' : i \in DOMAIN stack /\ stack'[i] = stack[i]
  <2>1. \A i \in 1..(Len(stack) - 1) : stack[i] \in Publication
    BY <1>1
  <2>2. /\ Front(stack) \in Seq(Publication) /\ Len(Front(stack)) = Len(stack) - 1
        /\ \A i \in 1..(Len(stack) - 1) : Front(stack)[i] = stack[i]
    <3> DEFINE n == Len(stack) - 1
    <3>1. 1 \in Int /\ n \in Int
      BY <1>1
    <3>2. /\ SubSeq(stack, 1, n) \in Seq(Publication)
          /\ Len(SubSeq(stack, 1, n)) = IF 1 <= n THEN n - 1 + 1 ELSE 0
          /\ \A i \in 1..(n - 1 + 1) : SubSeq(stack, 1, n)[i] = stack[1 + i - 1]
      <4> HIDE DEF n
      <4> QED
        BY <2>1, <3>1, SubSeqProperties DEF n
    <3>3. Len(SubSeq(stack, 1, n)) = Len(stack) - 1
      <4>1. n \in Nat /\ n = Len(stack) - 1
        BY <1>1
      <4> DEFINE m == Len(SubSeq(stack, 1, n))
      <4>2. m = IF 1 <= n THEN n - 1 + 1 ELSE 0
        BY <3>2
      <4> HIDE DEF n, m
      <4>3. m = n
        BY <4>1, <4>2
      <4> QED
        BY <4>1, <4>3 DEF m
    <3>4. ASSUME NEW i \in 1..(Len(stack) - 1) PROVE SubSeq(stack, 1, n)[i] = stack[i]
      <4>1. i \in 1..(n - 1 + 1) /\ 1 + i - 1 = i
        BY <1>1
      <4> HIDE DEF n
      <4> QED
        BY <3>2, <4>1
    <3> QED
      BY <3>2, <3>3, <3>4 DEF Front
  <2> QED
    BY <1>1, <2>2
<1>3. alive' \subseteq alive \cup {None}
  BY <1>2 DEF alive
<1>4. Types'
  BY <1>2 DEF IInv, Types
<1>5. SubscribedOnce'
  BY <1>3, FewerKeep DEF IInv
<1>6. Live(Call)' \subseteq Live(Call)
  BY <1>3, FewerValid
<1>7. \A i \in DOMAIN stack : Passed(stack[i], calls[stack[i].event], Live(Call)')
  BY <1>6, PassedKeeps DEF IInv
<1>8. Distinct'
  BY <1>2 DEF IInv, Distinct
<1> QED
  BY <1>2, <1>4, <1>5, <1>7, <1>8 DEF IInv

\* A publication begins with everyone before it.
LEMMA PublishKeeps ==
  ASSUME IInv, NEW e \in Events, Publish(e)
  PROVE  IInv'
<1> DEFINE listed == ToSet(calls[e])
           due == {c \in listed : Valid(c, alive)}
           p == [event |-> e, it |-> rbegin(calls[e]), running |-> None,
                 due |-> due, gone |-> listed \ due, got |-> <<>>]
           n == Len(stack)
<1>1. stack' = Append(stack, p) /\ UNCHANGED <<calls, held, wanted>> /\ ~Busy(e)
  BY DEF Publish
<1>2. calls[e] \in Seq(Call) /\ stack \in Seq(Publication) /\ n \in Nat
  BY DEF IInv, Types
<1>3. listed \subseteq Call /\ \A c \in listed : \E k \in 1..Len(calls[e]) : calls[e][k] = c
  BY <1>2 DEF ToSet
<1>4. p \in Publication
  BY <1>2, <1>3 DEF Publication, rbegin
<1>5. Passed(p, calls[e], Live(Call))
  <2>1. p.it = Len(calls[e]) /\ p.running = None /\ p.due = due /\ p.gone = listed \ due
        /\ p.got = <<>>
    BY DEF rbegin
  <2>2. IsInjective(p.got) /\ ToSet(p.got) = {}
    BY <2>1 DEF IsInjective, ToSet
  <2>3. \A k \in 1..Len(calls[e]) : calls[e][k] \in due \cup (listed \ due)
    BY <1>2 DEF ToSet
  <2>4. (listed \ due) \cap Live(Call) = {}
    BY DEF Live
  <2> HIDE DEF p, due, listed
  <2> QED
    BY <1>2, <1>3, <2>1, <2>2, <2>3, <2>4 DEF Passed, due
<1> HIDE DEF p
<1>6. /\ stack' \in Seq(Publication) /\ DOMAIN stack' = 1..(n + 1) /\ stack'[n + 1] = p
      /\ \A i \in 1..n : stack'[i] = stack[i]
      /\ DOMAIN stack = 1..n
  BY <1>1, <1>2, <1>4, AppendProperties, LenProperties
<1>7. p.running = None /\ p.event = e
  BY DEF p
<1>8. alive' \subseteq alive \cup {None}
  BY <1>1, <1>2, <1>6, <1>7 DEF alive
<1>9. Live(Call)' \subseteq Live(Call)
  BY <1>8, FewerValid
<1>10. Types'
  BY <1>1, <1>6 DEF IInv, Types
<1>11. SubscribedOnce'
  BY <1>1, <1>8, FewerKeep DEF IInv
<1>12. Distinct'
  <2>1. \A i \in 1..n : stack[i].event # e
    BY <1>1, <1>6 DEF Busy
  <2> QED
    BY <1>2, <1>6, <1>7, <2>1 DEF IInv, Distinct
<1>13. ASSUME NEW i \in DOMAIN stack'
       PROVE  Passed(stack'[i], calls[stack'[i].event], Live(Call)')
  <2>1. Passed(stack'[i], calls[stack'[i].event], Live(Call))
    <3>1. CASE i = n + 1
      BY <1>5, <1>6, <1>7, <3>1
    <3>2. CASE i \in 1..n
      BY <1>6, <3>2 DEF IInv
    <3> QED
      BY <1>2, <1>6, <3>1, <3>2
  <2> QED
    BY <1>9, <2>1, PassedKeeps
<1> QED
  BY <1>1, <1>10, <1>11, <1>12, <1>13 DEF IInv

\* What the innermost publication may become, and its list with it.
LEMMA TopKeeps ==
  ASSUME IInv, stack # <<>>, NEW p \in Publication, NEW l \in Seq(Call),
         stack' = WithTop(p), p.event = top.event, UNCHANGED <<held, wanted>>,
         calls' = [calls EXCEPT ![top.event] = l],
         p.running # None => p.running.instance \in alive \cup {None},
         Passed(p, l, Live(Call)), IsInjective(l),
         Live(ToSet(l)) = Live(wanted[top.event])
  PROVE  IInv'
<1> DEFINE n == Len(stack)
           e == top.event
<1>1. stack \in Seq(Publication) /\ n \in Nat \ {0} /\ n \in DOMAIN stack
  BY EmptySeq, LenProperties DEF IInv, Types
<1>2. top \in Publication /\ e \in Events
  <2>1. top \in Publication
    BY <1>1 DEF top
  <2> QED
    BY <2>1 DEF Publication
<1>3. /\ stack' \in Seq(Publication) /\ DOMAIN stack' = DOMAIN stack /\ stack'[n] = p
      /\ \A i \in DOMAIN stack \ {n} : stack'[i] = stack[i]
  BY <1>1 DEF WithTop
<1>4. alive' \subseteq alive \cup {None}
  BY <1>1, <1>3 DEF alive
<1>5. Live(Call)' \subseteq Live(Call)
  BY <1>4, FewerValid
<1>6. Types'
  BY <1>2, <1>3 DEF IInv, Types
<1>7. calls'[e] = l /\ \A f \in Events \ {e} : calls'[f] = calls[f]
  BY <1>2 DEF IInv, Types
<1>8. SubscribedOnce'
  <2>1. \A c \in Call : Valid(c, alive') => Valid(c, alive)
    BY <1>5 DEF Live
  <2> SUFFICES ASSUME NEW f \in Events
               PROVE  IsInjective(calls'[f]) /\ Live(ToSet(calls[f]))' = Live(wanted[f])'
    BY DEF SubscribedOnce
  <2>2. IsInjective(calls'[f]) /\ Live(ToSet(calls'[f])) = Live(wanted[f])
    BY <1>7 DEF IInv, SubscribedOnce
  <2>3. ToSet(calls'[f]) \subseteq Call /\ wanted[f] \subseteq Call
    BY <1>6 DEF IInv, Types, ToSet
  <2> QED
    BY <2>1, <2>2, <2>3 DEF Live
<1>9. Distinct'
  BY <1>1, <1>3 DEF IInv, Distinct, top
<1>10. ASSUME NEW i \in DOMAIN stack
       PROVE  Passed(stack'[i], calls'[stack'[i].event], Live(Call)')
  <2>1. Passed(stack'[i], calls'[stack'[i].event], Live(Call))
    <3>1. CASE i = n
      BY <1>3, <1>7, <3>1
    <3>2. CASE i # n
      <4>1. stack[i].event \in Events /\ stack[i].event # e
        <5>1. stack[i] \in Publication
          BY <1>1
        <5>2. stack[i].event \in Events
          BY <5>1 DEF Publication
        <5> QED
          BY <1>1, <3>2, <5>2 DEF IInv, Distinct, top
      <4> QED
        BY <1>3, <1>7, <3>2, <4>1 DEF IInv
    <3> QED
      BY <3>1, <3>2
  <2> QED
    BY <1>5, <2>1, PassedKeeps
<1> QED
  BY <1>3, <1>6, <1>8, <1>9, <1>10 DEF IInv

\* The innermost publication, with the list it goes through.
LEMMA TopPassed ==
  ASSUME IInv, stack # <<>>
  PROVE  /\ top \in Publication /\ top.event \in Events
         /\ Passed(top, calls[top.event], Live(Call))
         /\ calls[top.event] \in Seq(Call) /\ IsInjective(calls[top.event])
         /\ Live(ToSet(calls[top.event])) = Live(wanted[top.event])
         /\ calls = [calls EXCEPT ![top.event] = calls[top.event]]
<1>1. stack \in Seq(Publication) /\ Len(stack) \in DOMAIN stack
  BY EmptySeq, LenProperties DEF IInv, Types
<1>2. top \in Publication
  BY <1>1 DEF top
<1>3. top.event \in Events
  BY <1>2 DEF Publication
<1>4. Passed(top, calls[top.event], Live(Call))
  BY <1>1 DEF IInv, top
<1> QED
  BY <1>2, <1>3, <1>4 DEF IInv, Types, SubscribedOnce

\* The members of a publication.
LEMMA PublicationMembers ==
  ASSUME NEW p \in Publication
  PROVE  /\ p.it \in Nat /\ p.got \in Seq(Call) /\ p.due \in SUBSET Call /\ p.gone \in SUBSET Call
         /\ p.running \in Call \cup {None}
         /\ \A c \in Call \cup {None}, i \in Nat, s \in Seq(Call) :
              [p EXCEPT !.running = c, !.it = i, !.got = s] \in Publication
BY DEF Publication

LEMMA CallValidKeeps ==
  ASSUME IInv, CallValid
  PROVE  IInv'
<1> DEFINE q == top
           cs == calls[q.event]
           c == cs[q.it]
           p == [q EXCEPT !.running = c, !.got = Append(@, c)]
<1>1. stack # <<>> /\ q.running = None /\ q.it > 0 /\ Valid(c, alive)
  BY DEF CallValid, AtCall
<1>2. /\ q \in Publication /\ Passed(q, cs, Live(Call)) /\ cs \in Seq(Call)
      /\ IsInjective(cs) /\ Live(ToSet(cs)) = Live(wanted[q.event])
      /\ calls = [calls EXCEPT ![q.event] = cs]
  BY <1>1, TopPassed
<1>3. stack' = WithTop(p) /\ UNCHANGED <<calls, held, wanted>>
  BY DEF CallValid
<1> HIDE DEF q, cs
<1>4. q.it \in 1..Len(cs) /\ Len(cs) \in Nat
  BY <1>1, <1>2, LenProperties DEF Passed
<1>5. c \in Call /\ c # None /\ c \in Live(Call)
  BY <1>1, <1>2, <1>4, BusAssumption DEF Live
<1>6. q.got \in Seq(Call)
  BY <1>2, PublicationMembers
<1>7. /\ p.running = c /\ p.it = q.it /\ p.event = q.event /\ p.due = q.due
      /\ p.gone = q.gone /\ p.got = Append(q.got, c) /\ p \in Publication
  <2>1. Append(q.got, c) \in Seq(Call)
    BY <1>5, <1>6
  <2> QED
    BY <1>2, <1>5, <2>1 DEF Publication
<1>8. c \in q.due /\ c \notin ToSet(q.got)
  BY <1>1, <1>2, <1>4, <1>5 DEF Passed
<1>9. ToSet(p.got) = ToSet(q.got) \cup {c} /\ IsInjective(p.got)
  <2>1. IsInjective(q.got)
    BY <1>2 DEF Passed
  <2> HIDE DEF p
  <2> QED
    BY <1>5, <1>6, <1>7, <1>8, <2>1, AppendNew
<1>10. Passed(p, cs, Live(Call))
  <2> HIDE DEF p
  <2>1. \A k \in 1..q.it : cs[k] = c => k = q.it
    BY <1>2, <1>4, LenProperties DEF IsInjective
  <2> QED
    BY <1>1, <1>2, <1>4, <1>5, <1>7, <1>8, <1>9, <2>1 DEF Passed
<1>11. p.running.instance \in alive \cup {None}
  BY <1>1, <1>5, <1>7, BusAssumption DEF Valid, Call
<1> HIDE DEF p
<1> QED
  BY <1>1, <1>2, <1>3, <1>7, <1>10, <1>11, TopKeeps DEF q

LEMMA HandlerReturnsKeeps ==
  ASSUME IInv, HandlerReturns
  PROVE  IInv'
<1> DEFINE q == top
           cs == calls[q.event]
           p == [q EXCEPT !.running = None, !.it = @ - 1]
<1>1. stack # <<>> /\ q.running # None /\ stack' = WithTop(p) /\ UNCHANGED <<calls, held, wanted>>
  BY DEF HandlerReturns
<1>2. /\ q \in Publication /\ Passed(q, cs, Live(Call)) /\ cs \in Seq(Call)
      /\ IsInjective(cs) /\ Live(ToSet(cs)) = Live(wanted[q.event])
      /\ calls = [calls EXCEPT ![q.event] = cs]
  BY <1>1, TopPassed
<1> HIDE DEF q, cs
<1>3. /\ q.it \in 1..Len(cs) /\ Len(cs) \in Nat /\ cs[q.it] = q.running
      /\ q.running \in ToSet(q.got) /\ q.running \notin q.gone
  BY <1>1, <1>2, LenProperties DEF Passed
<1>4. /\ p.running = None /\ p.it = q.it - 1 /\ p.event = q.event /\ p.due = q.due
      /\ p.gone = q.gone /\ p.got = q.got /\ p \in Publication
  <2>1. q.it - 1 \in Nat
    BY <1>3
  <2> QED
    BY <1>2, <2>1 DEF Publication
<1> HIDE DEF p
<1>5. Passed(p, cs, Live(Call))
  <2>1. p.it \in 0..Len(cs) /\ p.it + 1 = q.it
    BY <1>3, <1>4
  <2>2. \A k \in 1..p.it : k \in 1..q.it /\ k # q.it
    BY <1>3, <1>4
  <2>3. \A c \in p.due \cap Live(Call) : c \in ToSet(p.got) \/ \E k \in 1..p.it : cs[k] = c
    <3> SUFFICES ASSUME NEW c \in p.due \cap Live(Call), c \notin ToSet(p.got)
                 PROVE  \E k \in 1..p.it : cs[k] = c
      OBVIOUS
    <3>1. PICK k \in 1..q.it : cs[k] = c
      BY <1>2, <1>4 DEF Passed
    <3>2. k # q.it
      BY <1>3, <1>4, <3>1
    <3>3. k \in 1..p.it
      BY <1>3, <1>4, <3>2
    <3> QED
      BY <3>1, <3>3
  <2>4. \A k \in (p.it + 1)..Len(cs) : cs[k] \notin p.gone
    <3> SUFFICES ASSUME NEW k \in (p.it + 1)..Len(cs) PROVE cs[k] \notin p.gone
      OBVIOUS
    <3>1. k = q.it \/ k \in (q.it + 1)..Len(cs)
      BY <1>3, <2>1
    <3> QED
      BY <1>2, <1>3, <1>4, <3>1 DEF Passed
  <2> QED
    BY <1>2, <1>4, <2>1, <2>2, <2>3, <2>4 DEF Passed
<1> QED
  BY <1>1, <1>2, <1>4, <1>5, TopKeeps DEF q

LEMMA EraseExpiredKeeps ==
  ASSUME IInv, EraseExpired
  PROVE  IInv'
<1> DEFINE q == top
           cs == calls[q.event]
           l == erase(cs, q.it)
           p == [q EXCEPT !.it = @ - 1]
<1>1. /\ stack # <<>> /\ q.running = None /\ q.it > 0 /\ ~Valid(cs[q.it], alive)
      /\ stack' = WithTop(p) /\ UNCHANGED <<held, wanted>>
      /\ calls' = [calls EXCEPT ![q.event] = l]
  BY DEF EraseExpired, AtCall
<1>2. /\ q \in Publication /\ Passed(q, cs, Live(Call)) /\ cs \in Seq(Call)
      /\ IsInjective(cs) /\ Live(ToSet(cs)) = Live(wanted[q.event])
  BY <1>1, TopPassed
<1> HIDE DEF q, cs
<1>3. q.it \in 1..Len(cs) /\ Len(cs) \in Nat /\ DOMAIN cs = 1..Len(cs) /\ cs[q.it] \notin Live(Call)
  BY <1>1, <1>2, LenProperties DEF Passed, Live
<1>4. /\ l \in Seq(Call) /\ Len(l) = Len(cs) - 1 /\ DOMAIN l = 1..(Len(cs) - 1)
      /\ \A k \in 1..Len(l) : l[k] = IF k < q.it THEN cs[k] ELSE cs[k + 1]
  BY <1>2, <1>3, EraseKeeps, LenProperties
<1>5. /\ p.running = None /\ p.it = q.it - 1 /\ p.event = q.event /\ p.due = q.due
      /\ p.gone = q.gone /\ p.got = q.got /\ p \in Publication
  <2>1. q.it - 1 \in Nat
    BY <1>3
  <2> QED
    BY <1>1, <1>2, <2>1 DEF Publication
<1> HIDE DEF p, l
<1>6. \A k \in 1..Len(l) : k + 1 \in DOMAIN cs /\ k \in DOMAIN cs
  BY <1>3, <1>4
<1>7. IsInjective(l)
  <2> SUFFICES ASSUME NEW i \in DOMAIN l, NEW j \in DOMAIN l, l[i] = l[j] PROVE i = j
    BY DEF IsInjective
  <2>1. i \in 1..Len(l) /\ j \in 1..Len(l)
    BY <1>4
  <2>2. \A a, b \in DOMAIN cs : cs[a] = cs[b] => a = b
    BY <1>2 DEF IsInjective
  <2>3. CASE i < q.it /\ j < q.it
    BY <1>4, <1>6, <2>1, <2>2, <2>3
  <2>4. CASE i < q.it /\ ~(j < q.it)
    <3>1. cs[i] = cs[j + 1]
      BY <1>4, <2>1, <2>4
    <3>2. i = j + 1
      BY <1>6, <2>1, <2>2, <3>1
    <3> QED
      BY <1>3, <2>1, <2>4, <3>2
  <2>5. CASE ~(i < q.it) /\ j < q.it
    <3>1. cs[i + 1] = cs[j]
      BY <1>4, <2>1, <2>5
    <3>2. i + 1 = j
      BY <1>6, <2>1, <2>2, <3>1
    <3> QED
      BY <1>3, <2>1, <2>5, <3>2
  <2>6. CASE ~(i < q.it) /\ ~(j < q.it)
    <3>1. cs[i + 1] = cs[j + 1]
      BY <1>4, <2>1, <2>6
    <3>2. i + 1 = j + 1
      BY <1>6, <2>1, <2>2, <3>1
    <3> QED
      BY <2>1, <3>2
  <2> QED
    BY <2>3, <2>4, <2>5, <2>6
<1>8. Live(ToSet(l)) = Live(ToSet(cs))
  <2>1. ToSet(l) \subseteq ToSet(cs)
    BY <1>4, <1>6 DEF ToSet
  <2>2. ASSUME NEW c \in ToSet(cs), Valid(c, alive) PROVE c \in ToSet(l)
    <3>1. PICK k \in 1..Len(cs) : cs[k] = c
      BY <1>3 DEF ToSet
    <3>2. k # q.it
      BY <1>1, <2>2, <3>1
    <3>3. CASE k < q.it
      <4>1. k \in 1..Len(l) /\ l[k] = c
        BY <1>3, <1>4, <3>1, <3>3
      <4> QED
        BY <1>4, <4>1 DEF ToSet
    <3>4. CASE k > q.it
      <4>1. k - 1 \in 1..Len(l) /\ ~(k - 1 < q.it) /\ k - 1 + 1 = k
        BY <1>3, <1>4, <3>4
      <4>2. l[k - 1] = c
        BY <1>4, <3>1, <4>1
      <4> QED
        BY <1>4, <4>1, <4>2 DEF ToSet
    <3> QED
      BY <1>3, <3>2, <3>3, <3>4
  <2> QED
    BY <2>1, <2>2 DEF Live
<1>9. Passed(p, l, Live(Call))
  <2>1. p.it \in 0..Len(l)
    BY <1>3, <1>4, <1>5
  <2>2. \A k \in 1..p.it : k \in 1..q.it /\ k # q.it /\ l[k] = cs[k]
    BY <1>3, <1>4, <1>5
  <2>3. \A c \in p.due \cap Live(Call) : c \in ToSet(p.got) \/ \E k \in 1..p.it : l[k] = c
    <3> SUFFICES ASSUME NEW c \in p.due \cap Live(Call), c \notin ToSet(p.got)
                 PROVE  \E k \in 1..p.it : l[k] = c
      OBVIOUS
    <3>1. PICK k \in 1..q.it : cs[k] = c
      BY <1>2, <1>5 DEF Passed
    <3>2. k # q.it
      BY <1>3, <3>1
    <3>3. k \in 1..p.it
      BY <1>3, <1>5, <3>2
    <3> QED
      BY <2>2, <3>1, <3>3
  <2>4. \A k \in (p.it + 1)..Len(l) : l[k] \notin p.gone
    <3> SUFFICES ASSUME NEW k \in (p.it + 1)..Len(l) PROVE l[k] \notin p.gone
      OBVIOUS
    <3>1. k \in 1..Len(l) /\ ~(k < q.it) /\ k + 1 \in (q.it + 1)..Len(cs)
      BY <1>3, <1>4, <1>5
    <3>2. l[k] = cs[k + 1]
      BY <1>4, <3>1
    <3> QED
      BY <1>2, <1>5, <3>1, <3>2 DEF Passed
  <2> QED
    BY <1>2, <1>5, <2>1, <2>2, <2>3, <2>4 DEF Passed
<1> QED
  BY <1>1, <1>2, <1>4, <1>5, <1>7, <1>8, <1>9, TopKeeps DEF q

-----------------------------------------------------------------------------
(* The number of subscriptions.                                             *)

\* A set that has 0, and the successor of each of its elements, has every number.
LEMMA SetInduction ==
  ASSUME NEW I, 0 \in I, \A n \in Nat : n \in I => n + 1 \in I
  PROVE  \A n \in Nat : n \in I
<1> SUFFICES ASSUME Nat \ I # {} PROVE FALSE
  OBVIOUS
<1>1. PICK x \in Nat \ I : \A y \in Nat \ I : ~(<<y, x>> \in OpToRel(<, Nat))
  BY NatLessThanWellFounded, WFMin
<1>2. x \in Nat /\ x \notin I /\ x # 0
  BY <1>1
<1>3. x - 1 \in Nat /\ (x - 1) + 1 = x
  BY <1>2
<1>4. x - 1 \in I
  <2>1. <<x - 1, x>> \in OpToRel(<, Nat)
    BY <1>2, <1>3 DEF OpToRel
  <2> QED
    BY <1>1, <1>3, <2>1, Zenon
<1>5. (x - 1) + 1 \in I
  BY <1>3, <1>4, Zenon
<1> QED
  BY <1>2, <1>3, <1>5, Zenon

\* The pairs of an element of S and a member of its set.
Pairs(S, F) == UNION {{<<e, c>> : c \in F[e]} : e \in S}

\* One element more.
LEMMA PairsWith ==
  ASSUME NEW T, NEW F, NEW x, x \notin T, IsFiniteSet(F[x]), IsFiniteSet(Pairs(T, F))
  PROVE  /\ IsFiniteSet(Pairs(T \cup {x}, F))
         /\ Cardinality(Pairs(T \cup {x}, F)) = Cardinality(F[x]) + Cardinality(Pairs(T, F))
<1> DEFINE new == {<<x, c>> : c \in F[x]}
<1>1. /\ Pairs(T \cup {x}, F) = Pairs(T, F) \cup new
      /\ Pairs(T, F) \cap new = {}
  BY DEF Pairs
<1>2. IsFiniteSet(new) /\ Cardinality(new) = Cardinality(F[x])
  <2> DEFINE b == [c \in F[x] |-> <<x, c>>]
  <2>1. b \in Bijection(F[x], new)
    BY DEF Bijection, Injection, Surjection, IsInjective
  <2>2. ExistsBijection(F[x], new)
    BY <2>1 DEF ExistsBijection
  <2> HIDE DEF new
  <2> QED
    BY <2>2, FS_Bijection
<1> HIDE DEF new
<1>3. /\ IsFiniteSet(Pairs(T, F) \cup new)
      /\ Cardinality(Pairs(T, F) \cup new)
          = Cardinality(Pairs(T, F)) + Cardinality(new) - Cardinality(Pairs(T, F) \cap new)
  BY <1>2, FS_Union
<1>4. Cardinality(Pairs(T, F)) \in Nat /\ Cardinality(new) \in Nat
  BY <1>2, FS_CardinalityType
<1>5. Cardinality(Pairs(T, F) \cap new) = 0
  BY <1>1, FS_EmptySet
<1>6. Cardinality(Pairs(T, F) \cup new) = Cardinality(new) + Cardinality(Pairs(T, F))
  BY <1>3, <1>4, <1>5
<1> QED
  BY <1>1, <1>2, <1>3, <1>6, Zenon

Chosen(s) == CHOOSE x \in s : TRUE

\* sum[s] is the sum of fun over s, element by element, for every part s of S.
SumsUp(sum, fun, S) ==
  sum = [s \in SUBSET S |-> IF s = {} THEN 0 ELSE fun[Chosen(s)] + sum[s \ {Chosen(s)}]]

\* SumFunctionOnSet of the community modules is such a sum.
LEMMA SumIsOne ==
  ASSUME NEW fun, NEW S
  PROVE  SumFunctionOnSet(fun, S) = (CHOOSE sum : SumsUp(sum, fun, S))[S]
BY DEF SumFunctionOnSet, FoldFunctionOnSet, MapThenFoldSet, Chosen, SumsUp

\* A sum of the sizes of sets counts their members.
LEMMA PairsCounted ==
  ASSUME NEW S, IsFiniteSet(S), NEW F, NEW fun,
         \A e \in S : IsFiniteSet(F[e]) /\ fun[e] = Cardinality(F[e])
  PROVE  /\ IsFiniteSet(Pairs(S, F))
         /\ SumFunctionOnSet(fun, S) = Cardinality(Pairs(S, F))
<1> DEFINE Counted(s) == /\ IsFiniteSet(Pairs(s, F))
                        /\ \A sum : SumsUp(sum, fun, S) => sum[s] = Cardinality(Pairs(s, F))
           I == {n \in Nat : \A s \in SUBSET S : Cardinality(s) = n => Counted(s)}
           count == [s \in SUBSET S |-> Cardinality(Pairs(s, F))]
<1>0. ASSUME NEW s \in SUBSET S  PROVE IsFiniteSet(s) /\ Cardinality(s) \in Nat
  BY FS_Subset, FS_CardinalityType
<1>1. Pairs({}, F) = {}
  BY DEF Pairs
<1>2. Counted({})
  <2>1. \A sum : SumsUp(sum, fun, S) => sum[{}] = 0
    BY DEF SumsUp
  <2> QED
    BY <1>1, <2>1, FS_EmptySet
<1>3. ASSUME NEW s \in SUBSET S, s # {}, Counted(s \ {Chosen(s)})
      PROVE  /\ Counted(s)
             /\ Cardinality(Pairs(s, F))
                  = fun[Chosen(s)] + Cardinality(Pairs(s \ {Chosen(s)}, F))
  <2> DEFINE x == Chosen(s)
             T == s \ {x}
  <2>1. x \in s /\ x \in S
    BY <1>3 DEF Chosen
  <2>2. s = T \cup {x} /\ x \notin T
    BY <2>1
  <2>3. IsFiniteSet(F[x]) /\ fun[x] = Cardinality(F[x])
    BY <2>1
  <2>4. \A sum : SumsUp(sum, fun, S) => sum[s] = fun[x] + sum[T]
    BY <1>3 DEF SumsUp
  <2> HIDE DEF x, T
  <2>5. /\ IsFiniteSet(Pairs(T \cup {x}, F))
        /\ Cardinality(Pairs(T \cup {x}, F)) = Cardinality(F[x]) + Cardinality(Pairs(T, F))
    BY <1>3, <2>2, <2>3, PairsWith DEF x, T
  <2>6. IsFiniteSet(Pairs(s, F)) /\ Cardinality(Pairs(s, F)) = fun[x] + Cardinality(Pairs(T, F))
    BY <2>2, <2>3, <2>5, Zenon
  <2>7. \A sum : SumsUp(sum, fun, S) => sum[T] = Cardinality(Pairs(T, F))
    BY <1>3 DEF x, T
  <2>8. \A sum : SumsUp(sum, fun, S) => sum[s] = Cardinality(Pairs(s, F))
    BY <2>4, <2>6, <2>7, Zenon
  <2> QED
    BY <2>6, <2>8 DEF x, T
<1>4. 0 \in I
  <2>1. \A s \in SUBSET S : Cardinality(s) = 0 => s = {}
    BY <1>0, FS_EmptySet
  <2> HIDE DEF Counted
  <2> QED
    BY <1>2, <2>1
<1>5. ASSUME NEW n \in Nat, n \in I  PROVE n + 1 \in I
  <2> SUFFICES ASSUME NEW s \in SUBSET S, Cardinality(s) = n + 1  PROVE Counted(s)
    OBVIOUS
  <2> HIDE DEF Counted
  <2>1. s # {}
    <3>1. Cardinality({}) = 0 /\ n + 1 # 0
      BY FS_EmptySet
    <3> HIDE DEF I
    <3> QED
      BY <3>1, Zenon
  <2>2. Chosen(s) \in s
    BY <2>1 DEF Chosen
  <2>3. Cardinality(s \ {Chosen(s)}) = n
    <3>1. Cardinality(s \ {Chosen(s)}) = Cardinality(s) - 1
      BY <1>0, <2>2, FS_RemoveElement
    <3> QED
      BY <3>1
  <2>4. Counted(s \ {Chosen(s)})
    BY <1>5, <2>3
  <2> QED
    BY <1>3, <2>1, <2>4
<1>6. ASSUME NEW s \in SUBSET S  PROVE Counted(s)
  <2>1. Cardinality(s) \in I
    <3> HIDE DEF I
    <3> QED
      BY <1>0, <1>4, <1>5, SetInduction
  <2> HIDE DEF Counted
  <2> QED
    BY <2>1
<1>7. SumsUp(count, fun, S)
  <2>1. ASSUME NEW s \in SUBSET S, s # {}
        PROVE  count[s] = fun[Chosen(s)] + count[s \ {Chosen(s)}]
    <3>1. s \ {Chosen(s)} \in SUBSET S
      OBVIOUS
    <3> HIDE DEF Counted
    <3>2. Cardinality(Pairs(s, F)) = fun[Chosen(s)] + Cardinality(Pairs(s \ {Chosen(s)}, F))
      BY <1>3, <1>6, <2>1, <3>1
    <3> QED
      BY <3>1, <3>2
  <2>2. count[{}] = 0
    BY <1>1, FS_EmptySet
  <2>3. \A s \in SUBSET S : count[s] = IF s = {} THEN 0
                                       ELSE fun[Chosen(s)] + count[s \ {Chosen(s)}]
    <3> HIDE DEF count
    <3> QED
      BY <2>1, <2>2
  <2>4. count = [s \in SUBSET S |-> count[s]]
    OBVIOUS
  <2> HIDE DEF count
  <2> QED
    BY <2>3, <2>4 DEF SumsUp
<1>8. SumsUp(CHOOSE sum : SumsUp(sum, fun, S), fun, S)
  <2> HIDE DEF count
  <2> QED
    BY <1>7, Zenon
<1>9. S \in SUBSET S
  OBVIOUS
<1> QED
  <2> HIDE DEF count, I
  <2> QED
    BY <1>6, <1>8, <1>9, SumIsOne, Zenon

\* The fold of size is the sum of the lengths of the lists (bus.hpp, size).
LEMMA SizeIsSum ==
  ASSUME calls \in [Events -> Seq(Call)]
  PROVE  size = SumFunctionOnSet([e \in Events |-> Len(calls[e])], Events)
<1> DEFINE fun == [e \in Events |-> Len(calls[e])]
           Step(it, s) == IF s = {} THEN 0 ELSE Len(calls[Chosen(s)]) + it[s \ {Chosen(s)}]
<1>1. size = (CHOOSE it : it = [s \in SUBSET Events |-> Step(it, s)])[Events]
  BY DEF size, FoldFunction, FoldFunctionOnSet, MapThenFoldSet, Chosen
<1>2. ASSUME NEW it
      PROVE  (it = [s \in SUBSET Events |-> Step(it, s)]) <=> SumsUp(it, fun, Events)
  <2>1. \A s \in SUBSET Events : s # {} => fun[Chosen(s)] = Len(calls[Chosen(s)])
    BY DEF Chosen
  <2> QED
    BY <2>1 DEF SumsUp
<1>3. (CHOOSE it : it = [s \in SUBSET Events |-> Step(it, s)]) = (CHOOSE it : SumsUp(it, fun, Events))
  <2> HIDE DEF fun, Step
  <2> QED
    BY <1>2, Zenon
<1>4. size = SumFunctionOnSet(fun, Events)
  <2> HIDE DEF fun, Step
  <2> QED
    BY <1>1, <1>3, SumIsOne, Zenon
<1> QED
  BY <1>4

\* With nothing expired in the lists, size counts the live subscriptions.
LEMMA SizeCounts ==
  ASSUME calls \in [Events -> Seq(Call)], wanted \in [Events -> SUBSET Call], SubscribedOnce,
         \A e \in Events : ToSet(calls[e]) = Live(ToSet(calls[e]))
  PROVE  size = Cardinality(UNION {{<<e, c>> : c \in Live(wanted[e])} : e \in Events})
<1> DEFINE F == [e \in Events |-> Live(wanted[e])]
<1>0. IsFiniteSet(Events)
  BY BusAssumption
<1>1. ASSUME NEW e \in Events
      PROVE  IsFiniteSet(F[e]) /\ Cardinality(F[e]) = Len(calls[e])
  <2> DEFINE cs == calls[e]
  <2>1. cs \in Seq(Call) /\ IsInjective(cs) /\ ToSet(cs) = F[e]
    BY DEF SubscribedOnce
  <2> HIDE DEF cs, F
  <2>2. Len(cs) \in Nat /\ DOMAIN cs = 1..Len(cs)
    BY <2>1, LenProperties
  <2>3. cs \in Bijection(1..Len(cs), F[e])
    BY <2>1, <2>2 DEF Bijection, Injection, Surjection, IsInjective, ToSet
  <2>4. ExistsBijection(1..Len(cs), F[e])
    BY <2>3 DEF ExistsBijection
  <2>5. IsFiniteSet(1..Len(cs)) /\ Cardinality(1..Len(cs)) = Len(cs)
    <3>1. \A b \in Int : /\ IsFiniteSet(1..b)
                         /\ Cardinality(1..b) = IF 1 > b THEN 0 ELSE b - 1 + 1
      BY FS_Interval
    <3> QED
      BY <2>2, <3>1
  <2>6. IsFiniteSet(F[e]) /\ Cardinality(F[e]) = Cardinality(1..Len(cs))
    BY <2>4, <2>5, FS_Bijection
  <2> QED
    BY <2>5, <2>6 DEF cs
<1>2. Cardinality(Pairs(Events, F)) = SumFunctionOnSet([e \in Events |-> Len(calls[e])], Events)
  <2> HIDE DEF F
  <2>1. \A e \in Events : /\ IsFiniteSet(F[e])
                         /\ [d \in Events |-> Len(calls[d])][e] = Cardinality(F[e])
    BY <1>1
  <2> QED
    BY <1>0, <2>1, PairsCounted
<1>3. Pairs(Events, F) = UNION {{<<e, c>> : c \in Live(wanted[e])} : e \in Events}
  <2>1. \A e \in Events : F[e] = Live(wanted[e])
    OBVIOUS
  <2> HIDE DEF F
  <2> QED
    BY <2>1 DEF Pairs
<1> QED
  BY <1>2, <1>3, SizeIsSum

-----------------------------------------------------------------------------
(* The theorems.                                                            *)

\* The lists, the publications under way and what was asked for agree.
THEOREM Invariance == Spec => []IInv
<1>1. IInv /\ [Next]_vars => IInv'
  <2> SUFFICES ASSUME IInv, [Next]_vars PROVE IInv'
    OBVIOUS
  <2>1. ASSUME NEW e \in Events, NEW c \in Call, AddCall(e, c) \/ RemoveCall(e, c) PROVE IInv'
    BY <2>1, AddCallKeeps
  <2>2. ASSUME NEW l \in Listeners, Reg(l) \/ Unreg(l) PROVE IInv'
    BY <2>2, RegKeeps
  <2>3. ASSUME NEW l \in Listeners, Drop(l) PROVE IInv'
    BY <2>3, DropKeeps
  <2>4. ASSUME NEW e \in Events, Publish(e) PROVE IInv'
    BY <2>4, PublishKeeps
  <2>5. CASE CallValid
    BY <2>5, CallValidKeeps
  <2>6. CASE EraseExpired
    BY <2>6, EraseExpiredKeeps
  <2>7. CASE HandlerReturns
    BY <2>7, HandlerReturnsKeeps
  <2>8. CASE HandlerThrows \/ PublishReturns
    BY <2>8, FrontKeeps DEF HandlerThrows, PublishReturns
  <2>9. CASE UNCHANGED vars
    <3>1. alive' = alive
      BY <2>9 DEF vars, alive
    <3> QED
      BY <2>9, <3>1 DEF vars, IInv, Types, SubscribedOnce, Distinct, Live
  <2> QED
    BY <2>1, <2>2, <2>3, <2>4, <2>5, <2>6, <2>7, <2>8, <2>9 DEF Next
<1> QED
  BY <1>1, InitInv, PTL DEF Spec

\* The lists hold calls, and the iterator of a publication stays within its list.
THEOREM TypeCorrect == Spec => []TypeOK
<1>1. IInv => TypeOK
  BY LenProperties DEF IInv, Types, Passed, TypeOK
<1> QED
  BY <1>1, Invariance, PTL

\* A live subscription is listed once, whatever expires (signal.hpp, add, remove).
THEOREM SubscribedOnceAlways == Spec => []SubscribedOnce
<1>1. IInv => SubscribedOnce
  BY DEF IInv
<1> QED
  BY <1>1, Invariance, PTL

\* And with nothing expired in the lists, size is the number of the live subscriptions
\* of all signals (bus.hpp, size).
THEOREM SubscribedAlways == Spec => []Subscribed
<1>1. IInv => Subscribed
  BY SizeCounts DEF IInv, Types, Subscribed
<1> QED
  BY <1>1, Invariance, PTL

\* A publication calls everyone who is due and still valid once, although entries are
\* erased under its iterator and handlers publish other events (signal.hpp, publish).
THEOREM CalledOnceAlways == Spec => []CalledOnce
<1>1. ASSUME IInv, NEW i \in DOMAIN stack
      PROVE  LET p == stack[i]
             IN  /\ IsInjective(p.got) /\ ToSet(p.got) \subseteq p.due
                 /\ p.running = None /\ p.it <= 0 =>
                      {c \in p.due : Valid(c, alive)} \subseteq ToSet(p.got)
  <2> DEFINE p == stack[i]
  <2>1. Passed(p, calls[p.event], Live(Call)) /\ p \in Publication
    BY <1>1 DEF IInv, Types
  <2>2. p.due \subseteq Call /\ p.it \in Nat
    BY <2>1 DEF Publication
  <2> HIDE DEF p
  <2>3. p.it <= 0 => ~\E k \in 1..p.it : TRUE
    BY <2>2
  <2>4. \A c \in p.due : Valid(c, alive) => c \in Live(Call)
    BY <2>2 DEF Live
  <2> QED
    BY <2>1, <2>3, <2>4 DEF Passed, p
<1>2. IInv => CalledOnce
  BY <1>1 DEF CalledOnce
<1> QED
  BY <1>2, Invariance, PTL

\* A publication that reaches its end leaves nothing in the list that had expired before.
THEOREM ExpiredSweptAlways == Spec => []ExpiredSwept
<1>1. ASSUME IInv, NEW i \in DOMAIN stack, stack[i].running = None, stack[i].it <= 0
      PROVE  stack[i].gone \cap ToSet(calls[stack[i].event]) = {}
  <2> DEFINE p == stack[i]
             cs == calls[p.event]
  <2>1. Passed(p, cs, Live(Call)) /\ p \in Publication
    BY <1>1 DEF IInv, Types
  <2>2. p.it \in Nat /\ p.event \in Events
    BY <2>1 DEF Publication
  <2>3. cs \in Seq(Call)
    BY <1>1, <2>2 DEF IInv, Types
  <2>4. p.it <= 0
    BY <1>1
  <2> HIDE DEF p, cs
  <2>5. \A k \in 1..Len(cs) : k \in (p.it + 1)..Len(cs)
    BY <2>2, <2>4
  <2>6. \A k \in DOMAIN cs : cs[k] \notin p.gone
    BY <2>1, <2>3, <2>5, LenProperties DEF Passed
  <2> QED
    BY <2>6 DEF ToSet, p, cs
<1>2. IInv => ExpiredSwept
  BY <1>1 DEF ExpiredSwept
<1> QED
  BY <1>2, Invariance, PTL
==============================================================================

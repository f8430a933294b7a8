--------------------------- MODULE FileTreeProofs ---------------------------
(* Theorems about FileTree, for every tree, thread and path.                *)
EXTENDS FileTree, FiniteSetTheorems, SequenceTheorems, WellFoundedInduction, TLAPS

-----------------------------------------------------------------------------
(* The inductive invariant.                                                 *)

Working(c) == c.pc \in {"look", "act", "copy", "entry", "file"}

\* The directories being copied, when a copy was to go to dest.
Dirs(dest) == [from : Seq(Names) \ {Root}, to : {q \in Seq(Names) : IsPrefix(dest, q)},
            seen : SUBSET Names]

Fields == {"op", "arg", "from", "to", "content", "open", "before", "alone", "pc", "result"}

\* What a call under way works on lies where its arguments say.
Bound(c) ==
  /\ Fields \subseteq DOMAIN c
  /\ c.op \in Operations \ {"exists"}
  /\ c.arg[1] \in Paths \ {Root} /\ c.arg[2] \in Paths \ {Root} /\ c.content \in Contents
  /\ c.from \in Seq(Names) \ {Root} /\ c.to \in Seq(Names)
  /\ IsPrefix(c.arg[2], c.to)
  /\ c.op \notin Binary => c.arg[1] = c.from /\ c.arg[2] = c.from
  /\ c.op = "move" => c.arg[1] = c.from
  /\ c.open \in Seq(Dirs(c.arg[2]))
  /\ c.pc \in {"copy", "entry", "file"} => c.op = "copyDirectory" /\ c.open # <<>>

Sound(c) == "pc" \in DOMAIN c /\ (Working(c) => Bound(c))

IInv ==
  /\ DOMAIN tree \subseteq Seq(Names)
  /\ DOMAIN call = Threads
  /\ \A th \in Threads : Sound(call[th])

-----------------------------------------------------------------------------
(* Paths.                                                                   *)

\* A path is a sequence of names.
LEMMA PathSeq == \A p \in Paths : p \in Seq(Names)
BY SeqDef, FileTreeAssumption DEF Paths

\* A path lies under itself and what lies under one of those that do lies under it.
LEMMA PrefixOrder ==
  ASSUME NEW a \in Seq(Names), NEW b \in Seq(Names), NEW c \in Seq(Names)
  PROVE  /\ IsPrefix(a, a)
         /\ IsPrefix(a, b) /\ IsPrefix(b, c) => IsPrefix(a, c)
<1>1. IsPrefix(a, a)
  BY DEF IsPrefix
<1>2. ASSUME IsPrefix(a, b), IsPrefix(b, c) PROVE IsPrefix(a, c)
  <2>1. Len(a) <= Len(c)
    BY <1>2 DEF IsPrefix
  <2>2. \A i \in 1..Len(a) : a[i] = c[i]
    BY <1>2 DEF IsPrefix
  <2> QED
    BY <2>1, <2>2 DEF IsPrefix
<1> QED
  BY <1>1, <1>2

\* A name added to a path leads further.
LEMMA PrefixAppend ==
  ASSUME NEW a \in Seq(Names), NEW b \in Seq(Names), IsPrefix(a, b), NEW n \in Names
  PROVE  IsPrefix(a, Append(b, n)) /\ Append(b, n) \in Seq(Names) \ {Root}
BY DEF IsPrefix, Root

\* So does a path put behind another.
LEMMA PrefixConcat ==
  ASSUME NEW a \in Seq(Names), NEW b \in Seq(Names)
  PROVE  IsPrefix(a, a \o b) /\ a \o b \in Seq(Names)
BY DEF IsPrefix

\* The beginning of a path is a path that leads to it.
LEMMA PrefixSub ==
  ASSUME NEW a \in Seq(Names), NEW n \in 1..Len(a)
  PROVE  IsPrefix(SubSeq(a, 1, n), a) /\ SubSeq(a, 1, n) \in Seq(Names)
BY DEF IsPrefix

\* The outer directories of those being copied.
LEMMA FrontSeq ==
  ASSUME NEW S, NEW s \in Seq(S), s # <<>>, Len(s) # 1
  PROVE  Front(s) \in Seq(S) /\ Front(s) # <<>>
<1>1. Len(s) - 1 \in 1..Len(s)
  <2>1. Len(s) \in Nat \ {0}
    BY EmptySeq
  <2> QED
    BY <2>1
<1>2. SubSeq(s, 1, Len(s) - 1) \in Seq(S) /\ Len(SubSeq(s, 1, Len(s) - 1)) = Len(s) - 1
  BY <1>1
<1>3. Len(SubSeq(s, 1, Len(s) - 1)) # 0
  BY <1>1, <1>2
<1> QED
  BY <1>2, <1>3, EmptySeq DEF Front

\* An entry that is noted as seen leaves a call what it works on.
LEMMA SeenBound ==
  ASSUME NEW c, Bound(c), c.open # <<>>, NEW n \in Names
  PROVE  /\ DOMAIN Seen(c, n) = DOMAIN c
         /\ \A f \in DOMAIN c \ {"open"} : Seen(c, n)[f] = c[f]
         /\ Bound(Seen(c, n))
<1> DEFINE top == Len(c.open)
           open == [c.open EXCEPT ![top].seen = @ \cup {n}]
           k == Seen(c, n)
<1>1. c.open \in Seq(Dirs(c.arg[2])) /\ Fields \subseteq DOMAIN c
  BY DEF Bound
<1>2. k = [c EXCEPT !.open = open]
  BY DEF Seen
<1>3. top \in Nat /\ top >= 1 /\ c.open[top] \in Dirs(c.arg[2])
  BY <1>1
<1>4. [c.open[top] EXCEPT !.seen = @ \cup {n}] \in Dirs(c.arg[2])
  BY <1>3 DEF Dirs
<1>5. open \in Seq(Dirs(c.arg[2])) /\ open # <<>>
  BY <1>1, <1>3, <1>4
<1> HIDE DEF open, k
<1>6. /\ DOMAIN k = DOMAIN c /\ k.open = open
      /\ \A f \in DOMAIN c \ {"open"} : k[f] = c[f]
  BY <1>1, <1>2 DEF Fields
<1>7. Bound(k)
  BY <1>5, <1>6 DEF Bound, Fields
<1> QED
  BY <1>6, <1>7 DEF k

-----------------------------------------------------------------------------
(* The operating system.                                                    *)

\* Removing takes away what lies under the path.
LEMMA RemoveThere ==
  ASSUME NEW t, NEW p, NEW u \in {remove_all(t, p).tree, remove(t, p).tree}
  PROVE  /\ \A q : At(u, q) # At(t, q) => IsPrefix(p, q)
         /\ DOMAIN u \subseteq DOMAIN t
BY DEF remove_all, remove, Without, Below, Done, Fails, At

\* Storing changes the path alone, and adds it only when it is no longer than it may be.
LEMMA StoreThere ==
  ASSUME NEW t, NEW p, NEW content, NEW u, u = store(t, p, content).tree
  PROVE  /\ \A q : At(u, q) # At(t, q) => q = p
         /\ DOMAIN u \subseteq DOMAIN t \cup {p}
BY DEF store, Put, Done, Fails, At

\* The like of copying a file.
LEMMA CopyFileThere ==
  ASSUME NEW t, NEW from, NEW to, NEW empty, NEW o \in copy_file(t, from, to, empty)
  PROVE  /\ \A q : At(o.tree, q) # At(t, q) => q = to
         /\ DOMAIN o.tree \subseteq DOMAIN t \cup {to}
BY StoreThere DEF copy_file, Put, Done, Fails, At

\* What is there is not overwritten by the copy of a file in a directory.
LEMMA CopyThere ==
  ASSUME NEW t, NEW from, NEW to
  PROVE  /\ \A q : At(copy(t, from, to).tree, q) # At(t, q) => q = to /\ q \notin DOMAIN t
         /\ DOMAIN copy(t, from, to).tree \subseteq DOMAIN t \cup {to}
<1>1. CASE from \notin DOMAIN t \/ to \in DOMAIN t
  BY <1>1 DEF copy, Fails
<1>2. CASE ~(from \notin DOMAIN t \/ to \in DOMAIN t)
  <2>1. copy(t, from, to) = store(t, to, t[from])
    BY <1>2 DEF copy
  <2> QED
    BY <1>2, <2>1, StoreThere
<1> QED
  BY <1>1, <1>2

\* Nor by the making of a directory.
LEMMA CreateThere ==
  ASSUME NEW t, NEW p
  PROVE  /\ \A q : At(create_directory(t, p).tree, q) # At(t, q) => q = p /\ q \notin DOMAIN t
         /\ DOMAIN create_directory(t, p).tree \subseteq DOMAIN t \cup {p}
BY DEF create_directory, Put, Done, Fails, At

\* Nor by the making of a directory with all those above it.
LEMMA CreateAllThere ==
  ASSUME NEW t, NEW p \in Seq(Names)
  PROVE  /\ \A q : At(create_directories(t, p).tree, q) # At(t, q)
                     => IsPrefix(q, p) /\ q \notin DOMAIN t
         /\ \A q \in DOMAIN create_directories(t, p).tree : q \in DOMAIN t \/ q \in Seq(Names)
<1> DEFINE all == {SubSeq(p, 1, n) : n \in 1..Len(p)}
<1>1. \A q \in all : IsPrefix(q, p) /\ q \in Seq(Names)
  BY PrefixSub
<1>2. CASE \E q \in all \cap DOMAIN t : ~is_directory(t, q)
  <2>1. create_directories(t, p).tree = t
    BY <1>2 DEF create_directories, Fails
  <2> QED
    BY <2>1
<1>3. CASE ~\E q \in all \cap DOMAIN t : ~is_directory(t, q)
  <2>1. create_directories(t, p).tree = Over([q \in all |-> "directory_file"], t)
    BY <1>3 DEF create_directories, Done
  <2>2. \A q \in all \cap DOMAIN t : t[q] = "directory_file"
    BY <1>3 DEF is_directory, Type
  <2> HIDE DEF all
  <2> QED
    BY <1>1, <2>1, <2>2 DEF Over, At
<1> QED
  BY <1>2, <1>3

\* Moving changes what lies under the two paths.
LEMMA RenameThere ==
  ASSUME NEW t, DOMAIN t \subseteq Seq(Names), NEW from \in Seq(Names), NEW to \in Seq(Names)
  PROVE  /\ \A q : At(rename(t, from, to).tree, q) # At(t, q)
                     => IsPrefix(from, q) \/ IsPrefix(to, q)
         /\ DOMAIN rename(t, from, to).tree \subseteq Seq(Names)
<1> DEFINE u == Over(Relocated(t, from, to), Without(t, from))
<1>1. rename(t, from, to).tree \in {t, u}
  BY DEF rename, Done, Fails
<1>2. \A q \in DOMAIN Relocated(t, from, to) : IsPrefix(to, q) /\ q \in Seq(Names)
  <2>1. \A s \in Below(t, from) : SubSeq(s, Len(from) + 1, Len(s)) \in Seq(Names)
    <3> SUFFICES ASSUME NEW s \in Below(t, from)
                 PROVE  SubSeq(s, Len(from) + 1, Len(s)) \in Seq(Names)
      OBVIOUS
    <3>1. s \in Seq(Names)
      BY DEF Below
    <3> QED
      BY <3>1
  <2>2. DOMAIN Relocated(t, from, to)
          = {to \o SubSeq(s, Len(from) + 1, Len(s)) : s \in Below(t, from)}
    BY DEF Relocated
  <2> QED
    BY <2>1, <2>2, PrefixConcat
<1>3. /\ \A q : At(u, q) # At(t, q) => IsPrefix(from, q) \/ IsPrefix(to, q)
      /\ DOMAIN u \subseteq Seq(Names)
  BY <1>2 DEF Over, Without, Below, At
<1> QED
  BY <1>1, <1>3

-----------------------------------------------------------------------------
(* The steps.                                                               *)

\* What a step leaves of the invariant when it makes t of the tree and c of its call.
LEMMA MeanwhileKeeps ==
  ASSUME IInv, NEW th \in Threads, NEW c, NEW t, Meanwhile(th, c, t),
         Sound(c), DOMAIN t \subseteq Seq(Names)
  PROVE  IInv'
<1>1. tree' = t /\ DOMAIN call' = Threads
  BY DEF Meanwhile
<1>2. ASSUME NEW u \in Threads PROVE Sound(call'[u])
  <2>1. CASE call'[u] = c
    BY <2>1
  <2>2. CASE call'[u] = call[u]
    BY <2>2 DEF IInv
  <2>3. CASE call'[u] = [call[u] EXCEPT !.alone = FALSE]
    <3> DEFINE k == call[u]
    <3>1. Sound(k)
      BY DEF IInv
    <3>2. DOMAIN call'[u] = DOMAIN k /\ \A f \in DOMAIN k \ {"alone"} : call'[u][f] = k[f]
      BY <2>3
    <3> HIDE DEF k
    <3>3. Working(call'[u]) => Working(k)
      BY <3>1, <3>2 DEF Sound, Working
    <3>4. Bound(k) => Bound(call'[u])
      BY <3>2 DEF Bound, Fields
    <3> QED
      BY <3>1, <3>2, <3>3, <3>4 DEF Sound
  <2> QED
    BY <2>1, <2>2, <2>3 DEF Meanwhile
<1> QED
  BY <1>1, <1>2 DEF IInv

\* So it is when the call returns or goes on with the tree as it is.
LEMMA ReturnKeeps ==
  ASSUME IInv, NEW th \in Threads, NEW o, Return(th, o), Working(call[th]),
         DOMAIN o.tree \subseteq Seq(Names)
  PROVE  IInv' /\ tree' = o.tree
<1> DEFINE c == [call[th] EXCEPT !.pc = "returned", !.result = o.result]
<1>1. Meanwhile(th, c, o.tree)
  BY DEF Return
<1>2. Sound(c)
  <2>1. "pc" \in DOMAIN call[th]
    BY DEF IInv, Sound
  <2> QED
    BY <2>1 DEF Sound, Working
<1> HIDE DEF c
<1> QED
  BY <1>1, <1>2, MeanwhileKeeps DEF Meanwhile

\* A call that goes on leaves every call sound.
LEMMA ContinueKeeps ==
  ASSUME IInv, NEW th \in Threads, NEW c, Continue(th, c), Sound(c)
  PROVE  IInv' /\ tree' = tree
<1>1. Meanwhile(th, c, tree)
  BY DEF Continue
<1>2. DOMAIN tree \subseteq Seq(Names)
  BY DEF IInv
<1> QED
  BY <1>1, <1>2, MeanwhileKeeps DEF Meanwhile

-----------------------------------------------------------------------------
(* Initial states and the start of a call.                                  *)

\* The invariant holds initially.
LEMMA InitInv == Init => IInv
<1> SUFFICES ASSUME Init PROVE IInv
  OBVIOUS
<1>1. DOMAIN tree \subseteq Seq(Names)
  BY PathSeq, FileTreeAssumption DEF Init, IsTree
<1>2. \A th \in Threads : Sound(call[th])
  BY DEF Init, Idle, Sound, Working
<1> QED
  BY <1>1, <1>2 DEF Init, IInv

\* A call that begins keeps the invariant.
LEMMA BeginKeeps ==
  ASSUME IInv, NEW th \in Threads, Begin(th)
  PROVE  IInv'
<1> DEFINE
     refused(op, from, to) == \/ op = "copyFile" /\ from = to
                              \/ Type(tree, from) \notin Admitted(op)
     first(op, from, to) ==
       IF refused(op, from, to) \/ op = "exists" THEN "returned"
       ELSE IF op \in Binary \cup {"createDirectory"} THEN "look" ELSE "act"
     result(op, from, to) ==
       IF refused(op, from, to) THEN "throws" ELSE IF from \in DOMAIN tree THEN "yes" ELSE "no"
     started(op, from, to, content) ==
       [op |-> op, arg |-> <<from, to>>, from |-> from, to |-> to,
        content |-> content, open |-> <<>>, before |-> tree, alone |-> TRUE,
        pc |-> first(op, from, to), result |-> result(op, from, to)]
<1>1. PICK op \in Operations, from \in Arguments, to \in Arguments, content \in Contents :
        /\ op \in Binary \/ to = from
        /\ call' = [call EXCEPT ![th] = started(op, from, to, content)]
  BY ZenonT(60) DEF Begin
<1> DEFINE pc == first(op, from, to)
<1>5. pc \notin {"copy", "entry", "file"} /\ (op = "exists" => pc = "returned")
  OBVIOUS
<1>2. from \in Seq(Names) \ {Root} /\ to \in Seq(Names)
  BY PathSeq, FileTreeAssumption
<1>3. IsPrefix(to, to)
  BY <1>2, PrefixOrder
<1> HIDE DEF first, result
<1>4. /\ call'[th] = started(op, from, to, content)
      /\ DOMAIN call' = Threads
      /\ \A u \in Threads \ {th} : call'[u] = call[u]
  BY <1>1 DEF IInv
<1>6. Sound(call'[th])
  <2>1. op # "exists" => Bound(call'[th])
    BY <1>1, <1>2, <1>3, <1>4, <1>5, FileTreeAssumption DEF Bound, Fields, Binary
  <2>2. op = "exists" => ~Working(call'[th])
    BY <1>5, <1>4 DEF Working
  <2> QED
    BY <1>4, <2>1, <2>2 DEF Sound
<1>7. DOMAIN tree' \subseteq Seq(Names)
  BY DEF Begin, IInv
<1> QED
  BY <1>4, <1>6, <1>7 DEF IInv

-----------------------------------------------------------------------------
(* What the steps of a call change.                                         *)

\* Looking changes nothing.
LEMMA LookThere ==
  ASSUME IInv, NEW th \in Threads, Look(th)
  PROVE  IInv' /\ tree' = tree
<1> DEFINE c == call[th]
           into == [c EXCEPT !.to = Append(@, Name(c.from))]
<1>1. c.pc = "look" /\ Working(c) /\ Sound(c) /\ Bound(c)
  BY DEF Look, IInv, Sound, Working
<1>2. \/ Return(th, Fails(tree))
      \/ Continue(th, [c EXCEPT !.pc = "act"])
      \/ Continue(th, into)
      \/ Continue(th, [into EXCEPT !.pc = "act"])
  BY DEF Look
<1>3. CASE Return(th, Fails(tree))
  BY <1>1, <1>3, ReturnKeeps DEF IInv, Fails
<1>4. Sound([c EXCEPT !.pc = "act"])
  BY <1>1 DEF Sound, Bound, Fields
<1>5. Sound(into) /\ Sound([into EXCEPT !.pc = "act"])
  <2>1. Name(c.from) \in Names /\ c.arg[2] \in Seq(Names)
    BY <1>1, PathSeq DEF Bound, Name, Root
  <2>2. IsPrefix(c.arg[2], Append(c.to, Name(c.from))) /\ Append(c.to, Name(c.from)) \in Seq(Names)
    BY <1>1, <2>1, PrefixAppend DEF Bound
  <2>3. /\ DOMAIN into = DOMAIN c /\ into.to = Append(c.to, Name(c.from))
        /\ \A f \in DOMAIN c \ {"to"} : into[f] = c[f]
    BY <1>1 DEF Bound, Fields
  <2> HIDE DEF into, c
  <2>4. Bound(into)
    BY <1>1, <2>2, <2>3 DEF Bound, Fields
  <2>5. Bound([into EXCEPT !.pc = "act"])
    BY <2>4 DEF Bound, Fields
  <2> QED
    BY <2>3, <2>4, <2>5, <1>1 DEF Sound, Bound, Fields
<1> HIDE DEF c, into
<1>6. CASE Continue(th, [c EXCEPT !.pc = "act"])
  BY <1>4, <1>6, ContinueKeeps
<1>7. CASE Continue(th, into)
  BY <1>5, <1>7, ContinueKeeps
<1>8. CASE Continue(th, [into EXCEPT !.pc = "act"])
  BY <1>5, <1>8, ContinueKeeps
<1> QED
  BY <1>2, <1>3, <1>6, <1>7, <1>8

\* The call of the operating system changes what the helper may change.
LEMMA ActThere ==
  ASSUME IInv, NEW th \in Threads, Act(th)
  PROVE  IInv' /\ \A p : At(tree', p) # At(tree, p) => May(call[th], p)
<1> DEFINE c == call[th]
<1> SUFFICES IInv' /\ \A p : At(tree', p) # At(tree, p) => May(c, p)
  OBVIOUS
<1>1. c.pc = "act" /\ Working(c) /\ Sound(c) /\ Bound(c) /\ DOMAIN tree \subseteq Seq(Names)
  BY DEF Act, IInv, Sound, Working
<1>2. /\ c.from \in Seq(Names) /\ c.to \in Seq(Names)
      /\ IsPrefix(c.arg[2], c.to) /\ IsPrefix(c.from, c.from)
      /\ \A p : p \in Seq(Names) /\ IsPrefix(c.to, p) => IsPrefix(c.arg[2], p)
  BY <1>1, PrefixOrder, PathSeq DEF Bound
<1>3. c.op \in Operations \ {"exists"}
  BY <1>1 DEF Bound
<1>4. ASSUME NEW o, Return(th, o), DOMAIN o.tree \subseteq Seq(Names),
             \A p \in Seq(Names) : At(o.tree, p) # At(tree, p) => May(c, p)
      PROVE  IInv' /\ \A p : At(tree', p) # At(tree, p) => May(c, p)
  <2>1. IInv' /\ tree' = o.tree
    BY <1>1, <1>4, ReturnKeeps
  <2>2. \A p : At(o.tree, p) # At(tree, p) => p \in Seq(Names)
    BY <1>1, <1>4 DEF At
  <2> QED
    BY <1>4, <2>1, <2>2
<1> HIDE DEF c
<1>5. CASE c.op \in {"removeFile", "removeDirectory"}
  <2>1. PICK o \in {remove(tree, c.from), remove_all(tree, c.from)} : Return(th, o)
    BY <1>5 DEF Act, c
  <2>2. c.from = c.arg[2]
    BY <1>1, <1>5 DEF Bound, Binary
  <2>3. o.tree \in {remove(tree, c.from).tree, remove_all(tree, c.from).tree}
    OBVIOUS
  <2>4. \A p : At(o.tree, p) # At(tree, p) => May(c, p)
    BY <1>5, <2>2, <2>3, RemoveThere DEF May
  <2>5. DOMAIN o.tree \subseteq Seq(Names)
    BY <1>1, <2>3, RemoveThere
  <2> QED
    BY <1>4, <2>1, <2>4, <2>5
<1>6. CASE c.op = "createDirectory"
  <2> DEFINE o == create_directory(tree, c.from)
  <2>1. Return(th, o)
    BY <1>6 DEF Act, c
  <2>2. c.from = c.arg[2]
    BY <1>1, <1>6 DEF Bound, Binary
  <2>3. \A p : At(o.tree, p) # At(tree, p) => May(c, p)
    BY <1>2, <1>6, <2>2, CreateThere DEF May
  <2>4. DOMAIN o.tree \subseteq Seq(Names)
    BY <1>1, <1>2, CreateThere
  <2> QED
    BY <1>4, <2>1, <2>3, <2>4
<1>7. CASE c.op = "createDirectories"
  <2> DEFINE o == create_directories(tree, c.from)
  <2>1. Return(th, o)
    BY <1>7 DEF Act, c
  <2>2. c.from = c.arg[1]
    BY <1>1, <1>7 DEF Bound, Binary
  <2>3. \A p : At(o.tree, p) # At(tree, p) => May(c, p)
    BY <1>2, <1>7, <2>2, CreateAllThere DEF May
  <2>4. DOMAIN o.tree \subseteq Seq(Names)
    BY <1>1, <1>2, CreateAllThere
  <2> QED
    BY <1>4, <2>1, <2>3, <2>4
<1>8. CASE c.op = "writeFile"
  <2> DEFINE o == store(tree, c.from, c.content)
  <2>1. Return(th, o)
    BY <1>8 DEF Act, c
  <2>2. c.from = c.arg[2]
    BY <1>1, <1>8 DEF Bound, Binary
  <2>3. \A p : At(o.tree, p) # At(tree, p) => May(c, p)
    BY <1>2, <1>8, <2>2, StoreThere DEF May
  <2>4. DOMAIN o.tree \subseteq Seq(Names)
    BY <1>1, <1>2, StoreThere
  <2> QED
    BY <1>4, <2>1, <2>3, <2>4
<1>9. CASE c.op = "move"
  <2> DEFINE o == rename(tree, c.from, c.to)
  <2>1. Return(th, o)
    BY <1>9 DEF Act, c
  <2>2. c.from = c.arg[1]
    BY <1>1, <1>9 DEF Bound
  <2>3. \A p \in Seq(Names) : At(o.tree, p) # At(tree, p) => May(c, p)
    <3>1. \A p : At(o.tree, p) # At(tree, p) => IsPrefix(c.from, p) \/ IsPrefix(c.to, p)
      BY <1>1, <1>2, RenameThere
    <3> HIDE DEF o
    <3> QED
      BY <1>2, <1>9, <2>2, <3>1 DEF May
  <2>4. DOMAIN o.tree \subseteq Seq(Names)
    BY <1>1, <1>2, RenameThere
  <2> QED
    BY <1>4, <2>1, <2>3, <2>4
<1>10. CASE c.op = "copyFile"
  <2>1. PICK o \in copy_file(tree, c.from, c.to, c.content) : Return(th, o)
    BY <1>10 DEF Act, c
  <2>2. \A p : At(o.tree, p) # At(tree, p) => May(c, p)
    BY <1>2, <1>10, CopyFileThere DEF May
  <2>3. DOMAIN o.tree \subseteq Seq(Names)
    BY <1>1, <1>2, CopyFileThere
  <2> QED
    BY <1>4, <2>1, <2>2, <2>3
<1>11. CASE c.op = "copyDirectory"
  <2> DEFINE o == create_directory(tree, c.to)
             level == [from |-> c.from, to |-> c.to, seen |-> {}]
             k == [c EXCEPT !.pc = "copy", !.open = Append(@, level)]
  <2>1. Return(th, Fails(tree)) \/ Meanwhile(th, k, o.tree)
    BY <1>11 DEF Act, c
  <2>2. CASE Return(th, Fails(tree))
    BY <1>1, <1>4, <2>2 DEF Fails
  <2>3. ASSUME Meanwhile(th, k, o.tree)
        PROVE  IInv' /\ \A p : At(tree', p) # At(tree, p) => May(c, p)
    <3>1. \A p : At(o.tree, p) # At(tree, p) => May(c, p)
      BY <1>2, <1>11, CreateThere DEF May
    <3>2. DOMAIN o.tree \subseteq Seq(Names)
      BY <1>1, <1>2, CreateThere
    <3>3. level \in Dirs(c.arg[2])
      BY <1>1, <1>2 DEF Bound, Dirs
    <3>4. Append(c.open, level) \in Seq(Dirs(c.arg[2])) /\ Append(c.open, level) # <<>>
      <4> HIDE DEF level
      <4>1. c.open \in Seq(Dirs(c.arg[2]))
        BY <1>1 DEF Bound
      <4> QED
        BY <3>3, <4>1, AppendProperties
    <3>5. Sound(k)
      BY <1>1, <1>11, <3>4 DEF Sound, Bound, Fields
    <3> HIDE DEF k, o
    <3>6. IInv' /\ tree' = o.tree
      BY <2>3, <3>2, <3>5, MeanwhileKeeps DEF Meanwhile
    <3> QED
      BY <3>1, <3>6
  <2> QED
    BY <2>1, <2>2, <2>3
<1> QED
  BY <1>3, <1>5, <1>6, <1>7, <1>8, <1>9, <1>10, <1>11 DEF Operations

\* A step of a copy changes what the copy may change.
LEMMA CopyStepThere ==
  ASSUME IInv, NEW th \in Threads, Copy(th)
  PROVE  IInv' /\ \A p : At(tree', p) # At(tree, p) => May(call[th], p)
<1> DEFINE c == call[th]
           dir == Last(c.open)
           left == {n \in Names \ dir.seen : Append(dir.from, n) \in DOMAIN tree}
<1> SUFFICES IInv' /\ \A p : At(tree', p) # At(tree, p) => May(c, p)
  OBVIOUS
<1>1. /\ c.pc = "copy" /\ c.op = "copyDirectory" /\ Working(c) /\ Sound(c) /\ Bound(c)
      /\ DOMAIN tree \subseteq Seq(Names)
      /\ c.arg[2] \in Seq(Names) /\ c.open \in Seq(Dirs(c.arg[2])) /\ c.open # <<>>
  BY PathSeq DEF Copy, IInv, Sound, Working, Bound
<1>2. dir \in Dirs(c.arg[2])
  BY <1>1 DEF Last
<1>3. dir.from \in Seq(Names) /\ dir.to \in Seq(Names) /\ IsPrefix(c.arg[2], dir.to)
  BY <1>2 DEF Dirs
<1>4. ASSUME NEW o, Return(th, o), o.tree = tree PROVE IInv' /\ tree' = tree
  BY <1>1, <1>4, ReturnKeeps
<1>5. CASE left = {} /\ Len(c.open) = 1 /\ Return(th, Done(tree, "yes"))
  BY <1>4, <1>5 DEF Done
<1>6. CASE left = {} /\ Len(c.open) # 1 /\ Continue(th, [c EXCEPT !.open = Front(@)])
  <2> DEFINE k == [c EXCEPT !.open = Front(@)]
  <2>1. Front(c.open) \in Seq(Dirs(c.arg[2])) /\ Front(c.open) # <<>>
    BY <1>1, <1>6, FrontSeq
  <2>2. Sound(k)
    BY <1>1, <2>1 DEF Sound, Bound, Fields
  <2> HIDE DEF k
  <2>3. IInv' /\ tree' = tree
    BY <1>6, <2>2, ContinueKeeps DEF k
  <2> QED
    BY <2>3
<1>7. ASSUME NEW n \in left,
             LET next == [c EXCEPT !.from = Append(dir.from, n), !.to = Append(dir.to, n)]
             IN  \/ Continue(th, [Seen(next, n) EXCEPT !.pc = "look"])
                 \/ Continue(th, [next EXCEPT !.pc = "entry"])
      PROVE  IInv' /\ \A p : At(tree', p) # At(tree, p) => May(c, p)
  <2> DEFINE from == Append(dir.from, n)
             to   == Append(dir.to, n)
             next == [c EXCEPT !.from = from, !.to = to]
             k    == Seen(next, n)
             in   == [k EXCEPT !.pc = "look"]
             on   == [next EXCEPT !.pc = "entry"]
  <2>1. /\ from \in Seq(Names) \ {Root} /\ to \in Seq(Names) /\ IsPrefix(c.arg[2], to)
    <3>1. n \in Names
      OBVIOUS
    <3> HIDE DEF dir, left
    <3>2. IsPrefix(dir.from, dir.from)
      BY <1>3, PrefixOrder
    <3>3. from \in Seq(Names) \ {Root}
      BY <1>3, <3>1, <3>2, PrefixAppend
    <3>4. to \in Seq(Names) /\ IsPrefix(c.arg[2], to)
      BY <1>1, <1>3, <3>1, PrefixAppend
    <3> QED
      BY <3>3, <3>4
  <2> HIDE DEF from, to
  <2>2. Bound(next) /\ Sound(on) /\ "pc" \in DOMAIN next /\ next.open # <<>>
    BY <1>1, <2>1 DEF Sound, Bound, Fields, Binary
  <2> HIDE DEF next
  <2>3. /\ DOMAIN k = DOMAIN next /\ \A f \in DOMAIN next \ {"open"} : k[f] = next[f]
        /\ Bound(k)
    BY <2>2, SeenBound
  <2> HIDE DEF k
  <2>4. Sound(in)
    BY <2>2, <2>3 DEF Sound, Bound, Fields
  <2> HIDE DEF in, on
  <2>5. Continue(th, in) \/ Continue(th, on)
    BY <1>7 DEF in, on, k, next, from, to
  <2>6. IInv' /\ tree' = tree
    BY <2>2, <2>4, <2>5, ContinueKeeps
  <2> QED
    BY <2>6
<1>8. \/ left = {} /\ Len(c.open) = 1 /\ Return(th, Done(tree, "yes"))
      \/ left = {} /\ Len(c.open) # 1 /\ Continue(th, [c EXCEPT !.open = Front(@)])
      \/ \E n \in left :
           LET next == [c EXCEPT !.from = Append(dir.from, n), !.to = Append(dir.to, n)]
           IN  \/ Continue(th, [Seen(next, n) EXCEPT !.pc = "look"])
               \/ Continue(th, [next EXCEPT !.pc = "entry"])
  BY DEF Copy
<1> QED
  BY <1>5, <1>6, <1>7, <1>8

\* So do the call that goes on to the next entry and the one that then copies a file.
LEMMA EntryStepThere ==
  ASSUME IInv, NEW th \in Threads, CopyEntry(th) \/ CopyFile(th)
  PROVE  IInv' /\ \A p : At(tree', p) # At(tree, p) => May(call[th], p)
<1> DEFINE c == call[th]
           n == Name(c.from)
           k == Seen(c, n)
           on == [k EXCEPT !.pc = "copy"]
           in == [c EXCEPT !.pc = "file"]
           o == copy(tree, c.from, c.to)
<1> SUFFICES IInv' /\ \A p : At(tree', p) # At(tree, p) => May(c, p)
  OBVIOUS
<1>1. /\ c.pc \in {"entry", "file"} /\ Working(c) /\ Sound(c) /\ Bound(c)
      /\ DOMAIN tree \subseteq Seq(Names)
      /\ c.op = "copyDirectory" /\ c.open # <<>>
  BY DEF CopyEntry, CopyFile, IInv, Sound, Working, Bound
<1>2. n \in Names
  <2>1. c.from \in Seq(Names) \ {Root}
    BY <1>1 DEF Bound
  <2>2. Len(c.from) \in 1..Len(c.from)
    <3> HIDE DEF c
    <3> QED
      BY <2>1 DEF Root
  <2> QED
    BY <2>1, <2>2, ElementOfSeq DEF Name
<1> HIDE DEF n
<1>3. /\ DOMAIN k = DOMAIN c /\ \A f \in DOMAIN c \ {"open"} : k[f] = c[f]
      /\ Bound(k) /\ k.open # <<>>
  <2>1. /\ DOMAIN k = DOMAIN c /\ \A f \in DOMAIN c \ {"open"} : k[f] = c[f]
        /\ Bound(k)
    BY <1>1, <1>2, SeenBound
  <2>2. "pc" \in DOMAIN c
    BY <1>1 DEF Sound
  <2> HIDE DEF k
  <2> QED
    BY <1>1, <2>1, <2>2 DEF Bound
<1> HIDE DEF k
<1>4. Sound(on) /\ Sound(in)
  BY <1>1, <1>3 DEF Sound, Bound, Fields
<1>5. c.to \in Seq(Names) /\ IsPrefix(c.arg[2], c.to)
  BY <1>1 DEF Bound
<1>6. \A p : At(o.tree, p) # At(tree, p) => May(c, p)
  BY <1>1, <1>5, CopyThere DEF May
<1>7. DOMAIN o.tree \subseteq Seq(Names)
  <2>1. DOMAIN o.tree \subseteq DOMAIN tree \cup {c.to}
    BY CopyThere
  <2> HIDE DEF o
  <2> QED
    BY <1>1, <1>5, <2>1
<1>8. \/ Continue(th, in) \/ Continue(th, on)
      \/ Return(th, o) \/ Meanwhile(th, on, o.tree)
  BY DEF CopyEntry, CopyFile, k, n
<1> HIDE DEF in, on, o
<1>9. CASE Continue(th, in) \/ Continue(th, on)
  BY <1>4, <1>9, ContinueKeeps
<1>10. CASE Return(th, o)
  <2>1. IInv' /\ tree' = o.tree
    BY <1>1, <1>7, <1>10, ReturnKeeps
  <2> QED
    BY <1>6, <2>1
<1>11. CASE Meanwhile(th, on, o.tree)
  <2>1. IInv' /\ tree' = o.tree
    BY <1>4, <1>7, <1>11, MeanwhileKeeps DEF Meanwhile
  <2> QED
    BY <1>6, <2>1
<1> QED
  BY <1>8, <1>9, <1>10, <1>11

-----------------------------------------------------------------------------
(* The theorems.                                                            *)

\* A step keeps the invariant, and changes nothing but what its call may change.
LEMMA StepThere ==
  ASSUME IInv, NEW th \in Threads, Step(th)
  PROVE  IInv' /\ \A p : At(tree', p) # At(tree, p) => May(call[th], p)
BY LookThere, ActThere, CopyStepThere, EntryStepThere DEF Step

\* What every call under way works on lies where its arguments say.
THEOREM Invariance == Spec => []IInv
<1>1. IInv /\ [Next]_vars => IInv'
  <2> SUFFICES ASSUME IInv, [Next]_vars PROVE IInv'
    OBVIOUS
  <2>1. CASE Next
    BY <2>1, BeginKeeps, StepThere DEF Next
  <2>2. CASE UNCHANGED vars
    BY <2>2 DEF vars, IInv
  <2> QED
    BY <2>1, <2>2
<1> QED
  BY <1>1, InitInv, PTL DEF Spec

\* Whatever the other threads do between its steps, a helper changes nothing but what
\* lies where its arguments say, and copyDirectory, createDirectory and
\* createDirectories overwrite nothing (fs_manager.cpp 91-224).
THEOREM OnlyThereAlways == Spec => OnlyThere
<1>1. IInv /\ [Next]_vars =>
        [\A th \in Threads : Step(th) =>
           \A p \in DOMAIN tree \cup DOMAIN tree' :
             At(tree', p) # At(tree, p) => May(call[th], p)]_vars
  BY StepThere
<1> QED
  BY <1>1, Invariance, PTL DEF Spec, OnlyThere

\* The paths that may be in a tree are the sequences of names of limited length.
LEMMA PathLen == \A p : p \in Paths <=> p \in Seq(Names) /\ Len(p) <= MaxDepth
<1>1. MaxDepth \in Nat
  BY FileTreeAssumption
<1>2. ASSUME NEW p \in Paths PROVE p \in Seq(Names) /\ Len(p) <= MaxDepth
  <2>1. PICK n \in 0..MaxDepth : p \in [1..n -> Names]
    BY DEF Paths
  <2>2. n \in Nat
    BY <1>1, <2>1
  <2> QED
    BY <1>1, <2>1, <2>2, IsASeq
<1>3. ASSUME NEW p \in Seq(Names), Len(p) <= MaxDepth PROVE p \in Paths
  <2>1. Len(p) \in 0..MaxDepth /\ p \in [1..Len(p) -> Names]
    BY <1>1, <1>3
  <2> QED
    BY <2>1 DEF Paths
<1> QED
  BY <1>2, <1>3

\* Of two paths that lead to a third the shorter leads to the longer.
LEMMA PrefixChain ==
  ASSUME NEW a \in Seq(Names), NEW b \in Seq(Names), NEW p \in Seq(Names),
         IsPrefix(a, p), IsPrefix(b, p), Len(a) <= Len(b)
  PROVE  IsPrefix(a, b)
<1>1. Len(a) <= Len(p) /\ Len(b) <= Len(p)
  BY DEF IsPrefix
<1>2. \A i \in 1..Len(a) : a[i] = p[i] /\ b[i] = p[i]
  BY <1>1 DEF IsPrefix
<1> QED
  BY <1>2 DEF IsPrefix

\* A path that leads to another that is no longer is the same.
LEMMA PrefixSame ==
  ASSUME NEW a \in Seq(Names), NEW b \in Seq(Names), IsPrefix(a, b), Len(b) <= Len(a)
  PROVE  a = b
<1>1. Len(a) = Len(b) /\ \A i \in 1..Len(a) : a[i] = b[i]
  BY DEF IsPrefix
<1> QED
  BY <1>1

\* Between a path and one below it there is the first name of the way.
LEMMA PrefixNext ==
  ASSUME NEW a \in Seq(Names), NEW b \in Seq(Names), IsPrefix(a, b), a # b
  PROVE  \E n \in Names : IsPrefix(Append(a, n), b)
<1>1. Len(a) < Len(b)
  <2>1. Len(a) <= Len(b)
    BY DEF IsPrefix
  <2> QED
    BY <2>1, PrefixSame
<1>2. b[Len(a) + 1] \in Names
  BY <1>1
<1>3. IsPrefix(Append(a, b[Len(a) + 1]), b)
  <2> DEFINE e == Append(a, b[Len(a) + 1])
  <2>1. e \in Seq(Names) /\ Len(e) = Len(a) + 1
    BY <1>2
  <2>2. \A i \in 1..Len(e) : e[i] = b[i]
    <3>1. \A i \in 1..Len(a) : e[i] = a[i] /\ a[i] = b[i]
      BY <1>2 DEF IsPrefix
    <3>2. e[Len(a) + 1] = b[Len(a) + 1]
      BY <1>2
    <3> QED
      BY <2>1, <3>1, <3>2
  <2> HIDE DEF e
  <2> QED
    BY <1>1, <2>1, <2>2 DEF IsPrefix
<1> QED
  BY <1>2, <1>3

\* A path is its parent and its name.
LEMMA ParentName ==
  ASSUME NEW p \in Seq(Names), p # Root
  PROVE  /\ Parent(p) \in Seq(Names) /\ Name(p) \in Names
         /\ Len(Parent(p)) = Len(p) - 1 /\ Len(p) \in Nat \ {0}
         /\ p = Append(Parent(p), Name(p)) /\ IsPrefix(Parent(p), p)
<1>1. Len(p) \in Nat \ {0}
  BY EmptySeq DEF Root
<1>2. /\ Parent(p) \in Seq(Names) /\ Len(Parent(p)) = Len(p) - 1 /\ Name(p) \in Names
      /\ \A i \in 1..(Len(p) - 1) : Parent(p)[i] = p[i]
  <2> DEFINE k == Len(p) - 1
  <2>1. k \in Nat /\ k <= Len(p)
    BY <1>1
  <2>2. p[Len(p)] \in Names
    BY <1>1
  <2> HIDE DEF k
  <2>3. \A i \in 1..k : p[i] \in Names
    BY <2>1
  <2>4. SubSeq(p, 1, k) \in Seq(Names) /\ Len(SubSeq(p, 1, k)) = k
    BY <2>1, <2>3, SubSeqProperties
  <2>5. \A i \in 1..k : SubSeq(p, 1, k)[i] = p[i]
    BY <2>1
  <2> QED
    BY <2>2, <2>4, <2>5 DEF Parent, Name, k
<1>3. \A i \in 1..(Len(p) - 1) : Parent(p)[i] = p[i]
  BY <1>2
<1>4. p = Append(Parent(p), Name(p))
  BY <1>1, <1>2, <1>3 DEF Name
<1>5. IsPrefix(Parent(p), p)
  BY <1>1, <1>2, <1>3 DEF IsPrefix
<1> QED
  BY <1>1, <1>2, <1>4, <1>5

\* The parent of a path with a name added is that path.
LEMMA ParentAppend ==
  ASSUME NEW p \in Seq(Names), NEW n \in Names
  PROVE  /\ Append(p, n) \in Seq(Names) \ {Root} /\ Len(Append(p, n)) = Len(p) + 1
         /\ Parent(Append(p, n)) = p /\ Name(Append(p, n)) = n
         /\ IsPrefix(p, Append(p, n))
<1>1. Append(p, n) \in Seq(Names) \ {Root} /\ Len(Append(p, n)) = Len(p) + 1
  BY AppendProperties DEF Root
<1>2. Parent(Append(p, n)) = p
  BY <1>1 DEF Parent
<1>3. Name(Append(p, n)) = n
  BY <1>1 DEF Name
<1>4. IsPrefix(p, Append(p, n))
  BY <1>1 DEF IsPrefix
<1> QED
  BY <1>1, <1>2, <1>3, <1>4

\* What leads to a path leads to its parent, unless it is the path.
LEMMA PrefixParent ==
  ASSUME NEW a \in Seq(Names), NEW p \in Seq(Names), p # Root, IsPrefix(a, p), a # p
  PROVE  IsPrefix(a, Parent(p))
<1>1. Len(a) <= Len(p) /\ Len(a) # Len(p)
  BY PrefixSame DEF IsPrefix
<1>2. Len(a) <= Len(Parent(p))
  BY <1>1, ParentName
<1> QED
  BY <1>2, ParentName, PrefixChain

-----------------------------------------------------------------------------
(* What lies below a path, moved below another.                             *)

\* Where what lies below f is when it is moved below d.
Moved(q, f, d) == d \o SubSeq(q, Len(f) + 1, Len(q))

\* What is left of a path behind its first k names.
LEMMA PathRest ==
  ASSUME NEW q \in Seq(Names), NEW k \in Nat, NEW n \in Nat, n = Len(q), k <= n
  PROVE  /\ SubSeq(q, k + 1, Len(q)) \in Seq(Names)
         /\ Len(SubSeq(q, k + 1, Len(q))) = n - k
         /\ \A i \in 1..(n - k) : SubSeq(q, k + 1, Len(q))[i] = q[k + i]
<1>1. k + 1 \in Nat /\ n - k \in Nat
  OBVIOUS
<1>2. SubSeq(q, k + 1, n) \in Seq(Names)
  OBVIOUS
<1>3. Len(SubSeq(q, k + 1, n)) = n - k
  OBVIOUS
<1>4. \A i \in 1..(n - k) : SubSeq(q, k + 1, n)[i] = q[k + i]
  OBVIOUS
<1> QED
  BY <1>2, <1>3, <1>4

\* It is a path below the other, as much longer as the two are.
LEMMA MovedPath ==
  ASSUME NEW f \in Seq(Names), NEW d \in Seq(Names), NEW q \in Seq(Names), IsPrefix(f, q)
  PROVE  /\ Moved(q, f, d) \in Seq(Names)
         /\ Len(Moved(q, f, d)) = Len(d) + Len(q) - Len(f)
         /\ IsPrefix(d, Moved(q, f, d))
         /\ \A i \in 1..(Len(q) - Len(f)) : Moved(q, f, d)[Len(d) + i] = q[Len(f) + i]
<1> DEFINE r == SubSeq(q, Len(f) + 1, Len(q))
<1>1. PICK k \in Nat, n \in Nat, m \in Nat : k = Len(f) /\ n = Len(q) /\ m = Len(d) /\ k <= n
  BY DEF IsPrefix
<1>2. r \in Seq(Names) /\ Len(r) = n - k /\ \A i \in 1..(n - k) : r[i] = q[k + i]
  BY <1>1, PathRest
<1> HIDE DEF r
<1>3. d \o r \in Seq(Names) /\ IsPrefix(d, d \o r)
  BY <1>2, PrefixConcat
<1>4. Len(d \o r) = m + (n - k)
  <2>1. Len(d \o r) = Len(d) + Len(r)
    BY <1>2, ConcatProperties
  <2> QED
    BY <1>1, <1>2, <2>1
<1>5. ASSUME NEW i \in 1..(n - k) PROVE (d \o r)[m + i] = q[k + i]
  <2>1. m + i \in 1..(m + (n - k)) /\ ~(m + i <= m) /\ m + i - m = i
    BY <1>1
  <2>2. (d \o r)[m + i] = r[m + i - m]
    BY <1>1, <1>2, <2>1, ConcatProperties
  <2> QED
    BY <1>2, <2>1, <2>2
<1>6. m + (n - k) = m + n - k
  BY <1>1
<1> QED
  BY <1>1, <1>3, <1>4, <1>5, <1>6 DEF Moved, r

\* The path itself is moved to the other, and an entry to the entry of that name.
LEMMA MovedEntry ==
  ASSUME NEW f \in Seq(Names), NEW d \in Seq(Names), NEW q \in Seq(Names), IsPrefix(f, q),
         NEW n \in Names
  PROVE  /\ Moved(f, f, d) = d
         /\ Moved(Append(q, n), f, d) = Append(Moved(q, f, d), n)
<1>1. Moved(f, f, d) = d
  BY DEF Moved
<1>2. Moved(Append(q, n), f, d) = Append(Moved(q, f, d), n)
  <2> DEFINE e == Append(q, n)
             a == SubSeq(q, Len(f) + 1, Len(q))
             b == SubSeq(e, Len(f) + 1, Len(e))
  <2>1. PICK k \in Nat, m \in Nat : k = Len(f) /\ m = Len(q) /\ k <= m
    BY DEF IsPrefix
  <2>2. e \in Seq(Names) /\ Len(e) = m + 1 /\ e[m + 1] = n /\ \A i \in 1..m : e[i] = q[i]
    BY <2>1, AppendProperties
  <2>3. a \in Seq(Names) /\ Len(a) = m - k /\ \A i \in 1..(m - k) : a[i] = q[k + i]
    BY <2>1, PathRest
  <2>4. m + 1 \in Nat /\ k <= m + 1 /\ (m + 1) - k = (m - k) + 1
    BY <2>1
  <2> HIDE DEF a, e
  <2>5. b \in Seq(Names) /\ Len(b) = (m - k) + 1 /\ \A i \in 1..((m - k) + 1) : b[i] = e[k + i]
    BY <2>1, <2>2, <2>4, PathRest
  <2> HIDE DEF b
  <2>6. /\ Append(a, n) \in Seq(Names) /\ Len(Append(a, n)) = (m - k) + 1
        /\ Append(a, n)[(m - k) + 1] = n /\ \A i \in 1..(m - k) : Append(a, n)[i] = a[i]
    <3>1. PICK l \in Nat : l = m - k
      BY <2>1
    <3>2. a \in Seq(Names) /\ Len(a) = l
      BY <2>3, <3>1
    <3>3. /\ Append(a, n) \in Seq(Names) /\ Len(Append(a, n)) = l + 1
          /\ Append(a, n)[l + 1] = n /\ \A i \in 1..l : Append(a, n)[i] = a[i]
      BY <3>2, AppendProperties
    <3> QED
      BY <3>1, <3>3
  <2>8. ASSUME NEW i \in 1..((m - k) + 1) PROVE b[i] = Append(a, n)[i]
    <3>1. CASE i <= m - k
      <4>1. i \in 1..(m - k) /\ k + i \in 1..m
        BY <2>1, <3>1
      <4> QED
        BY <2>2, <2>3, <2>5, <2>6, <4>1
    <3>2. CASE i = (m - k) + 1
      <4>1. k + i = m + 1
        BY <2>1, <3>2
      <4> QED
        BY <2>2, <2>5, <2>6, <3>2, <4>1
    <3>3. i <= m - k \/ i = (m - k) + 1
      BY <2>1
    <3> QED
      BY <3>1, <3>2, <3>3
  <2>9. b = Append(a, n)
    BY <2>5, <2>6, <2>8, SeqEqual
  <2>7. d \o Append(a, n) = Append(d \o a, n)
    BY <2>3
  <2> QED
    BY <2>7, <2>9 DEF Moved, a, b, e
<1> QED
  BY <1>1, <1>2

\* Of two paths one leads to the other when it does so after they are moved.
LEMMA MovedOrder ==
  ASSUME NEW f \in Seq(Names), NEW d \in Seq(Names), NEW q \in Seq(Names), IsPrefix(f, q),
         NEW r \in Seq(Names), IsPrefix(f, r)
  PROVE  /\ IsPrefix(q, r) <=> IsPrefix(Moved(q, f, d), Moved(r, f, d))
         /\ Moved(q, f, d) = Moved(r, f, d) => q = r
<1> DEFINE a == Moved(q, f, d)
           b == Moved(r, f, d)
<1>1. /\ a \in Seq(Names) /\ Len(a) = Len(d) + Len(q) - Len(f) /\ IsPrefix(d, a)
      /\ \A i \in 1..(Len(q) - Len(f)) : a[Len(d) + i] = q[Len(f) + i]
  BY MovedPath
<1>2. /\ b \in Seq(Names) /\ Len(b) = Len(d) + Len(r) - Len(f) /\ IsPrefix(d, b)
      /\ \A i \in 1..(Len(r) - Len(f)) : b[Len(d) + i] = r[Len(f) + i]
  BY MovedPath
<1>3. Len(f) <= Len(q) /\ Len(f) <= Len(r) /\ Len(d) <= Len(a) /\ Len(d) <= Len(b)
  BY <1>1, <1>2 DEF IsPrefix
<1>4. \A i \in 1..Len(f) : f[i] = q[i] /\ f[i] = r[i]
  BY <1>3 DEF IsPrefix
<1>5. \A i \in 1..Len(d) : d[i] = a[i] /\ d[i] = b[i]
  BY <1>1, <1>2, <1>3 DEF IsPrefix
<1> HIDE DEF a, b
<1>6. ASSUME IsPrefix(q, r) PROVE IsPrefix(a, b)
  <2>1. Len(a) <= Len(b)
    BY <1>1, <1>2, <1>6 DEF IsPrefix
  <2>2. ASSUME NEW i \in 1..Len(a) PROVE a[i] = b[i]
    <3>1. CASE i <= Len(d)
      BY <1>5, <3>1
    <3>2. CASE i > Len(d)
      <4> DEFINE j == i - Len(d)
      <4>1. j \in 1..(Len(q) - Len(f)) /\ i = Len(d) + j /\ j \in 1..(Len(r) - Len(f))
        BY <1>1, <1>2, <1>3, <2>1, <3>2
      <4>2. Len(f) + j \in 1..Len(q)
        BY <1>3, <4>1
      <4>3. q[Len(f) + j] = r[Len(f) + j]
        BY <1>6, <4>2 DEF IsPrefix
      <4> QED
        BY <1>1, <1>2, <4>1, <4>3
    <3> QED
      BY <3>1, <3>2
  <2> QED
    BY <1>1, <1>2, <2>1, <2>2 DEF IsPrefix
<1>7. ASSUME IsPrefix(a, b) PROVE IsPrefix(q, r)
  <2>1. Len(q) <= Len(r)
    BY <1>1, <1>2, <1>3, <1>7 DEF IsPrefix
  <2>2. ASSUME NEW i \in 1..Len(q) PROVE q[i] = r[i]
    <3>1. CASE i <= Len(f)
      BY <1>4, <3>1
    <3>2. CASE i > Len(f)
      <4> DEFINE j == i - Len(f)
      <4>1. j \in 1..(Len(q) - Len(f)) /\ i = Len(f) + j /\ j \in 1..(Len(r) - Len(f))
        BY <1>3, <2>1, <3>2
      <4>2. Len(d) + j \in 1..Len(a)
        BY <1>1, <1>3, <4>1
      <4>3. a[Len(d) + j] = b[Len(d) + j]
        BY <1>7, <4>2 DEF IsPrefix
      <4> QED
        BY <1>1, <1>2, <4>1, <4>3
    <3> QED
      BY <3>1, <3>2
  <2> QED
    BY <2>1, <2>2 DEF IsPrefix
<1>8. ASSUME a = b PROVE q = r
  <2>1. IsPrefix(a, b) /\ Len(q) = Len(r)
    BY <1>1, <1>2, <1>3, <1>8, PrefixOrder
  <2> QED
    BY <1>7, <2>1, PrefixSame
<1> QED
  BY <1>6, <1>7, <1>8 DEF a, b

-----------------------------------------------------------------------------
(* Trees.                                                                   *)

\* A directory is in the tree.
LEMMA DirectoryThere ==
  ASSUME NEW t, NEW p, is_directory(t, p)
  PROVE  p \in DOMAIN t /\ t[p] = "directory_file"
BY DEF is_directory, Type

\* A set that has 0, and the successor of each of its elements, has every number.
LEMMA SetInduction ==
  ASSUME NEW I, 0 \in I, \A n \in Nat : n \in I => n + 1 \in I
  PROVE  \A n \in Nat : n \in I
<1> SUFFICES ASSUME Nat \ I # {} PROVE FALSE
  OBVIOUS
<1>1. PICK x \in Nat \ I : \A y \in Nat \ I : ~(<<y, x>> \in OpToRel(<, Nat))
  BY NatLessThanWellFounded, WFMin
<1>2. x \in Nat /\ x \notin I /\ x # 0
  BY <1>1
<1>3. x - 1 \in Nat /\ (x - 1) + 1 = x
  BY <1>2
<1>4. x - 1 \in I
  <2>1. <<x - 1, x>> \in OpToRel(<, Nat)
    BY <1>2, <1>3 DEF OpToRel
  <2> QED
    BY <1>1, <1>3, <2>1, Zenon
<1>5. (x - 1) + 1 \in I
  BY <1>3, <1>4, Zenon
<1> QED
  BY <1>2, <1>3, <1>5, Zenon

\* A path leads through directories.
LEMMA TreeAncestors ==
  ASSUME NEW t, IsTree(t), NEW p \in DOMAIN t, NEW q \in Seq(Names), IsPrefix(q, p)
  PROVE  q \in DOMAIN t /\ (q # p => is_directory(t, q))
<1> DEFINE I == {n \in Nat : \A r \in DOMAIN t : IsPrefix(q, r) /\ Len(r) = Len(q) + n
                                => q \in DOMAIN t /\ (q # r => is_directory(t, q))}
<1>0. \A r \in DOMAIN t : r \in Seq(Names)
  BY PathSeq DEF IsTree
<1>1. 0 \in I
  <2> SUFFICES ASSUME NEW r \in DOMAIN t, IsPrefix(q, r), Len(r) = Len(q) + 0
               PROVE  q = r
    OBVIOUS
  <2> QED
    BY <1>0, PrefixSame
<1>2. ASSUME NEW n \in Nat, n \in I PROVE n + 1 \in I
  <2> SUFFICES ASSUME NEW r \in DOMAIN t, IsPrefix(q, r), Len(r) = Len(q) + (n + 1)
               PROVE  q \in DOMAIN t /\ (q # r => is_directory(t, q))
    OBVIOUS
  <2>1. r \in Seq(Names) /\ r # q /\ r # Root
    BY <1>0, EmptySeq DEF Root
  <2>2. IsPrefix(q, Parent(r)) /\ Len(Parent(r)) = Len(q) + n
    BY <2>1, PrefixParent, ParentName
  <2>3. is_directory(t, Parent(r))
    BY <2>1 DEF IsTree
  <2>4. Parent(r) \in DOMAIN t
    BY <2>3, DirectoryThere
  <2>5. q \in DOMAIN t /\ (q # Parent(r) => is_directory(t, q))
    BY <1>2, <2>2, <2>4
  <2> QED
    BY <2>3, <2>5
<1> HIDE DEF I
<1>3. \A n \in Nat : n \in I
  BY <1>1, <1>2, SetInduction
<1>4. PICK n \in Nat : Len(p) = Len(q) + n
  <2>1. p \in Seq(Names) /\ Len(q) <= Len(p)
    BY <1>0 DEF IsPrefix
  <2>2. Len(p) - Len(q) \in Nat /\ Len(p) = Len(q) + (Len(p) - Len(q))
    BY <2>1
  <2> QED
    BY <2>2
<1> QED
  BY <1>3, <1>4 DEF I

\* A directory is a directory in the tree.
LEMMA DirectoryIff ==
  ASSUME NEW t, NEW p
  PROVE  is_directory(t, p) <=> p \in DOMAIN t /\ t[p] = "directory_file"
BY FileTreeAssumption DEF is_directory, Type

\* A regular file has a content.
LEMMA RegularContent ==
  ASSUME NEW t, IsTree(t), NEW p, Type(t, p) = "regular_file"
  PROVE  p \in DOMAIN t /\ t[p] \in Contents
BY DEF Type, IsTree, Nodes

\* What is put into a directory leaves a tree, if a directory is not replaced.
LEMMA PutTree ==
  ASSUME NEW t, IsTree(t), NEW p \in Seq(Names) \ {Root}, Fits(t, p), NEW node \in Nodes,
         is_directory(t, p) => node = "directory_file"
  PROVE  IsTree(Put(t, p, node))
<1> DEFINE u == Put(t, p, node)
<1>1. /\ DOMAIN u = DOMAIN t \cup {p} /\ u[p] = node
      /\ \A q \in DOMAIN t \ {p} : u[q] = t[q]
      /\ u \in [DOMAIN u -> Nodes]
  BY DEF Put, IsTree
<1>2. DOMAIN u \subseteq Paths
  BY <1>1, PathLen DEF Fits, IsTree
<1>3. \A q : is_directory(t, q) => is_directory(u, q)
  BY <1>1, DirectoryIff
<1> HIDE DEF u
<1>4. ASSUME NEW q \in DOMAIN u \ {Root} PROVE is_directory(u, Parent(q))
  BY <1>1, <1>3 DEF Fits, IsTree
<1> QED
  BY <1>1, <1>2, <1>3, <1>4 DEF IsTree, u

\* So does a path that is taken away with what lies below it.
LEMMA WithoutTree ==
  ASSUME NEW t, IsTree(t), NEW p \in Seq(Names) \ {Root}
  PROVE  IsTree(Without(t, p))
<1> DEFINE u == Without(t, p)
<1>1. /\ DOMAIN u = DOMAIN t \ Below(t, p) /\ \A q \in DOMAIN u : u[q] = t[q]
      /\ u \in [DOMAIN u -> Nodes]
  BY DEF Without, IsTree
<1>2. \A q \in DOMAIN t : q \in Seq(Names)
  BY PathSeq DEF IsTree
<1>3. ~IsPrefix(p, Root)
  <2>1. Len(p) # 0
    BY EmptySeq DEF Root
  <2> QED
    BY <2>1 DEF IsPrefix, Root
<1> HIDE DEF u
<1>4. is_directory(u, Root)
  BY <1>1, <1>3, DirectoryIff DEF IsTree, Below
<1>5. ASSUME NEW q \in DOMAIN u \ {Root} PROVE is_directory(u, Parent(q))
  <2>1. q \in DOMAIN t /\ ~IsPrefix(p, q) /\ is_directory(t, Parent(q))
    BY <1>1 DEF Below, IsTree
  <2>2. IsPrefix(Parent(q), q) /\ Parent(q) \in Seq(Names)
    BY <1>2, <2>1, ParentName
  <2>3. ~IsPrefix(p, Parent(q))
    BY <1>2, <2>1, <2>2, PrefixOrder
  <2> QED
    BY <1>1, <2>1, <2>3, DirectoryIff DEF Below
<1> QED
  BY <1>1, <1>4, <1>5 DEF IsTree, u

\* The operating system leaves a tree a tree: removing,
LEMMA RemoveTree ==
  ASSUME NEW t, IsTree(t), NEW p \in Seq(Names) \ {Root}
  PROVE  IsTree(remove_all(t, p).tree) /\ IsTree(remove(t, p).tree)
BY WithoutTree DEF remove_all, remove, Done, Fails

\* storing,
LEMMA StoreTree ==
  ASSUME NEW t, IsTree(t), NEW p \in Seq(Names) \ {Root}, NEW content \in Contents
  PROVE  IsTree(store(t, p, content).tree)
<1>1. content \in Nodes
  BY DEF Nodes
<1>2. ~is_directory(t, p) /\ Fits(t, p) => IsTree(Put(t, p, content))
  BY <1>1, PutTree
<1> QED
  BY <1>2 DEF store, Done, Fails

\* copying a file,
LEMMA CopyFileTree ==
  ASSUME NEW t, IsTree(t), NEW from \in Seq(Names) \ {Root}, NEW to \in Seq(Names) \ {Root},
         NEW empty \in Contents, NEW o \in copy_file(t, from, to, empty)
  PROVE  IsTree(o.tree)
<1>1. CASE Type(t, from) # "regular_file"
  BY <1>1 DEF copy_file, Fails
<1>2. CASE Type(t, from) = "regular_file" /\ from = to
  <2>1. from \in DOMAIN t /\ t[from] \in Contents
    BY <1>2, RegularContent
  <2>2. Len(from) <= MaxDepth /\ is_directory(t, Parent(from))
    BY <2>1, PathLen DEF IsTree
  <2>3. ~is_directory(t, to) /\ Fits(t, to)
    BY <1>2, <2>1, <2>2, DirectoryIff, FileTreeAssumption DEF Fits
  <2>4. IsTree(Put(t, to, empty))
    BY <2>3, PutTree DEF Nodes
  <2> QED
    BY <1>2, <2>4 DEF copy_file, Done, Fails
<1>3. CASE Type(t, from) = "regular_file" /\ from # to
  <2>1. IsTree(store(t, to, t[from]).tree)
    BY <1>3, RegularContent, StoreTree
  <2> QED
    BY <1>3, <2>1 DEF copy_file
<1> QED
  BY <1>1, <1>2, <1>3

\* making a directory,
LEMMA CreateTree ==
  ASSUME NEW t, IsTree(t), NEW p \in Seq(Names) \ {Root}
  PROVE  IsTree(create_directory(t, p).tree)
<1>1. Fits(t, p) => IsTree(Put(t, p, "directory_file"))
  BY PutTree DEF Nodes
<1> QED
  BY <1>1 DEF create_directory, Done, Fails

\* making a directory and those above it,
LEMMA CreateAllTree ==
  ASSUME NEW t, IsTree(t), NEW p \in Paths \ {Root}
  PROVE  IsTree(create_directories(t, p).tree)
<1> DEFINE all == {SubSeq(p, 1, n) : n \in 1..Len(p)}
           u == Over([q \in all |-> "directory_file"], t)
<1>1. p \in Seq(Names) /\ Len(p) <= MaxDepth /\ MaxDepth \in Nat
  BY PathLen, FileTreeAssumption
<1>2. ASSUME NEW q \in all
      PROVE  q \in Paths /\ (q # Root => Parent(q) \in all \cup {Root})
  <2>1. PICK n \in 1..Len(p) : q = SubSeq(p, 1, n)
    OBVIOUS
  <2>2. q \in Seq(Names) /\ Len(q) = n /\ \A i \in 1..n : q[i] = p[i]
    BY <1>1, <2>1
  <2>3. q \in Paths
    BY <1>1, <2>2, PathLen
  <2>4. CASE n = 1
    <3>1. Parent(q) = <<>>
      BY <2>2, <2>4 DEF Parent
    <3> QED
      BY <2>3, <3>1 DEF Root
  <2>5. CASE n # 1
    <3>1. n - 1 \in 1..Len(p)
      BY <1>1, <2>5
    <3>2. Parent(q) = SubSeq(q, 1, n - 1)
      BY <2>2 DEF Parent
    <3>3. SubSeq(q, 1, n - 1) = SubSeq(p, 1, n - 1)
      BY <1>1, <2>2, <3>1
    <3> QED
      BY <2>3, <3>1, <3>2, <3>3
  <2> QED
    BY <2>4, <2>5
<1>3. CASE \E q \in all \cap DOMAIN t : ~is_directory(t, q)
  BY <1>3 DEF create_directories, Fails
<1>4. CASE \A q \in all \cap DOMAIN t : is_directory(t, q)
  <2>1. create_directories(t, p).tree = u
    BY <1>4 DEF create_directories, Done
  <2>2. /\ DOMAIN u = all \cup DOMAIN t /\ \A q \in all : u[q] = "directory_file"
        /\ \A q \in DOMAIN t : u[q] = t[q]
    <3>1. \A q \in all \cap DOMAIN t : t[q] = "directory_file"
      BY <1>4, DirectoryIff
    <3> HIDE DEF all
    <3> QED
      BY <3>1 DEF Over
  <2>3. u \in [DOMAIN u -> Nodes]
    <3> HIDE DEF all
    <3>1. \A q \in DOMAIN u : u[q] \in Nodes
      BY <2>2 DEF IsTree, Nodes
    <3> QED
      BY <3>1 DEF Over
  <2> HIDE DEF u, all
  <2>4. \A q : is_directory(t, q) \/ q \in all => is_directory(u, q)
    BY <2>2, DirectoryIff
  <2>5. \A q \in DOMAIN u \ {Root} : is_directory(u, Parent(q))
    BY <1>2, <2>2, <2>4 DEF IsTree
  <2> QED
    BY <1>2, <2>1, <2>2, <2>3, <2>4, <2>5 DEF IsTree
<1> QED
  BY <1>3, <1>4

\* The copy of a file in a directory that is copied.
LEMMA CopyTree ==
  ASSUME NEW t, IsTree(t), NEW from, NEW to \in Seq(Names) \ {Root}
  PROVE  IsTree(copy(t, from, to).tree)
<1>1. CASE from \notin DOMAIN t \/ to \in DOMAIN t
  BY <1>1 DEF copy, Fails
<1>2. CASE ~(from \notin DOMAIN t \/ to \in DOMAIN t)
  <2>1. t[from] \in Nodes
    BY <1>2 DEF IsTree
  <2>2. Type(t, to) = "file_not_found" /\ ~is_directory(t, to)
    BY <1>2 DEF Type, is_directory
  <2>3. Fits(t, to) => IsTree(Put(t, to, t[from]))
    BY <2>1, <2>2, PutTree
  <2>4. copy(t, from, to).tree \in {t, Put(t, to, t[from])}
        /\ (~Fits(t, to) => copy(t, from, to).tree = t)
    BY <1>2, <2>2 DEF copy, store, Done, Fails
  <2> QED
    BY <2>3, <2>4
<1> QED
  BY <1>1, <1>2

\* What is moved back is where it was.
LEMMA MovedBack ==
  ASSUME NEW f \in Seq(Names), NEW d \in Seq(Names), NEW q \in Seq(Names), IsPrefix(f, q)
  PROVE  Moved(Moved(q, f, d), d, f) = q
<1> DEFINE x == Moved(q, f, d)
           y == Moved(x, d, f)
<1>1. PICK k \in Nat, n \in Nat, m \in Nat : k = Len(f) /\ n = Len(q) /\ m = Len(d) /\ k <= n
  BY DEF IsPrefix
<1>2. /\ x \in Seq(Names) /\ Len(x) = m + n - k /\ IsPrefix(d, x)
      /\ \A i \in 1..(n - k) : x[m + i] = q[k + i]
  <2>1. /\ x \in Seq(Names) /\ Len(x) = Len(d) + Len(q) - Len(f) /\ IsPrefix(d, x)
        /\ \A i \in 1..(Len(q) - Len(f)) : x[Len(d) + i] = q[Len(f) + i]
    BY MovedPath
  <2> HIDE DEF x
  <2> QED
    BY <1>1, <2>1
<1> HIDE DEF x
<1>3. (m + n - k) - m = n - k /\ k + (m + n - k) - m = n
  BY <1>1
<1>4. /\ y \in Seq(Names) /\ Len(y) = k + Len(x) - m /\ IsPrefix(f, y)
      /\ \A i \in 1..(Len(x) - m) : y[k + i] = x[m + i]
  <2>1. /\ y \in Seq(Names) /\ Len(y) = Len(f) + Len(x) - Len(d) /\ IsPrefix(f, y)
        /\ \A i \in 1..(Len(x) - Len(d)) : y[Len(f) + i] = x[Len(d) + i]
    BY <1>2, MovedPath
  <2> HIDE DEF y
  <2> QED
    BY <1>1, <2>1
<1> HIDE DEF y
<1>5. Len(y) = n /\ \A i \in 1..(n - k) : y[k + i] = q[k + i]
  BY <1>2, <1>3, <1>4
<1>6. ASSUME NEW i \in 1..n PROVE y[i] = q[i]
  <2>1. CASE i <= k
    <3>1. i \in 1..k
      BY <1>1, <2>1
    <3> QED
      BY <1>1, <1>4, <3>1 DEF IsPrefix
  <2>2. CASE i > k
    <3>1. i - k \in 1..(n - k) /\ k + (i - k) = i
      BY <1>1, <2>2
    <3> QED
      BY <1>5, <3>1
  <2> QED
    BY <1>1, <2>1, <2>2
<1> QED
  BY <1>1, <1>4, <1>5, <1>6, SeqEqual DEF y, x

\* What is relocated: what lies below the one path, below the other.
LEMMA RelocatedThere ==
  ASSUME NEW t, IsTree(t), NEW f \in Seq(Names), NEW d \in Seq(Names)
  PROVE  /\ \A r : r \in DOMAIN Relocated(t, f, d)
                     <=> \E s \in Below(t, f) : r = Moved(s, f, d)
         /\ \A s \in Below(t, f) : Relocated(t, f, d)[Moved(s, f, d)] = t[s]
<1>1. DOMAIN Relocated(t, f, d) = {Moved(s, f, d) : s \in Below(t, f)}
  BY DEF Relocated, Moved
<1>2. \A r \in DOMAIN Relocated(t, f, d) : Relocated(t, f, d)[r] = t[Moved(r, d, f)]
  BY DEF Relocated, Moved
<1>3. \A s \in Below(t, f) : s \in Seq(Names) /\ IsPrefix(f, s)
  BY PathSeq DEF Below, IsTree
<1> QED
  BY <1>1, <1>2, <1>3, MovedBack

\* Moving leaves a tree a tree.
LEMMA RenameTree ==
  ASSUME NEW t, IsTree(t), NEW from \in Seq(Names) \ {Root}, NEW to \in Seq(Names) \ {Root}
  PROVE  IsTree(rename(t, from, to).tree)
<1> DEFINE R == Relocated(t, from, to)
           W == Without(t, from)
           u == Over(R, W)
           moves == /\ from \in DOMAIN t /\ Fits(t, to) /\ ~IsPrefix(from, to)
                    /\ \A s \in Below(t, from) : Len(s) - Len(from) + Len(to) <= MaxDepth
                    /\ Below(t, to) \ {to} = {}
<1>1. \/ rename(t, from, to).tree = t
      \/ moves /\ rename(t, from, to).tree = u
  <2>1. \A s \in Below(t, from) : Len(s) \in Nat
    BY PathSeq DEF Below, IsTree
  <2>2. MaxDepth \in Nat
    BY FileTreeAssumption
  <2>3. \A s \in Below(t, from) : ~(Len(s) - Len(from) + Len(to) > MaxDepth)
                                    => Len(s) - Len(from) + Len(to) <= MaxDepth
    BY <2>1, <2>2
  <2> QED
    BY <2>3, Zenon DEF rename, Done, Fails
<1>2. CASE moves /\ rename(t, from, to).tree = u
  <2>1. \A s \in DOMAIN t : s \in Seq(Names)
    BY PathSeq DEF IsTree
  <2>2. /\ \A r : r \in DOMAIN R <=> \E s \in Below(t, from) : r = Moved(s, from, to)
        /\ \A s \in Below(t, from) : R[Moved(s, from, to)] = t[s]
    BY RelocatedThere
  <2>3. /\ IsTree(W) /\ DOMAIN W = DOMAIN t \ Below(t, from)
        /\ \A q \in DOMAIN W : W[q] = t[q]
    BY WithoutTree DEF Without
  <2>4. /\ DOMAIN u = DOMAIN R \cup DOMAIN W
        /\ \A q \in DOMAIN R : u[q] = R[q]
        /\ \A q \in DOMAIN W \ DOMAIN R : u[q] = t[q]
    BY <2>3 DEF Over
  <2>5. \A s \in Below(t, from) :
          /\ s \in DOMAIN t /\ s \in Seq(Names) /\ IsPrefix(from, s)
          /\ Moved(s, from, to) \in Seq(Names) /\ IsPrefix(to, Moved(s, from, to))
          /\ Len(Moved(s, from, to)) = Len(to) + Len(s) - Len(from)
    <3>1. \A s \in Below(t, from) : s \in DOMAIN t /\ s \in Seq(Names) /\ IsPrefix(from, s)
      BY <2>1 DEF Below
    <3> QED
      BY <3>1, MovedPath
  <2>6. DOMAIN u \subseteq Paths
    <3>1. ASSUME NEW s \in Below(t, from) PROVE Moved(s, from, to) \in Paths
      <4>1. Len(s) \in Nat /\ Len(from) \in Nat /\ Len(to) \in Nat
        BY <2>5
      <4>2. Len(s) - Len(from) + Len(to) <= MaxDepth
        BY <1>2
      <4>3. Len(to) + Len(s) - Len(from) <= MaxDepth
        BY <4>1, <4>2, FileTreeAssumption
      <4> QED
        BY <2>5, <4>3, PathLen
    <3> HIDE DEF R, W, u
    <3> QED
      BY <2>2, <2>3, <2>4, <3>1 DEF IsTree
  <2>7. u \in [DOMAIN u -> Nodes]
    <3>1. \A q \in DOMAIN R : R[q] \in Nodes
      <4> HIDE DEF R
      <4> QED
        BY <2>2, <2>5 DEF IsTree
    <3>2. \A q \in DOMAIN W \ DOMAIN R : t[q] \in Nodes
      BY <2>3 DEF IsTree
    <3>3. u = [q \in DOMAIN u |-> u[q]]
      BY DEF Over
    <3> HIDE DEF u, R, W
    <3> QED
      BY <2>4, <3>1, <3>2, <3>3
  <2> HIDE DEF u, R, W
  <2>8. \A q \in DOMAIN R : q \in Seq(Names) /\ IsPrefix(to, q)
    BY <2>2, <2>5
  \* What stays is there if it is not where the moved things come.
  <2>9. ASSUME NEW q, is_directory(t, q), ~IsPrefix(from, q), q \notin DOMAIN R
        PROVE  is_directory(u, q)
    BY <2>3, <2>4, <2>9, DirectoryIff DEF Below
  <2>10. is_directory(u, Root)
    <3>1. ~IsPrefix(from, Root) /\ ~IsPrefix(to, Root)
      <4>1. Len(from) # 0 /\ Len(to) # 0
        BY EmptySeq DEF Root
      <4> QED
        BY <4>1 DEF IsPrefix, Root
    <3> QED
      BY <2>8, <2>9, <3>1 DEF IsTree
  <2>11. ASSUME NEW p \in DOMAIN R PROVE is_directory(u, Parent(p))
    <3>1. PICK s \in Below(t, from) : p = Moved(s, from, to)
      BY <2>2
    <3>2. CASE s = from
      <4>1. p = to
        BY <3>1, <3>2 DEF Moved
      <4>2. is_directory(t, Parent(to))
        BY <1>2 DEF Fits
      <4>3. /\ Parent(to) \in Seq(Names) /\ IsPrefix(Parent(to), to)
            /\ Len(Parent(to)) = Len(to) - 1 /\ Len(to) \in Nat
        BY ParentName
      <4>4. ~IsPrefix(from, Parent(to))
        BY <1>2, <4>3, PrefixOrder
      <4>5. ~IsPrefix(to, Parent(to))
        BY <4>3 DEF IsPrefix
      <4> QED
        BY <2>8, <2>9, <4>1, <4>2, <4>4, <4>5
    <3>3. CASE s # from
      <4>1. /\ s \in DOMAIN t /\ s \in Seq(Names) /\ IsPrefix(from, s) /\ s # Root
        <5>1. Len(from) # 0 /\ Len(from) \in Nat
          BY EmptySeq DEF Root
        <5>2. ~IsPrefix(from, Root)
          BY <5>1 DEF IsPrefix, Root
        <5> QED
          BY <2>5, <5>2
      <4>2. is_directory(t, Parent(s)) /\ Parent(s) \in Seq(Names) /\ IsPrefix(from, Parent(s))
        BY <3>3, <4>1, ParentName, PrefixParent DEF IsTree
      <4>3. Parent(s) \in Below(t, from)
        BY <4>2, DirectoryIff DEF Below
      <4>4. p = Append(Moved(Parent(s), from, to), Name(s))
        <5> DEFINE h == Parent(s)
                   n == Name(s)
        <5>1. s = Append(h, n) /\ n \in Names
          BY <4>1, ParentName
        <5>2. h \in Seq(Names) /\ IsPrefix(from, h)
          BY <4>2
        <5> HIDE DEF h, n
        <5>3. Moved(Append(h, n), from, to) = Append(Moved(h, from, to), n)
          BY <5>1, <5>2, MovedEntry
        <5> QED
          BY <3>1, <5>1, <5>3 DEF h, n
      <4>5. Parent(p) = Moved(Parent(s), from, to)
        BY <2>5, <4>1, <4>3, <4>4, ParentAppend, ParentName
      <4> QED
        BY <2>2, <2>4, <4>2, <4>3, <4>5, DirectoryIff
    <3> QED
      BY <3>2, <3>3
  <2>12. ASSUME NEW p \in DOMAIN W \ DOMAIN R, p # Root PROVE is_directory(u, Parent(p))
    <3>1. p \in DOMAIN t /\ p \in Seq(Names) /\ ~IsPrefix(from, p) /\ is_directory(t, Parent(p))
      BY <2>1, <2>3, <2>12 DEF IsTree, Below
    <3>2. Parent(p) \in Seq(Names) /\ IsPrefix(Parent(p), p) /\ Parent(p) # p
      <4>1. Len(Parent(p)) = Len(p) - 1 /\ Len(p) \in Nat
        BY <2>12, <3>1, ParentName
      <4> QED
        BY <2>12, <3>1, <4>1, ParentName
    <3>3. ~IsPrefix(from, Parent(p))
      BY <3>1, <3>2, PrefixOrder
    <3>4. Parent(p) \notin DOMAIN R
      <4> SUFFICES ASSUME Parent(p) \in DOMAIN R PROVE FALSE
        OBVIOUS
      <4>1. IsPrefix(to, Parent(p)) /\ IsPrefix(to, p)
        BY <2>8, <3>1, <3>2, PrefixOrder
      <4>2. p \in Below(t, to) /\ Parent(p) \in Below(t, to)
        BY <3>1, <4>1, DirectoryIff DEF Below
      <4> QED
        BY <1>2, <3>2, <4>2
    <3> QED
      BY <2>9, <3>1, <3>3, <3>4
  <2> QED
    BY <1>2, <2>4, <2>6, <2>7, <2>10, <2>11, <2>12 DEF IsTree
<1> HIDE DEF u
<1> QED
  BY <1>1, <1>2

\* What a call works on is not the root, which it could neither replace nor remove.
LEMMA BoundPaths ==
  ASSUME NEW c, Bound(c)
  PROVE  /\ c.arg[1] \in Seq(Names) \ {Root} /\ c.arg[2] \in Seq(Names) \ {Root}
         /\ c.from \in Seq(Names) \ {Root} /\ c.to \in Seq(Names) \ {Root}
<1>1. c.arg[1] \in Seq(Names) \ {Root} /\ c.arg[2] \in Seq(Names) \ {Root}
  BY PathSeq DEF Bound
<1>2. c.from \in Seq(Names) \ {Root} /\ c.to \in Seq(Names) /\ IsPrefix(c.arg[2], c.to)
  BY DEF Bound
<1>3. c.to # Root
  <2>1. Len(c.arg[2]) # 0 /\ Len(c.arg[2]) \in Nat
    BY <1>1, EmptySeq DEF Root
  <2>2. Len(c.arg[2]) <= Len(c.to)
    BY <1>2 DEF IsPrefix
  <2> QED
    BY <1>1, <2>1, <2>2 DEF Root
<1> QED
  BY <1>1, <1>2, <1>3

\* Every step of a call leaves a tree.
LEMMA StepTree ==
  ASSUME IInv, IsTree(tree), NEW th \in Threads, Step(th)
  PROVE  IsTree(tree')
<1> DEFINE c == call[th]
<1>1. CASE Look(th)
  BY <1>1, LookThere
<1>2. CASE Act(th)
  <2>1. c.pc = "act" /\ Working(c) /\ Bound(c)
    BY <1>2 DEF Act, IInv, Sound, Working
  <2>2. /\ c.from \in Seq(Names) \ {Root} /\ c.to \in Seq(Names) \ {Root}
        /\ c.content \in Contents /\ c.op \in Operations \ {"exists"}
    BY <2>1, BoundPaths DEF Bound
  <2>3. ASSUME NEW o, Return(th, o), IsTree(o.tree) PROVE IsTree(tree')
    BY <2>3 DEF Return, Meanwhile
  <2> HIDE DEF c
  <2>4. CASE c.op \in {"removeFile", "removeDirectory"}
    BY <1>2, <2>2, <2>3, <2>4, RemoveTree DEF Act, c
  <2>5. CASE c.op = "createDirectory"
    BY <1>2, <2>2, <2>3, <2>5, CreateTree DEF Act, c
  <2>6. CASE c.op = "createDirectories"
    <3>1. c.from \in Paths \ {Root}
      BY <2>1, <2>6 DEF Bound, Binary
    <3> QED
      BY <1>2, <2>3, <2>6, <3>1, CreateAllTree DEF Act, c
  <2>7. CASE c.op = "writeFile"
    BY <1>2, <2>2, <2>3, <2>7, StoreTree DEF Act, c
  <2>8. CASE c.op = "move"
    BY <1>2, <2>2, <2>3, <2>8, RenameTree DEF Act, c
  <2>9. CASE c.op = "copyFile"
    BY <1>2, <2>2, <2>3, <2>9, CopyFileTree DEF Act, c
  <2>10. CASE c.op = "copyDirectory"
    <3>1. tree' \in {tree, create_directory(tree, c.to).tree}
      BY <1>2, <2>10 DEF Act, c, Return, Meanwhile, Fails
    <3> QED
      BY <2>2, <3>1, CreateTree
  <2> QED
    BY <2>2, <2>4, <2>5, <2>6, <2>7, <2>8, <2>9, <2>10 DEF Operations
<1>3. CASE Copy(th) \/ CopyEntry(th)
  BY <1>3 DEF Copy, CopyEntry, Return, Continue, Meanwhile, Done
<1>4. CASE CopyFile(th)
  <2>1. c.pc = "file" /\ Working(c) /\ Bound(c)
    BY <1>4 DEF CopyFile, IInv, Sound, Working
  <2>2. c.to \in Seq(Names) \ {Root}
    BY <2>1, BoundPaths
  <2>3. tree' = copy(tree, c.from, c.to).tree
    BY <1>4 DEF CopyFile, Return, Meanwhile
  <2> HIDE DEF c
  <2> QED
    BY <2>2, <2>3, CopyTree
<1> QED
  BY <1>1, <1>2, <1>3, <1>4 DEF Step

\* Whatever the threads do there is a tree, in which everything but the root is in a
\* directory (fs_manager.cpp 91-224).
THEOREM TreeAlways == Spec => []IsTree(tree)
<1>1. Init => IsTree(tree)
  BY FileTreeAssumption DEF Init
<1>2. IInv /\ IsTree(tree) /\ [Next]_vars => IsTree(tree')
  <2> SUFFICES ASSUME IInv, IsTree(tree), [Next]_vars PROVE IsTree(tree')
    OBVIOUS
  <2>1. ASSUME NEW th \in Threads, Begin(th) PROVE IsTree(tree')
    BY <2>1 DEF Begin
  <2>2. CASE UNCHANGED vars
    BY <2>2 DEF vars
  <2> QED
    BY <2>1, <2>2, StepTree DEF Next
<1>3. IsTree(tree)' <=> IsTree(tree')
  BY DEF IsTree, is_directory, Type
<1> QED
  BY <1>1, <1>2, <1>3, Invariance, PTL DEF Spec

-----------------------------------------------------------------------------
(* A call that nobody interferes with, before it changes anything.          *)

\* A path, and n times a name behind it.
Deep(p, x, n) == p \o [i \in 1..n |-> x]

\* Where the call puts things.
Dest(c) == Lands(c.before, c.op, c.arg[1], c.arg[2])

\* The tree is that which the call found; its path was admitted, and its destination
\* leads where it should.
StartInv(c, t) ==
  /\ t = c.before /\ c.from = c.arg[1] /\ c.op # "exists"
  /\ Type(t, c.from) \in Admitted(c.op)
  /\ c.op = "move" =>
       \E n \in Nat :
         /\ c.to = Deep(c.arg[2], Name(c.from), n)
         /\ \A i \in 0..(n - 1) : is_directory(t, Deep(c.arg[2], Name(c.from), i))
         /\ c.pc = "act" => ~is_directory(t, c.to)
  /\ c.op \in {"copyFile", "copyDirectory"} =>
       c.to = IF c.pc = "look" THEN c.arg[2] ELSE Dest(c)

\* One more of the name, and how long that is.
LEMMA DeepNext ==
  ASSUME NEW p \in Seq(Names), NEW x \in Names, NEW n \in Nat
  PROVE  /\ Deep(p, x, 0) = p /\ Deep(p, x, 1) = Append(p, x)
         /\ Deep(p, x, n + 1) = Append(Deep(p, x, n), x)
         /\ Deep(p, x, n) \in Seq(Names) /\ Len(Deep(p, x, n)) = Len(p) + n
<1>1. ASSUME NEW m \in Nat
      PROVE  [i \in 1..m |-> x] \in Seq(Names) /\ Len([i \in 1..m |-> x]) = m
  BY IsASeq
<1>2. Deep(p, x, 0) = p
  <2>1. [i \in 1..0 |-> x] = <<>>
    BY <1>1, EmptySeq
  <2> QED
    BY <2>1, ConcatEmptySeq DEF Deep
<1>3. ASSUME NEW m \in Nat PROVE Deep(p, x, m + 1) = Append(Deep(p, x, m), x)
  <2> DEFINE a == [i \in 1..m |-> x]
             b == [i \in 1..(m + 1) |-> x]
  <2>1. a \in Seq(Names) /\ Len(a) = m
    BY <1>1
  <2>2. b \in Seq(Names) /\ Len(b) = m + 1
    BY <1>1
  <2>3. Append(a, x) \in Seq(Names) /\ Len(Append(a, x)) = m + 1
    BY <2>1, AppendProperties
  <2>4. \A i \in 1..(m + 1) : b[i] = x
    OBVIOUS
  <2>5. \A i \in 1..m : a[i] = x
    OBVIOUS
  <2> HIDE DEF a, b
  <2>6. \A i \in 1..(m + 1) : Append(a, x)[i] = x
    BY <2>1, <2>5
  <2>7. b = Append(a, x)
    BY <2>2, <2>3, <2>4, <2>6, SeqEqual
  <2>8. p \o Append(a, x) = Append(p \o a, x)
    BY <2>1
  <2> QED
    BY <2>7, <2>8 DEF Deep, a, b
<1>4. Deep(p, x, 1) = Append(p, x)
  <2>1. Deep(p, x, 0 + 1) = Append(Deep(p, x, 0), x)
    BY <1>3
  <2> QED
    BY <1>2, <2>1
<1>5. Deep(p, x, n) \in Seq(Names) /\ Len(Deep(p, x, n)) = Len(p) + n
  BY <1>1, ConcatProperties DEF Deep
<1> QED
  BY <1>2, <1>3, <1>4, <1>5

\* Where move leads: to the first of these paths that is no directory.
LEMMA LandsMove ==
  ASSUME NEW t, IsTree(t), NEW from \in Seq(Names) \ {Root}, NEW to \in Seq(Names) \ {Root},
         NEW n \in Nat, ~is_directory(t, Deep(to, Name(from), n)),
         \A i \in 0..(n - 1) : is_directory(t, Deep(to, Name(from), i))
  PROVE  Lands(t, "move", from, to) = Deep(to, Name(from), n)
<1> DEFINE Down(m) == Deep(to, Name(from), m)
           Into(m) == ~is_directory(t, Down(m)) /\ \A i \in 0..(m - 1) : is_directory(t, Down(i))
<1>1. MaxDepth \in Nat /\ Name(from) \in Names
  BY FileTreeAssumption, ParentName
<1>2. n \in 0..(MaxDepth + 1)
  <2>1. CASE n = 0
    BY <1>1, <2>1
  <2>2. CASE n # 0
    <3>1. n - 1 \in Nat /\ is_directory(t, Down(n - 1))
      BY <2>2
    <3>2. Down(n - 1) \in Paths
      BY <3>1, DirectoryThere DEF IsTree
    <3>3. Len(Down(n - 1)) = Len(to) + (n - 1)
      BY <1>1, <3>1, DeepNext
    <3>4. Len(to) + (n - 1) <= MaxDepth
      BY <3>2, <3>3, PathLen
    <3>5. Len(to) \in Nat
      OBVIOUS
    <3> QED
      BY <1>1, <3>1, <3>4, <3>5
  <2> QED
    BY <2>1, <2>2
<1>3. Into(n)
  OBVIOUS
<1>4. ASSUME NEW m \in Nat, Into(m) PROVE m = n
  <2>1. ~(m < n) /\ ~(n < m)
    BY <1>3, <1>4
  <2> QED
    BY <2>1
<1>5. \A m \in 0..(MaxDepth + 1) : Into(m) => m = n
  BY <1>1, <1>4
<1>6. Lands(t, "move", from, to) = Down(CHOOSE m \in 0..(MaxDepth + 1) : Into(m))
  BY DEF Lands, Deep
<1> HIDE DEF Down, Into
<1>7. (CHOOSE m \in 0..(MaxDepth + 1) : Into(m)) = n
  BY <1>2, <1>3, <1>5
<1> QED
  BY <1>6, <1>7 DEF Down

-----------------------------------------------------------------------------
(* A copy of the directory f to d that nobody interferes with.  s is the    *)
(* stack of the directories whose entries are being copied, with those that *)
(* were seen; a are the directories that are copied but not to the end; b   *)
(* is the tree the copy found.                                              *)

Levels == [from : Seq(Names), to : Seq(Names), seen : SUBSET Names]

Froms(s) == {s[k].from : k \in 1..Len(s)}

\* q lies below an entry that was dealt with.
Closed(s, a, q) ==
  \E k \in 1..Len(s) : \E m \in s[k].seen :
    Append(s[k].from, m) \notin a /\ IsPrefix(Append(s[k].from, m), q)

Past(s, a, q) == q \in Froms(s) \/ Closed(s, a, q)

\* Each directory of the stack is an entry that was seen of the one before.
Stack(s, f, d, t) ==
  /\ s \in Seq(Levels) /\ s # <<>> /\ s[1].from = f
  /\ \A k \in 1..Len(s) :
       /\ Len(s[k].from) = Len(f) + k - 1
       /\ s[k].to = Moved(s[k].from, f, d)
       /\ is_directory(t, s[k].from) /\ is_directory(t, s[k].to)
  /\ \A j \in 1..Len(s) : \A k \in 1..j : IsPrefix(s[k].from, s[j].from)
  /\ \A k \in 1..(Len(s) - 1) : \E m \in s[k].seen : s[k + 1].from = Append(s[k].from, m)

\* What was found is there, and what was not is the copy of what was dealt with.
Frame(b, f, d, s, a, t) ==
  /\ d \notin DOMAIN b /\ is_directory(b, f)
  /\ \A p \in DOMAIN b : p \in DOMAIN t /\ t[p] = b[p]
  /\ \A p \in DOMAIN t \ DOMAIN b :
       /\ IsPrefix(d, p)
       /\ \E q \in DOMAIN t : /\ Past(s, a, q) /\ t[q] # "symlink_file"
                              /\ p = Moved(q, f, d) /\ t[p] = t[q]

\* What was dealt with is copied.  In a copy of a directory into itself no directory that
\* was dealt with has its own copy in it: the copy never comes to an end.
Complete(f, d, s, a, t) ==
  IF IsPrefix(f, d)
  THEN \A q \in DOMAIN t : is_directory(t, q) /\ Closed(s, a, q) => ~IsPrefix(q, Moved(q, f, d))
  ELSE \A q \in DOMAIN t : Closed(s, a, q) /\ t[q] # "symlink_file" => Moved(q, f, d) \in DOMAIN t

Copying(b, f, d, s, a, t) ==
  Stack(s, f, d, t) /\ Frame(b, f, d, s, a, t) /\ Complete(f, d, s, a, t)

\* What the stack says of its directories, and of the entries of them.
LEMMA StackLevel ==
  ASSUME NEW f \in Seq(Names), NEW d, NEW t, NEW s, Stack(s, f, d, t)
  PROVE  /\ Len(s) \in Nat \ {0} /\ Len(s) \in 1..Len(s)
         /\ \A k \in 1..Len(s) :
              /\ k \in Nat /\ s[k] \in Levels
              /\ s[k].from \in Seq(Names) /\ s[k].seen \subseteq Names
              /\ IsPrefix(f, s[k].from) /\ s[k].to = Moved(s[k].from, f, d)
              /\ Len(s[k].from) = Len(f) + k - 1
              /\ is_directory(t, s[k].from) /\ is_directory(t, s[k].to)
              /\ s[k].from \in Froms(s)
<1>1. s \in Seq(Levels) /\ s # <<>>
  BY DEF Stack
<1>2. Len(s) \in Nat \ {0}
  BY <1>1, EmptySeq
<1>3. Len(s) \in 1..Len(s)
  BY <1>2
<1>4. ASSUME NEW k \in 1..Len(s)
      PROVE  /\ k \in Nat /\ s[k] \in Levels
             /\ s[k].from \in Seq(Names) /\ s[k].seen \subseteq Names
             /\ IsPrefix(f, s[k].from) /\ s[k].to = Moved(s[k].from, f, d)
             /\ Len(s[k].from) = Len(f) + k - 1
             /\ is_directory(t, s[k].from) /\ is_directory(t, s[k].to)
             /\ s[k].from \in Froms(s)
  <2>1. k \in Nat /\ 1 \in 1..k
    BY <1>2
  <2>2. s[k] \in Levels
    BY <1>1
  <2>3. s[k].from \in Seq(Names) /\ s[k].seen \subseteq Names
    BY <2>2 DEF Levels
  <2>4. IsPrefix(f, s[k].from)
    BY <2>1 DEF Stack
  <2> QED
    BY <2>1, <2>2, <2>3, <2>4 DEF Stack, Froms
<1> QED
  BY <1>2, <1>3, <1>4

\* An entry of a directory of the stack lies below it, one level deeper.
LEMMA StackEntry ==
  ASSUME NEW f \in Seq(Names), NEW d, NEW t, NEW s, Stack(s, f, d, t)
  PROVE  \A k \in 1..Len(s) : \A m \in Names :
           /\ Append(s[k].from, m) \in Seq(Names) \ {Root}
           /\ Len(Append(s[k].from, m)) = Len(f) + k
           /\ IsPrefix(s[k].from, Append(s[k].from, m)) /\ IsPrefix(f, Append(s[k].from, m))
           /\ Parent(Append(s[k].from, m)) = s[k].from /\ Name(Append(s[k].from, m)) = m
           /\ \A j \in 1..Len(s) : Append(s[k].from, m) = s[j].from => j = k + 1
<1>0. \A k \in 1..Len(s) : /\ k \in Nat /\ s[k].from \in Seq(Names) /\ IsPrefix(f, s[k].from)
                           /\ Len(s[k].from) = Len(f) + k - 1
  BY StackLevel
<1>3. PICK l \in Nat : l = Len(f)
  OBVIOUS
<1> SUFFICES ASSUME NEW k \in 1..Len(s), NEW m \in Names
             PROVE  LET e == Append(s[k].from, m) IN
                    /\ e \in Seq(Names) \ {Root} /\ Len(e) = Len(f) + k
                    /\ IsPrefix(s[k].from, e) /\ IsPrefix(f, e)
                    /\ Parent(e) = s[k].from /\ Name(e) = m
                    /\ \A j \in 1..Len(s) : e = s[j].from => j = k + 1
  OBVIOUS
<1> DEFINE e == Append(s[k].from, m)
<1>1. PICK g \in Seq(Names) : g = s[k].from /\ IsPrefix(f, g) /\ Len(g) = l + k - 1
  BY <1>0, <1>3
<1>2. /\ e \in Seq(Names) \ {Root} /\ Len(e) = Len(g) + 1
      /\ Parent(e) = g /\ Name(e) = m /\ IsPrefix(g, e)
  BY <1>1, ParentAppend
<1> HIDE DEF e
<1>4. k \in Nat /\ Len(e) = l + k
  BY <1>0, <1>1, <1>2
<1>5. IsPrefix(f, e)
  <2>1. IsPrefix(f, g) /\ IsPrefix(g, e) /\ e \in Seq(Names)
    BY <1>1, <1>2
  <2> QED
    BY <2>1, PrefixOrder
<1>6. ASSUME NEW j \in 1..Len(s), e = s[j].from PROVE j = k + 1
  <2>1. j \in Nat /\ Len(e) = l + j - 1
    BY <1>0, <1>3, <1>6
  <2> QED
    BY <1>4, <2>1
<1> QED
  BY <1>1, <1>2, <1>3, <1>4, <1>5, <1>6 DEF e

\* What was dealt with lies below f.
LEMMA PastBelow ==
  ASSUME NEW f \in Seq(Names), NEW d, NEW t, NEW s, Stack(s, f, d, t), NEW a,
         NEW q \in Seq(Names), Past(s, a, q)
  PROVE  IsPrefix(f, q)
<1>1. CASE q \in Froms(s)
  <2>1. \A k \in 1..Len(s) : IsPrefix(f, s[k].from)
    BY StackLevel
  <2> QED
    BY <1>1, <2>1 DEF Froms
<1>2. CASE Closed(s, a, q)
  <2>1. PICK k \in 1..Len(s) : \E m \in s[k].seen : IsPrefix(Append(s[k].from, m), q)
    BY <1>2 DEF Closed
  <2>2. PICK m \in s[k].seen : IsPrefix(Append(s[k].from, m), q)
    BY <2>1
  <2>3. m \in Names
    BY StackLevel
  <2>4. Append(s[k].from, m) \in Seq(Names) /\ IsPrefix(f, Append(s[k].from, m))
    BY <2>3, StackEntry
  <2> QED
    BY <2>2, <2>4, PrefixOrder
<1> QED
  BY <1>1, <1>2 DEF Past

\* An entry of the last directory was not dealt with, if it was not seen or is being
\* copied, nor was what lies below it.
LEMMA NotPast ==
  ASSUME NEW f \in Seq(Names), NEW d, NEW t, NEW s, Stack(s, f, d, t),
         NEW a, Froms(s) \subseteq a, NEW n, n = Len(s),
         NEW m \in Names, m \notin s[n].seen \/ Append(s[n].from, m) \in a,
         NEW q \in Seq(Names), IsPrefix(Append(s[n].from, m), q)
  PROVE  ~Closed(s, a, q) /\ Append(s[n].from, m) \notin Froms(s)
<1> DEFINE x == Append(s[n].from, m)
<1>1. n \in Nat \ {0} /\ n \in 1..n
  <2>1. Len(s) \in Nat \ {0}
    BY EmptySeq DEF Stack
  <2> QED
    BY <2>1
<1>2. x \in Seq(Names) /\ Len(x) = Len(f) + n /\ IsPrefix(s[n].from, x) /\ Name(x) = m
  BY <1>1, StackEntry
<1>3. x \notin Froms(s)
  <2> SUFFICES ASSUME NEW j \in 1..Len(s), x = s[j].from PROVE FALSE
    BY DEF Froms
  <2>1. j \in Nat /\ j <= n /\ Len(s[j].from) = Len(f) + j - 1
    BY StackLevel
  <2> QED
    BY <1>1, <1>2, <2>1
<1>4. ~Closed(s, a, q)
  <2> HIDE DEF x
  <2> SUFFICES ASSUME NEW k \in 1..n, NEW i \in s[k].seen, Append(s[k].from, i) \notin a,
                      IsPrefix(Append(s[k].from, i), q)
               PROVE  FALSE
    BY DEF Closed
  <2> DEFINE e == Append(s[k].from, i)
  <2>1. i \in Names
    BY StackLevel
  <2>2. e \in Seq(Names) /\ Len(e) = Len(f) + k /\ Name(e) = i /\ k \in Nat
    BY <2>1, StackEntry
  <2>7. IsPrefix(e, q) /\ IsPrefix(x, q)
    BY DEF x
  <2> HIDE DEF e
  <2>3. Len(e) <= Len(x)
    BY <1>1, <1>2, <2>2
  <2>4. IsPrefix(e, x)
    BY <1>2, <2>2, <2>3, <2>7, PrefixChain
  <2>5. CASE k = n
    <3>1. e = x
      <4>1. Len(x) <= Len(e)
        BY <1>2, <2>2, <2>5
      <4> QED
        BY <1>2, <2>2, <2>4, <4>1, PrefixSame
    <3>2. i = m
      BY <1>2, <2>2, <3>1
    <3> QED
      BY <2>5, <3>1, <3>2 DEF e, x
  <2>6. CASE k # n
    <3> DEFINE g == s[k + 1].from
    <3>1. k + 1 \in 1..n /\ k \in 1..(n - 1) /\ (k + 1) - 1 = k
      BY <1>1, <2>2, <2>6
    <3>2. g \in Seq(Names) /\ g \in a /\ IsPrefix(g, s[n].from) /\ Len(g) = Len(f) + (k + 1) - 1
      <4>1. /\ g \in Seq(Names) /\ g \in Froms(s) /\ Len(g) = Len(f) + (k + 1) - 1
        <5>1. \A j \in 1..n : /\ s[j].from \in Seq(Names) /\ s[j].from \in Froms(s)
                              /\ Len(s[j].from) = Len(f) + j - 1
          BY StackLevel
        <5> QED
          BY <3>1, <5>1
      <4>2. IsPrefix(g, s[n].from)
        BY <1>1, <3>1 DEF Stack
      <4> QED
        BY <4>1, <4>2
    <3>3. s[n].from \in Seq(Names)
      BY <1>1, StackLevel
    <3> HIDE DEF g
    <3>4. IsPrefix(g, x)
      BY <1>2, <3>2, <3>3, PrefixOrder
    <3>5. Len(g) = Len(e)
      BY <2>2, <3>2
    <3>6. e = g
      <4>1. IsPrefix(e, g)
        BY <1>2, <2>2, <2>4, <3>2, <3>4, <3>5, PrefixChain
      <4> QED
        BY <2>2, <3>2, <3>5, <4>1, PrefixSame
    <3> QED
      BY <3>2, <3>6 DEF e
  <2> QED
    BY <2>5, <2>6
<1> QED
  BY <1>3, <1>4

\* What lies below both f and d is not found, or d lies below f.
LEMMA Apart ==
  ASSUME NEW b, IsTree(b), NEW f \in Seq(Names), NEW d \in Seq(Names),
         d \notin DOMAIN b, is_directory(b, f)
  PROVE  /\ \A p \in Seq(Names) : IsPrefix(d, p) => p \notin DOMAIN b
         /\ d # f
         /\ ~IsPrefix(f, d) => \A p \in Seq(Names) : ~(IsPrefix(f, p) /\ IsPrefix(d, p))
<1>1. f \in DOMAIN b
  BY DirectoryThere
<1>2. ~IsPrefix(d, f)
  BY <1>1, TreeAncestors
<1>3. \A p \in Seq(Names) : IsPrefix(d, p) => p \notin DOMAIN b
  BY TreeAncestors
<1>4. ASSUME ~IsPrefix(f, d), NEW p \in Seq(Names), IsPrefix(f, p), IsPrefix(d, p)
      PROVE  FALSE
  <2>1. Len(f) <= Len(d) \/ Len(d) <= Len(f)
    OBVIOUS
  <2> QED
    BY <1>2, <1>4, <2>1, PrefixChain
<1> QED
  BY <1>1, <1>3, <1>4

\* The stack when an entry of the last directory was seen.
See(s, n) == [s EXCEPT ![Len(s)].seen = @ \cup {n}]

\* The entry n of the last directory of the stack.
Entry(s, n) == Append(Last(s).from, n)

\* The last directory of the stack, and an entry of it.
LEMMA StackLast ==
  ASSUME NEW f \in Seq(Names), NEW d, NEW t, NEW s, Stack(s, f, d, t), NEW n \in Names
  PROVE  /\ Last(s) = s[Len(s)] /\ Len(s) \in Nat \ {0} /\ Len(s) \in 1..Len(s)
         /\ Last(s).from \in Seq(Names) /\ Last(s).seen \subseteq Names
         /\ IsPrefix(f, Last(s).from) /\ Last(s).to = Moved(Last(s).from, f, d)
         /\ Len(Last(s).from) = Len(f) + Len(s) - 1
         /\ is_directory(t, Last(s).from) /\ is_directory(t, Last(s).to)
         /\ Last(s).from \in Froms(s)
         /\ Entry(s, n) \in Seq(Names) \ {Root}
         /\ Len(Entry(s, n)) = Len(f) + Len(s)
         /\ IsPrefix(Last(s).from, Entry(s, n))
         /\ IsPrefix(f, Entry(s, n))
         /\ Parent(Entry(s, n)) = Last(s).from /\ Name(Entry(s, n)) = n
         /\ Entry(s, n) \notin Froms(s)
<1>1. Last(s) = s[Len(s)]
  BY DEF Last
<1>2. Len(s) \in 1..Len(s) /\ Len(s) \in Nat \ {0}
  BY StackLevel
<1>3. LET k == Len(s) IN
         /\ s[k].from \in Seq(Names) /\ s[k].seen \subseteq Names
         /\ IsPrefix(f, s[k].from) /\ s[k].to = Moved(s[k].from, f, d)
         /\ Len(s[k].from) = Len(f) + k - 1
         /\ is_directory(t, s[k].from) /\ is_directory(t, s[k].to)
         /\ s[k].from \in Froms(s)
  BY <1>2, StackLevel
<1>4. LET k == Len(s) IN
           /\ Append(s[k].from, n) \in Seq(Names) \ {Root}
           /\ Len(Append(s[k].from, n)) = Len(f) + k
           /\ IsPrefix(s[k].from, Append(s[k].from, n)) /\ IsPrefix(f, Append(s[k].from, n))
           /\ Parent(Append(s[k].from, n)) = s[k].from /\ Name(Append(s[k].from, n)) = n
  BY <1>2, StackEntry
<1>5. Append(Last(s).from, n) \notin Froms(s)
  <2> DEFINE e == Append(s[Len(s)].from, n)
  <2>1. PICK k \in Nat, l \in Nat : k = Len(s) /\ l = Len(f)
    BY <1>2
  <2>2. Len(e) = l + k
    BY <1>4, <2>1
  <2>3. \A j \in 1..Len(s) : j \in Nat /\ Len(s[j].from) = Len(f) + j - 1
    BY StackLevel
  <2> HIDE DEF e
  <2>4. \A j \in 1..Len(s) : e # s[j].from
    BY <2>1, <2>2, <2>3
  <2> QED
    BY <1>1, <2>4 DEF Froms, e
<1> QED
  BY <1>1, <1>2, <1>3, <1>4, <1>5, Zenon DEF Entry

\* What seeing an entry makes of the stack, and of what was dealt with.
LEMMA SeeStack ==
  ASSUME NEW f \in Seq(Names), NEW d, NEW t, NEW s, Stack(s, f, d, t), NEW n \in Names
  PROVE  /\ Stack(See(s, n), f, d, t) /\ Froms(See(s, n)) = Froms(s)
         /\ Last(See(s, n)).from = Last(s).from /\ n \in Last(See(s, n)).seen
         /\ \A a, q : Closed(See(s, n), a, q)
              <=> \/ Closed(s, a, q)
                  \/ /\ Entry(s, n) \notin a
                     /\ IsPrefix(Entry(s, n), q)
<1> DEFINE r == See(s, n)
<1>0. PICK h \in Nat \ {0} : h = Len(s)
  BY StackLevel
<1>1. s \in Seq(Levels) /\ s # <<>> /\ h \in 1..h /\ s[h] \in Levels
  BY <1>0 DEF Stack
<1>2. [s[h] EXCEPT !.seen = @ \cup {n}] \in Levels
  BY <1>1 DEF Levels
<1>3. r = [s EXCEPT ![h] = [s[h] EXCEPT !.seen = @ \cup {n}]]
  BY <1>0 DEF See
<1>4. r \in Seq(Levels) /\ Len(r) = h /\ \A k \in 1..h : k # h => r[k] = s[k]
  BY <1>0, <1>1, <1>2, <1>3
<1>5. r[h].from = s[h].from /\ r[h].to = s[h].to /\ r[h].seen = s[h].seen \cup {n}
  <2> DEFINE v == [s[h] EXCEPT !.seen = @ \cup {n}]
  <2>1. r[h] = v
    <3>1. r = [s EXCEPT ![h] = v]
      BY <1>3
    <3> HIDE DEF v
    <3>2. h \in DOMAIN s
      BY <1>0, <1>1
    <3> QED
      BY <3>1, <3>2
  <2>2. v.from = s[h].from /\ v.to = s[h].to /\ v.seen = s[h].seen \cup {n}
    BY <1>1 DEF Levels
  <2> HIDE DEF v
  <2> QED
    BY <2>1, <2>2
<1> HIDE DEF r
<1>6. \A k \in 1..h : /\ r[k].from = s[k].from /\ r[k].to = s[k].to
                      /\ \A m : m \in r[k].seen <=> m \in s[k].seen \/ (k = h /\ m = n)
  BY <1>4, <1>5
<1>7. Froms(r) = Froms(s)
  BY <1>0, <1>4, <1>6 DEF Froms
<1>8. Stack(r, f, d, t)
  <2>1. /\ s[1].from = f
        /\ \A k \in 1..h :
             /\ Len(s[k].from) = Len(f) + k - 1
             /\ s[k].to = Moved(s[k].from, f, d)
             /\ is_directory(t, s[k].from) /\ is_directory(t, s[k].to)
        /\ \A j \in 1..h : \A k \in 1..j : IsPrefix(s[k].from, s[j].from)
        /\ \A k \in 1..(h - 1) : \E m \in s[k].seen : s[k + 1].from = Append(s[k].from, m)
    BY <1>0 DEF Stack
  <2>2. r # <<>> /\ r[1].from = f
    <3>1. 1 \in 1..h
      BY <1>0
    <3> QED
      BY <1>0, <1>4, <1>6, <2>1, <3>1, EmptySeq
  <2>3. \A j \in 1..h : \A k \in 1..j : IsPrefix(r[k].from, r[j].from)
    BY <1>6, <2>1
  <2>4. ASSUME NEW k \in 1..(h - 1)
        PROVE  \E m \in r[k].seen : r[k + 1].from = Append(r[k].from, m)
    <3>1. k \in 1..h /\ k + 1 \in 1..h
      OBVIOUS
    <3> QED
      BY <1>6, <2>1, <3>1
  <2>5. \A k \in 1..h :
             /\ Len(r[k].from) = Len(f) + k - 1
             /\ r[k].to = Moved(r[k].from, f, d)
             /\ is_directory(t, r[k].from) /\ is_directory(t, r[k].to)
    BY <1>6, <2>1
  <2> QED
    BY <1>4, <2>2, <2>3, <2>4, <2>5 DEF Stack
<1>9. Last(r).from = s[h].from /\ n \in Last(r).seen /\ Last(s).from = s[h].from
  BY <1>0, <1>4, <1>5 DEF Last
<1>10. ASSUME NEW a, NEW q
       PROVE  Closed(r, a, q) <=> \/ Closed(s, a, q)
                                  \/ /\ Append(s[h].from, n) \notin a
                                     /\ IsPrefix(Append(s[h].from, n), q)
  <2>1. ASSUME Closed(r, a, q)
        PROVE  \/ Closed(s, a, q)
               \/ Append(s[h].from, n) \notin a /\ IsPrefix(Append(s[h].from, n), q)
    <3>1. PICK k \in 1..h : \E m \in r[k].seen :
            Append(r[k].from, m) \notin a /\ IsPrefix(Append(r[k].from, m), q)
      BY <1>4, <2>1 DEF Closed
    <3>2. PICK m \in r[k].seen :
            Append(r[k].from, m) \notin a /\ IsPrefix(Append(r[k].from, m), q)
      BY <3>1
    <3>3. r[k].from = s[k].from /\ (m \in s[k].seen \/ (k = h /\ m = n))
      BY <1>6
    <3> QED
      BY <1>0, <3>2, <3>3, Zenon DEF Closed
  <2>2. ASSUME Closed(s, a, q) PROVE Closed(r, a, q)
    <3>1. PICK k \in 1..h : \E m \in s[k].seen :
            Append(s[k].from, m) \notin a /\ IsPrefix(Append(s[k].from, m), q)
      BY <1>0, <2>2 DEF Closed
    <3>2. r[k].from = s[k].from /\ \A m \in s[k].seen : m \in r[k].seen
      BY <1>6
    <3> QED
      BY <1>4, <3>1, <3>2, Zenon DEF Closed
  <2>3. ASSUME Append(s[h].from, n) \notin a, IsPrefix(Append(s[h].from, n), q)
        PROVE  Closed(r, a, q)
    <3>1. r[h].from = s[h].from /\ n \in r[h].seen
      BY <1>5
    <3> QED
      BY <1>1, <1>4, <2>3, <3>1, Zenon DEF Closed
  <2> QED
    BY <2>1, <2>2, <2>3
<1> QED
  BY <1>7, <1>8, <1>9, <1>10 DEF r, Entry

\* What was dealt with depends on nothing of a but the entries that were seen.
LEMMA ClosedActive ==
  ASSUME NEW f \in Seq(Names), NEW d, NEW t, NEW s, Stack(s, f, d, t),
         NEW n \in Names, n \notin Last(s).seen, NEW a, NEW q
  PROVE  Closed(s, a \cup {Entry(s, n)}, q) <=> Closed(s, a, q)
<1> DEFINE e == Entry(s, n)
<1>1. PICK h \in Nat \ {0}, l \in Nat : h = Len(s) /\ l = Len(f)
  BY StackLevel
<1>2. Last(s) = s[h] /\ Name(e) = n /\ Len(e) = l + h
  BY <1>1, StackLast
<1> HIDE DEF e
<1>3. ASSUME NEW k \in 1..Len(s), NEW m \in s[k].seen, Append(s[k].from, m) = e PROVE FALSE
  <2>1. m \in Names /\ k \in Nat
    BY StackLevel
  <2>4. Name(Append(s[k].from, m)) = m /\ Len(Append(s[k].from, m)) = Len(f) + k
    BY <2>1, StackEntry
  <2>2. Name(e) = m /\ Len(e) = l + k
    BY <1>1, <1>3, <2>4
  <2>3. k = h /\ m = n
    BY <1>1, <1>2, <2>1, <2>2
  <2> QED
    BY <1>2, <2>3
<1> QED
  BY <1>3 DEF Closed, e

\* What is put is there, and the rest is as it was.
LEMMA PutThere ==
  ASSUME NEW t, NEW p, NEW node
  PROVE  /\ DOMAIN Put(t, p, node) = DOMAIN t \cup {p} /\ Put(t, p, node)[p] = node
         /\ \A q \in DOMAIN t \ {p} : Put(t, p, node)[q] = t[q]
BY DEF Put

\* The copy starts with the directory it makes.
LEMMA CopyingStart ==
  ASSUME NEW b, IsTree(b), NEW f \in Seq(Names), NEW d \in Seq(Names),
         is_directory(b, f), d \notin DOMAIN b,
         NEW s, s = <<[from |-> f, to |-> d, seen |-> {}]>>,
         NEW u, u = Put(b, d, "directory_file")
  PROVE  Copying(b, f, d, s, Froms(s), u)
<1>1. /\ DOMAIN u = DOMAIN b \cup {d} /\ u[d] = "directory_file"
      /\ \A q \in DOMAIN b : u[q] = b[q]
  BY DEF Put
<1>2. /\ s \in Seq(Levels) /\ s # <<>> /\ Len(s) = 1
      /\ s[1].from = f /\ s[1].to = d /\ s[1].seen = {}
  BY DEF Levels
<1> HIDE DEF Levels
<1>3. Froms(s) = {f} /\ \A a, q : ~Closed(s, a, q)
  BY <1>2 DEF Froms, Closed
<1>4. Moved(f, f, d) = d /\ IsPrefix(f, f) /\ IsPrefix(d, d)
  BY PrefixOrder DEF Moved
<1>5. is_directory(u, f) /\ is_directory(u, d)
  BY <1>1, DirectoryIff
<1>6. Stack(s, f, d, u)
  <2>1. \A k \in 1..Len(s) : k = 1 /\ Len(f) = Len(f) + k - 1
    BY <1>2
  <2> QED
    BY <1>2, <1>4, <1>5, <2>1 DEF Stack
<1>7. Frame(b, f, d, s, Froms(s), u)
  <2>1. ASSUME NEW p \in DOMAIN u \ DOMAIN b
        PROVE  /\ IsPrefix(d, p)
               /\ \E q \in DOMAIN u : /\ Past(s, Froms(s), q) /\ u[q] # "symlink_file"
                                      /\ p = Moved(q, f, d) /\ u[p] = u[q]
    <3>1. p = d /\ f \in DOMAIN u /\ u[f] = "directory_file" /\ Past(s, Froms(s), f)
      BY <1>1, <1>3, <1>5, DirectoryIff DEF Past
    <3> QED
      BY <1>1, <1>4, <3>1
  <2> QED
    BY <1>1, <2>1 DEF Frame
<1>8. Complete(f, d, s, Froms(s), u)
  BY <1>3 DEF Complete
<1> QED
  BY <1>6, <1>7, <1>8 DEF Copying

\* A directory is entered.
LEMMA CopyingEnter ==
  ASSUME NEW b, NEW f \in Seq(Names), NEW d, NEW s, NEW t,
         Copying(b, f, d, s, Froms(s), t), NEW n \in Names, n \notin Last(s).seen
  PROVE  Copying(b, f, d, See(s, n), Froms(See(s, n)) \cup {Entry(s, n)}, t)
<1> DEFINE e == Entry(s, n)
           r == See(s, n)
           a == Froms(r) \cup {e}
<1>1. Stack(s, f, d, t) /\ Frame(b, f, d, s, Froms(s), t) /\ Complete(f, d, s, Froms(s), t)
  BY DEF Copying
<1>2. Stack(r, f, d, t) /\ Froms(r) = Froms(s)
  BY <1>1, SeeStack
<1>3. \A q : Closed(r, a, q) <=> Closed(s, Froms(s), q)
  <2>1. \A q : Closed(r, a, q) <=> Closed(s, a, q) \/ (e \notin a /\ IsPrefix(e, q))
    BY <1>1, SeeStack
  <2>2. \A q : Closed(s, Froms(s) \cup {e}, q) <=> Closed(s, Froms(s), q)
    BY <1>1, ClosedActive
  <2> QED
    BY <1>2, <2>1, <2>2
<1> HIDE DEF r, a
<1>4. \A q : Past(r, a, q) <=> Past(s, Froms(s), q)
  BY <1>2, <1>3 DEF Past
<1>5. Frame(b, f, d, r, a, t)
  BY <1>1, <1>4 DEF Frame
<1>6. Complete(f, d, r, a, t)
  BY <1>1, <1>3 DEF Complete
<1> QED
  BY <1>2, <1>5, <1>6 DEF Copying, r, a

\* What is to be copied next is not there yet.
LEMMA CopyingNew ==
  ASSUME NEW b, IsTree(b), NEW f \in Seq(Names), NEW d \in Seq(Names), NEW s,
         NEW t, IsTree(t), NEW a, Froms(s) \subseteq a, Copying(b, f, d, s, a, t),
         NEW n \in Names, n \notin Last(s).seen \/ Entry(s, n) \in a
  PROVE  Moved(Entry(s, n), f, d) \notin DOMAIN t
<1> DEFINE e == Entry(s, n)
           x == Moved(e, f, d)
<1> SUFFICES ASSUME x \in DOMAIN t PROVE FALSE
  OBVIOUS
<1>1. Stack(s, f, d, t) /\ Frame(b, f, d, s, a, t)
  BY DEF Copying
<1>2. e \in Seq(Names) /\ IsPrefix(f, e) /\ e \notin Froms(s)
  BY <1>1, StackLast
<1>3. ~Closed(s, a, e)
  <2>1. Last(s) = s[Len(s)] /\ IsPrefix(e, e) /\ e = Append(s[Len(s)].from, n)
    BY <1>2, PrefixOrder DEF Last, Entry
  <2> QED
    BY <1>1, <1>2, <2>1, NotPast
<1> HIDE DEF e
<1>4. x \in Seq(Names) /\ IsPrefix(d, x)
  BY <1>2, MovedPath
<1>5. d \notin DOMAIN b /\ is_directory(b, f)
  BY <1>1 DEF Frame
<1>6. x \notin DOMAIN b
  BY <1>4, <1>5, Apart
<1> HIDE DEF x
<1>7. PICK q \in DOMAIN t : Past(s, a, q) /\ x = Moved(q, f, d)
  BY <1>1, <1>6 DEF Frame
<1>8. q \in Seq(Names)
  BY PathSeq DEF IsTree
<1>9. IsPrefix(f, q)
  BY <1>1, <1>7, <1>8, PastBelow
<1>10. q = e
  BY <1>2, <1>7, <1>8, <1>9, MovedOrder DEF x
<1> QED
  BY <1>2, <1>3, <1>7, <1>10 DEF Past

\* A file or directory is copied, before or when it is noted as dealt with.
LEMMA FramePut ==
  ASSUME NEW b, NEW f \in Seq(Names), NEW d \in Seq(Names), NEW s, NEW a, NEW t,
         Frame(b, f, d, s, a, t), NEW r, NEW z, \A q : Past(s, a, q) => Past(r, z, q),
         NEW e \in DOMAIN t, e \in Seq(Names), IsPrefix(f, e), Past(r, z, e),
         NEW node, node = t[e], node # "symlink_file", Moved(e, f, d) \notin DOMAIN t
  PROVE  Frame(b, f, d, r, z, Put(t, Moved(e, f, d), node))
<1> DEFINE x == Moved(e, f, d)
           u == Put(t, x, node)
<1>1. DOMAIN u = DOMAIN t \cup {x} /\ u[x] = node /\ \A q \in DOMAIN t : u[q] = t[q]
  <2>1. x \notin DOMAIN t
    OBVIOUS
  <2> HIDE DEF x
  <2> QED
    BY <2>1 DEF Put
<1>2. IsPrefix(d, x)
  BY MovedPath
<1> HIDE DEF u
<1>3. ASSUME NEW p \in DOMAIN u \ DOMAIN b
      PROVE  /\ IsPrefix(d, p)
             /\ \E q \in DOMAIN u : /\ Past(r, z, q) /\ u[q] # "symlink_file"
                                    /\ p = Moved(q, f, d) /\ u[p] = u[q]
  <2>1. CASE p = x
    BY <1>1, <1>2, <2>1
  <2>2. CASE p # x
    <3>1. p \in DOMAIN t \ DOMAIN b
      BY <1>1, <2>2
    <3>2. /\ IsPrefix(d, p)
          /\ \E q \in DOMAIN t : /\ Past(s, a, q) /\ t[q] # "symlink_file"
                                 /\ p = Moved(q, f, d) /\ t[p] = t[q]
      BY <3>1 DEF Frame
    <3> QED
      BY <1>1, <3>1, <3>2
  <2> QED
    BY <2>1, <2>2
<1> QED
  BY <1>1, <1>3 DEF Frame, u

\* The stack is left as it is by what is put into the tree.
LEMMA StackPut ==
  ASSUME NEW f, NEW d, NEW s, NEW t, Stack(s, f, d, t), NEW x, x \notin DOMAIN t, NEW node
  PROVE  Stack(s, f, d, Put(t, x, node))
<1>1. \A p : is_directory(t, p) => is_directory(Put(t, x, node), p)
  BY DirectoryIff DEF Put
<1> QED
  BY <1>1 DEF Stack

\* A directory of the stack is followed by one that is entered.
Push(s, e, x) == Append(s, [from |-> e, to |-> x, seen |-> {}])

\* The stack with a directory that is entered.
LEMMA StackPush ==
  ASSUME NEW f \in Seq(Names), NEW d \in Seq(Names), NEW s, NEW t, Stack(s, f, d, t),
         NEW n \in Names, n \in Last(s).seen,
         is_directory(t, Entry(s, n)), is_directory(t, Moved(Entry(s, n), f, d))
  PROVE  LET e == Entry(s, n)
             r == Push(s, e, Moved(e, f, d))
         IN  /\ Stack(r, f, d, t) /\ Froms(r) = Froms(s) \cup {e} /\ r # <<>>
             /\ \A a, q : Closed(r, a, q) <=> Closed(s, a, q)
<1> DEFINE e == Entry(s, n)
           v == [from |-> e, to |-> Moved(e, f, d), seen |-> {}]
           r == Push(s, e, Moved(e, f, d))
<1>0. PICK h \in Nat \ {0}, l \in Nat : h = Len(s) /\ l = Len(f)
  <2>1. Len(s) \in Nat \ {0}
    BY StackLevel, Zenon
  <2> QED
    BY <2>1
<1>1. /\ s \in Seq(Levels) /\ h \in 1..h /\ Last(s) = s[h]
      /\ \A k \in 1..h : s[k].from \in Seq(Names) /\ s[k].seen \subseteq Names
  <2>1. s \in Seq(Levels) /\ h \in 1..h /\ Last(s) = s[h]
    BY <1>0 DEF Stack, Last
  <2>2. \A k \in 1..Len(s) : s[k].from \in Seq(Names) /\ s[k].seen \subseteq Names
    BY StackLevel
  <2> QED
    BY <1>0, <2>1, <2>2
<1>2. e = Append(s[h].from, n)
  BY <1>1 DEF Entry
<1>3. /\ e \in Seq(Names) /\ Len(e) = l + h /\ IsPrefix(s[h].from, e) /\ IsPrefix(f, e)
  BY <1>0, <1>1, StackLast
<1>4. Moved(e, f, d) \in Seq(Names)
  <2>1. e \in Seq(Names) /\ IsPrefix(f, e)
    BY <1>3
  <2> QED
    BY <2>1, MovedPath
<1>16. is_directory(t, e) /\ is_directory(t, Moved(e, f, d))
  OBVIOUS
<1> HIDE DEF e
<1>5. v \in Levels /\ v.from = e /\ v.to = Moved(e, f, d) /\ v.seen = {}
  BY <1>3, <1>4 DEF Levels
<1> HIDE DEF v
<1>15. r = Append(s, v)
  BY DEF v, Push
<1> HIDE DEF r
<1>6. /\ r \in Seq(Levels) /\ Len(r) = h + 1 /\ r[h + 1] = v
      /\ \A k \in 1..h : r[k] = s[k]
  BY <1>0, <1>1, <1>5, <1>15, AppendProperties
<1>7. /\ s[1].from = f
      /\ \A k \in 1..h :
           /\ Len(s[k].from) = l + k - 1
           /\ s[k].to = Moved(s[k].from, f, d)
           /\ is_directory(t, s[k].from) /\ is_directory(t, s[k].to)
      /\ \A j \in 1..h : \A k \in 1..j : IsPrefix(s[k].from, s[j].from)
      /\ \A k \in 1..(h - 1) : \E m \in s[k].seen : s[k + 1].from = Append(s[k].from, m)
  BY <1>0 DEF Stack
<1>8. r # <<>> /\ r[1].from = f
  <2>1. 1 \in 1..h
    BY <1>0
  <2> QED
    BY <1>6, <1>7, <2>1, EmptySeq
<1>9. ASSUME NEW k \in 1..(h + 1)
      PROVE  /\ Len(r[k].from) = l + k - 1
             /\ r[k].to = Moved(r[k].from, f, d)
             /\ is_directory(t, r[k].from) /\ is_directory(t, r[k].to)
  <2>1. CASE k \in 1..h
    BY <1>6, <1>7, <2>1
  <2>2. CASE k = h + 1
    <3>1. Len(e) = l + k - 1
      BY <1>0, <1>3, <2>2
    <3>2. r[k] = v
      BY <1>6, <2>2
    <3> QED
      BY <1>5, <1>16, <3>1, <3>2
  <2> QED
    BY <1>0, <2>1, <2>2
<1>10. ASSUME NEW j \in 1..(h + 1), NEW k \in 1..j PROVE IsPrefix(r[k].from, r[j].from)
  <2>1. CASE j \in 1..h
    <3>1. k \in 1..h
      BY <1>0, <2>1
    <3> QED
      BY <1>6, <1>7, <2>1, <3>1
  <2>2. CASE j = h + 1 /\ k = h + 1
    BY <1>3, <1>5, <1>6, <2>2, PrefixOrder
  <2>3. CASE j = h + 1 /\ k # h + 1
    <3>1. k \in 1..h
      BY <1>0, <2>3
    <3>2. IsPrefix(s[k].from, s[h].from)
      BY <1>1, <1>7, <3>1
    <3>3. s[k].from \in Seq(Names) /\ s[h].from \in Seq(Names) /\ e \in Seq(Names)
      BY <1>1, <1>3, <3>1
    <3>4. IsPrefix(s[k].from, e)
      BY <1>3, <3>2, <3>3, PrefixOrder
    <3> QED
      BY <1>5, <1>6, <2>3, <3>1, <3>4
  <2> QED
    BY <1>0, <2>1, <2>2, <2>3
<1>11. ASSUME NEW k \in 1..((h + 1) - 1)
       PROVE  \E m \in r[k].seen : r[k + 1].from = Append(r[k].from, m)
  <2>1. CASE k \in 1..(h - 1)
    <3>1. k \in 1..h /\ k + 1 \in 1..h
      BY <1>0, <2>1
    <3> QED
      BY <1>6, <1>7, <2>1, <3>1
  <2>2. CASE k = h
    <3>1. r[h] = s[h] /\ r[h + 1].from = e /\ n \in s[h].seen
      BY <1>1, <1>5, <1>6
    <3> QED
      BY <1>2, <2>2, <3>1
  <2> QED
    BY <1>0, <2>1, <2>2
<1>12. Stack(r, f, d, t)
  <2>1. \A k \in 1..Len(r) :
           /\ Len(r[k].from) = Len(f) + k - 1
           /\ r[k].to = Moved(r[k].from, f, d)
           /\ is_directory(t, r[k].from) /\ is_directory(t, r[k].to)
    BY <1>0, <1>6, <1>9
  <2>2. \A j \in 1..Len(r) : \A k \in 1..j : IsPrefix(r[k].from, r[j].from)
    BY <1>6, <1>10
  <2>3. \A k \in 1..(Len(r) - 1) : \E m \in r[k].seen : r[k + 1].from = Append(r[k].from, m)
    BY <1>6, <1>11
  <2> QED
    BY <1>6, <1>8, <2>1, <2>2, <2>3 DEF Stack
<1>13. Froms(r) = Froms(s) \cup {e}
  <2>1. ASSUME NEW k \in 1..(h + 1) PROVE r[k].from \in Froms(s) \cup {e}
    <3>1. CASE k \in 1..h
      BY <1>0, <1>6, <3>1 DEF Froms
    <3>2. CASE k = h + 1
      BY <1>5, <1>6, <3>2
    <3> QED
      BY <1>0, <3>1, <3>2
  <2>2. ASSUME NEW k \in 1..h PROVE s[k].from \in Froms(r)
    <3>1. k \in 1..(h + 1) /\ r[k] = s[k]
      BY <1>0, <1>6
    <3> QED
      BY <1>6, <3>1 DEF Froms
  <2>3. e \in Froms(r)
    <3>1. h + 1 \in 1..(h + 1)
      BY <1>0
    <3> QED
      BY <1>5, <1>6, <3>1 DEF Froms
  <2>4. \A x \in Froms(r) : x \in Froms(s) \cup {e}
    BY <1>6, <2>1 DEF Froms
  <2>5. \A x \in Froms(s) : x \in Froms(r)
    BY <1>0, <2>2 DEF Froms
  <2> QED
    BY <2>3, <2>4, <2>5
<1>14. ASSUME NEW a, NEW q PROVE Closed(r, a, q) <=> Closed(s, a, q)
  <2>1. ASSUME NEW k \in 1..(h + 1), r[k].seen # {} PROVE k \in 1..h
    BY <1>0, <1>5, <1>6, <2>1
  <2>2. \A k \in 1..h : k \in 1..(h + 1)
    BY <1>0
  <2>3. \A k \in 1..h : r[k] = s[k]
    BY <1>6
  <2>4. /\ Closed(r, a, q) <=> \E k \in 1..(h + 1) : \E m \in r[k].seen :
             Append(r[k].from, m) \notin a /\ IsPrefix(Append(r[k].from, m), q)
        /\ Closed(s, a, q) <=> \E k \in 1..h : \E m \in s[k].seen :
             Append(s[k].from, m) \notin a /\ IsPrefix(Append(s[k].from, m), q)
    BY <1>0, <1>6 DEF Closed
  <2> QED
    BY <2>1, <2>2, <2>3, <2>4, Zenon
<1> QED
  BY <1>8, <1>12, <1>13, <1>14 DEF r, e

\* The directory that was entered is made.
LEMMA CopyingMade ==
  ASSUME NEW b, IsTree(b), NEW f \in Seq(Names), NEW d \in Seq(Names), NEW s,
         NEW t, IsTree(t), NEW n \in Names, n \in Last(s).seen,
         Copying(b, f, d, s, Froms(s) \cup {Entry(s, n)}, t), is_directory(t, Entry(s, n))
  PROVE  LET x == Moved(Entry(s, n), f, d)
             r == Push(s, Entry(s, n), x)
         IN  Copying(b, f, d, r, Froms(r), Put(t, x, "directory_file")) /\ r # <<>>
<1> DEFINE e == Entry(s, n)
           a == Froms(s) \cup {e}
           x == Moved(e, f, d)
           u == Put(t, x, "directory_file")
           r == Push(s, e, x)
<1>1. Stack(s, f, d, t) /\ Frame(b, f, d, s, a, t) /\ Complete(f, d, s, a, t)
  BY DEF Copying
<1>2. e \in Seq(Names) /\ IsPrefix(f, e) /\ x \in Seq(Names) /\ IsPrefix(d, x)
  <2>1. e \in Seq(Names) /\ IsPrefix(f, e)
    BY <1>1, StackLast
  <2> HIDE DEF e
  <2> QED
    BY <2>1, MovedPath
<1>3. x \notin DOMAIN t
  BY CopyingNew
<1>4. /\ DOMAIN u = DOMAIN t \cup {x} /\ u[x] = "directory_file"
      /\ \A q \in DOMAIN t : u[q] = t[q]
  <2> HIDE DEF x
  <2> QED
    BY <1>3 DEF Put
<1>5. e \in DOMAIN t /\ t[e] = "directory_file"
  BY DirectoryThere
<1>6. Stack(s, f, d, u)
  BY <1>1, <1>3, StackPut
<1>7. is_directory(u, e) /\ is_directory(u, x)
  <2> HIDE DEF u, x, e
  <2> QED
    BY <1>4, <1>5, DirectoryIff
<1>8. /\ Stack(r, f, d, u) /\ Froms(r) = a /\ r # <<>>
      /\ \A z, q : Closed(r, z, q) <=> Closed(s, z, q)
  <2> HIDE DEF u
  <2> QED
    BY <1>6, <1>7, StackPush
<1>9. Frame(b, f, d, r, Froms(r), u)
  <2>1. \A q : Past(s, a, q) => Past(r, Froms(r), q)
    BY <1>8 DEF Past
  <2>2. Past(r, Froms(r), e)
    BY <1>8 DEF Past
  <2> HIDE DEF r, e, a
  <2> QED
    BY <1>1, <1>2, <1>3, <1>5, <2>1, <2>2, FramePut
<1>10. d \notin DOMAIN b /\ is_directory(b, f)
  BY <1>1 DEF Frame
<1>11. Complete(f, d, r, Froms(r), u)
  <2>1. ASSUME ~IsPrefix(f, d), NEW q \in DOMAIN u, Closed(r, Froms(r), q),
               u[q] # "symlink_file"
        PROVE  Moved(q, f, d) \in DOMAIN u
    <3>1. Closed(s, a, q)
      BY <1>8, <2>1
    <3>2. CASE q = x
      <4>1. Closed(s, a, x)
        BY <3>1, <3>2
      <4>2. IsPrefix(f, x)
        <5> HIDE DEF x, a
        <5> QED
          BY <1>1, <1>2, <4>1, PastBelow DEF Past
      <4> QED
        BY <1>2, <1>10, <2>1, <4>2, Apart
    <3>3. CASE q \in DOMAIN t
      <4>1. t[q] # "symlink_file"
        BY <1>4, <2>1, <3>3
      <4>2. Moved(q, f, d) \in DOMAIN t
        BY <1>1, <2>1, <3>1, <3>3, <4>1 DEF Complete
      <4> QED
        BY <1>4, <4>2
    <3> QED
      BY <1>4, <3>2, <3>3
  <2>2. ASSUME IsPrefix(f, d), NEW q \in DOMAIN u, is_directory(u, q),
               Closed(r, Froms(r), q), IsPrefix(q, Moved(q, f, d))
        PROVE  FALSE
    <3>1. Closed(s, a, q)
      BY <1>8, <2>2
    <3>2. CASE q = x
      <4>1. Closed(s, a, x) /\ IsPrefix(x, Moved(x, f, d))
        BY <2>2, <3>1, <3>2
      <4>2. IsPrefix(f, x)
        <5> HIDE DEF x, a
        <5> QED
          BY <1>1, <1>2, <4>1, PastBelow DEF Past
      <4>3. IsPrefix(e, x)
        <5>1. IsPrefix(e, x) <=> IsPrefix(Moved(e, f, d), Moved(x, f, d))
          <6> HIDE DEF e, x
          <6> QED
            BY <1>2, <4>2, MovedOrder
        <5> QED
          BY <4>1, <5>1
      <4>4. Last(s) = s[Len(s)] /\ e = Append(s[Len(s)].from, n) /\ e \in a
        BY DEF Last, Entry
      <4>5. ~Closed(s, a, x)
        <5> HIDE DEF x, e
        <5>1. x \in Seq(Names) /\ Froms(s) \subseteq a
          BY <1>2
        <5> HIDE DEF a
        <5> QED
          BY <1>1, <4>3, <4>4, <5>1, NotPast
      <4> QED
        BY <4>1, <4>5
    <3>3. CASE q \in DOMAIN t
      <4>1. is_directory(t, q)
        BY <1>4, <2>2, <3>3, DirectoryIff
      <4> QED
        BY <1>1, <2>2, <3>1, <3>3, <4>1 DEF Complete
    <3> QED
      BY <1>4, <3>2, <3>3
  <2> HIDE DEF u, r
  <2> QED
    BY <2>1, <2>2 DEF Complete
<1> QED
  BY <1>8, <1>9, <1>11 DEF Copying

\* With an entry that is no directory nothing else is dealt with.
LEMMA SeeLeaf ==
  ASSUME NEW f \in Seq(Names), NEW d, NEW s, NEW t, IsTree(t), Stack(s, f, d, t),
         NEW n \in Names, Entry(s, n) \in DOMAIN t, ~is_directory(t, Entry(s, n))
  PROVE  /\ \A q : Closed(s, Froms(s), q) => Closed(See(s, n), Froms(See(s, n)), q)
         /\ \A q : Past(s, Froms(s), q) => Past(See(s, n), Froms(See(s, n)), q)
         /\ Closed(See(s, n), Froms(See(s, n)), Entry(s, n))
         /\ \A q \in DOMAIN t : Closed(See(s, n), Froms(See(s, n)), q)
                                  => q = Entry(s, n) \/ Closed(s, Froms(s), q)
<1> DEFINE e == Entry(s, n)
           r == See(s, n)
<1>1. /\ Froms(r) = Froms(s)
      /\ \A a, q : Closed(r, a, q) <=> Closed(s, a, q) \/ (e \notin a /\ IsPrefix(e, q))
  BY SeeStack
<1>2. e \in Seq(Names) /\ e \notin Froms(s)
  BY StackLast
<1>3. IsPrefix(e, e)
  <2> HIDE DEF e
  <2> QED
    BY <1>2, PrefixOrder
<1>4. \A q \in DOMAIN t : IsPrefix(e, q) => q = e
  BY <1>2, TreeAncestors
<1> HIDE DEF e, r
<1> QED
  BY <1>1, <1>2, <1>3, <1>4 DEF Past, e, r

\* A link is passed over.
LEMMA CopyingSkip ==
  ASSUME NEW b, NEW f \in Seq(Names), NEW d, NEW s, NEW t, IsTree(t),
         Copying(b, f, d, s, Froms(s), t), NEW n \in Names,
         Type(t, Entry(s, n)) = "symlink_file"
  PROVE  Copying(b, f, d, See(s, n), Froms(See(s, n)), t)
<1> DEFINE e == Entry(s, n)
           r == See(s, n)
<1>1. Stack(s, f, d, t) /\ Frame(b, f, d, s, Froms(s), t) /\ Complete(f, d, s, Froms(s), t)
  BY DEF Copying
<1>2. e \in DOMAIN t /\ ~is_directory(t, e) /\ t[e] = "symlink_file"
  BY DEF is_directory, Type
<1>3. Stack(r, f, d, t)
  BY <1>1, SeeStack
<1>4. /\ \A q : Past(s, Froms(s), q) => Past(r, Froms(r), q)
      /\ \A q \in DOMAIN t : Closed(r, Froms(r), q) => q = e \/ Closed(s, Froms(s), q)
  BY <1>1, <1>2, SeeLeaf
<1> HIDE DEF e, r
<1>5. Frame(b, f, d, r, Froms(r), t)
  BY <1>1, <1>4 DEF Frame
<1>6. Complete(f, d, r, Froms(r), t)
  BY <1>1, <1>2, <1>4 DEF Complete
<1> QED
  BY <1>3, <1>5, <1>6 DEF Copying, r

\* A file is copied to where nothing is.
LEMMA CopyingFile ==
  ASSUME NEW b, IsTree(b), NEW f \in Seq(Names), NEW d \in Seq(Names), NEW s,
         NEW t, IsTree(t), Copying(b, f, d, s, Froms(s), t),
         NEW n \in Names, n \notin Last(s).seen, Type(t, Entry(s, n)) = "regular_file"
  PROVE  /\ Moved(Entry(s, n), f, d) \notin DOMAIN t
         /\ LET u == Put(t, Moved(Entry(s, n), f, d), t[Entry(s, n)])
            IN  Copying(b, f, d, See(s, n), Froms(See(s, n)), u)
<1> DEFINE e == Entry(s, n)
           r == See(s, n)
           x == Moved(e, f, d)
           u == Put(t, x, t[e])
<1>1. Stack(s, f, d, t) /\ Frame(b, f, d, s, Froms(s), t) /\ Complete(f, d, s, Froms(s), t)
  BY DEF Copying
<1>2. e \in Seq(Names) /\ IsPrefix(f, e) /\ x \in Seq(Names) /\ IsPrefix(d, x)
  <2>1. e \in Seq(Names) /\ IsPrefix(f, e)
    BY <1>1, StackLast
  <2> HIDE DEF e
  <2> QED
    BY <2>1, MovedPath
<1>3. x \notin DOMAIN t
  BY CopyingNew
<1>4. e \in DOMAIN t /\ t[e] \in Contents /\ t[e] # "symlink_file" /\ t[e] # "directory_file"
  BY RegularContent, FileTreeAssumption
<1>5. ~is_directory(t, e)
  BY <1>4, DirectoryThere
<1>6. DOMAIN u = DOMAIN t \cup {x} /\ u[x] = t[e] /\ \A q \in DOMAIN t : u[q] = t[q]
  <2> HIDE DEF x, e
  <2> QED
    BY <1>3 DEF Put
<1>7. Stack(r, f, d, u)
  <2>1. Stack(r, f, d, t)
    BY <1>1, SeeStack
  <2> HIDE DEF r
  <2> QED
    BY <1>3, <2>1, StackPut
<1>8. /\ \A q : Past(s, Froms(s), q) => Past(r, Froms(r), q)
      /\ Closed(r, Froms(r), e)
      /\ \A q \in DOMAIN t : Closed(r, Froms(r), q) => q = e \/ Closed(s, Froms(s), q)
  BY <1>1, <1>4, <1>5, SeeLeaf
<1> HIDE DEF e, r
<1>9. Frame(b, f, d, r, Froms(r), u)
  <2>1. Past(r, Froms(r), e)
    BY <1>8 DEF Past
  <2> QED
    BY <1>1, <1>2, <1>3, <1>4, <1>8, <2>1, FramePut
<1>10. d \notin DOMAIN b /\ is_directory(b, f)
  BY <1>1 DEF Frame
<1>11. Complete(f, d, r, Froms(r), u)
  <2>1. ASSUME ~IsPrefix(f, d), NEW q \in DOMAIN u, Closed(r, Froms(r), q),
               u[q] # "symlink_file"
        PROVE  Moved(q, f, d) \in DOMAIN u
    <3>1. CASE q = x
      <4>1. Closed(r, Froms(r), x)
        BY <2>1, <3>1
      <4>2. IsPrefix(f, x)
        <5> HIDE DEF x, u
        <5> QED
          BY <1>2, <1>7, <4>1, PastBelow DEF Past
      <4> QED
        BY <1>2, <1>10, <2>1, <4>2, Apart
    <3>2. CASE q \in DOMAIN t
      <4>1. CASE q = e
        BY <1>6, <4>1
      <4>2. CASE Closed(s, Froms(s), q)
        <5>1. t[q] # "symlink_file"
          BY <1>6, <2>1, <3>2
        <5>2. Moved(q, f, d) \in DOMAIN t
          BY <1>1, <2>1, <3>2, <4>2, <5>1 DEF Complete
        <5> QED
          BY <1>6, <5>2
      <4> QED
        BY <1>8, <2>1, <3>2, <4>1, <4>2
    <3> QED
      BY <1>6, <3>1, <3>2
  <2>2. ASSUME IsPrefix(f, d), NEW q \in DOMAIN u, is_directory(u, q),
               Closed(r, Froms(r), q), IsPrefix(q, Moved(q, f, d))
        PROVE  FALSE
    <3>1. u[q] = "directory_file" /\ q # x /\ q \in DOMAIN t
      <4> HIDE DEF u, x
      <4> QED
        BY <1>4, <1>6, <2>2, DirectoryIff
    <3>2. is_directory(t, q) /\ q # e
      BY <1>4, <1>6, <3>1, DirectoryIff
    <3>3. Closed(s, Froms(s), q)
      BY <1>8, <2>2, <3>1, <3>2
    <3> QED
      BY <1>1, <2>2, <3>1, <3>2, <3>3 DEF Complete
  <2> HIDE DEF u
  <2> QED
    BY <2>1, <2>2 DEF Complete
<1> QED
  BY <1>3, <1>7, <1>9, <1>11 DEF Copying, r, e

\* After its last entry all that lies below a directory is dealt with.
LEMMA SeenBelow ==
  ASSUME NEW f \in Seq(Names), NEW d, NEW s, NEW t, IsTree(t), Stack(s, f, d, t),
         \A n \in Names : Entry(s, n) \in DOMAIN t => n \in Last(s).seen,
         NEW q \in DOMAIN t, IsPrefix(Last(s).from, q), q # Last(s).from
  PROVE  Closed(s, Froms(s), q)
<1> DEFINE g == Last(s).from
<1>1. q \in Seq(Names)
  BY PathSeq DEF IsTree
<1>2. g \in Seq(Names)
  <2>1. Len(s) \in 1..Len(s) /\ Last(s) = s[Len(s)]
    BY StackLevel DEF Last
  <2> QED
    BY <2>1, StackLevel
<1>3. PICK n \in Names : IsPrefix(Entry(s, n), q)
  <2>1. IsPrefix(g, q) /\ q # g
    OBVIOUS
  <2> HIDE DEF g
  <2>2. \E n \in Names : IsPrefix(Append(g, n), q)
    BY <1>1, <1>2, <2>1, PrefixNext
  <2> QED
    BY <2>2 DEF Entry, g
<1>4. Entry(s, n) \in Seq(Names) /\ Entry(s, n) \notin Froms(s)
  BY StackLast
<1>5. n \in Last(s).seen
  BY <1>3, <1>4, TreeAncestors
<1>6. Len(s) \in 1..Len(s) /\ Last(s) = s[Len(s)]
  BY StackLevel DEF Last
<1> HIDE DEF g
<1>7. \E m \in s[Len(s)].seen :
        /\ Append(s[Len(s)].from, m) \notin Froms(s)
        /\ IsPrefix(Append(s[Len(s)].from, m), q)
  BY <1>3, <1>4, <1>5, <1>6 DEF Entry
<1> QED
  BY <1>6, <1>7 DEF Closed

\* The stack without the last directory.
LEMMA StackPop ==
  ASSUME NEW f \in Seq(Names), NEW d, NEW s, NEW t, Stack(s, f, d, t), Len(s) # 1
  PROVE  /\ Stack(Front(s), f, d, t) /\ Front(s) # <<>>
         /\ Froms(s) = Froms(Front(s)) \cup {Last(s).from}
         /\ Last(s).from \notin Froms(Front(s))
         /\ \A a, q : Closed(s, a, q)
              <=> \/ Closed(Front(s), a, q)
                  \/ \E m \in Last(s).seen : Entry(s, m) \notin a /\ IsPrefix(Entry(s, m), q)
         /\ \A a, q : Last(s).from \notin a /\ IsPrefix(Last(s).from, q)
                        => Closed(Front(s), a, q)
<1> DEFINE r == Front(s)
<1>0. PICK h \in Nat \ {0}, l \in Nat : h + 1 = Len(s) /\ l = Len(f)
  <2>1. Len(s) \in Nat \ {0}
    BY StackLevel, Zenon
  <2>2. Len(s) - 1 \in Nat \ {0} /\ (Len(s) - 1) + 1 = Len(s)
    BY <2>1
  <2>3. Len(f) \in Nat
    OBVIOUS
  <2> DEFINE h == Len(s) - 1
  <2>4. h \in Nat \ {0} /\ h + 1 = Len(s)
    BY <2>2
  <2> HIDE DEF h
  <2> QED
    BY <2>3, <2>4
<1>1. s \in Seq(Levels) /\ Last(s) = s[h + 1]
  BY <1>0 DEF Stack, Last
<1>2. r \in Seq(Levels) /\ Len(r) = h /\ \A k \in 1..h : r[k] = s[k]
  <2>1. Len(s) - 1 = h /\ h <= Len(s)
    BY <1>0
  <2>2. r = SubSeq(s, 1, h)
    BY <2>1 DEF Front
  <2> HIDE DEF r
  <2> QED
    BY <1>0, <1>1, <2>1, <2>2
<1>3. /\ s[1].from = f
      /\ \A k \in 1..(h + 1) :
           /\ Len(s[k].from) = l + k - 1
           /\ s[k].to = Moved(s[k].from, f, d)
           /\ is_directory(t, s[k].from) /\ is_directory(t, s[k].to)
      /\ \A j \in 1..(h + 1) : \A k \in 1..j : IsPrefix(s[k].from, s[j].from)
      /\ \A k \in 1..((h + 1) - 1) : \E m \in s[k].seen : s[k + 1].from = Append(s[k].from, m)
  BY <1>0 DEF Stack
<1>4. 1 \in 1..h /\ h \in 1..h /\ h + 1 \in 1..(h + 1) /\ \A k \in 1..h : k \in 1..(h + 1)
  BY <1>0
<1> HIDE DEF r
<1>5. r # <<>>
  BY <1>0, <1>2, EmptySeq
<1>6. Stack(r, f, d, t)
  <2>1. \A k \in 1..Len(r) :
           /\ Len(r[k].from) = Len(f) + k - 1
           /\ r[k].to = Moved(r[k].from, f, d)
           /\ is_directory(t, r[k].from) /\ is_directory(t, r[k].to)
    BY <1>0, <1>2, <1>3, <1>4
  <2>2. ASSUME NEW j \in 1..h, NEW k \in 1..j PROVE IsPrefix(r[k].from, r[j].from)
    <3>1. k \in 1..h /\ j \in 1..(h + 1)
      BY <1>0
    <3> QED
      BY <1>2, <1>3, <3>1
  <2>3. ASSUME NEW k \in 1..(h - 1)
        PROVE  \E m \in r[k].seen : r[k + 1].from = Append(r[k].from, m)
    <3>1. k \in 1..h /\ k + 1 \in 1..h /\ k \in 1..((h + 1) - 1)
      BY <1>0
    <3> QED
      BY <1>2, <1>3, <3>1
  <2> QED
    BY <1>2, <1>3, <1>4, <1>5, <2>1, <2>2, <2>3 DEF Stack
<1>7. Froms(s) = Froms(r) \cup {s[h + 1].from}
  <2>1. ASSUME NEW k \in 1..(h + 1) PROVE s[k].from \in Froms(r) \cup {s[h + 1].from}
    <3>1. CASE k \in 1..h
      BY <1>2, <3>1 DEF Froms
    <3>2. k \in 1..h \/ k = h + 1
      BY <1>0
    <3> QED
      BY <3>1, <3>2
  <2>2. ASSUME NEW k \in 1..h PROVE r[k].from \in Froms(s)
    BY <1>0, <1>2, <1>4 DEF Froms
  <2>3. s[h + 1].from \in Froms(s)
    BY <1>0, <1>4 DEF Froms
  <2>4. \A x \in Froms(s) : x \in Froms(r) \cup {s[h + 1].from}
    BY <1>0, <2>1 DEF Froms
  <2>5. \A x \in Froms(r) : x \in Froms(s)
    BY <1>2, <2>2 DEF Froms
  <2> QED
    BY <2>3, <2>4, <2>5
<1>8. s[h + 1].from \notin Froms(r)
  <2> SUFFICES ASSUME NEW k \in 1..h, r[k].from = s[h + 1].from PROVE FALSE
    BY <1>2 DEF Froms
  <2>1. Len(r[k].from) = l + k - 1 /\ Len(s[h + 1].from) = l + (h + 1) - 1
    BY <1>2, <1>3, <1>4
  <2> QED
    BY <1>0, <2>1
<1>9. ASSUME NEW a, NEW q
      PROVE  Closed(s, a, q)
               <=> \/ Closed(r, a, q)
                   \/ \E m \in s[h + 1].seen : Append(s[h + 1].from, m) \notin a
                                               /\ IsPrefix(Append(s[h + 1].from, m), q)
  <2>1. \A k \in 1..(h + 1) : k \in 1..h \/ k = h + 1
    BY <1>0
  <2>2. /\ Closed(s, a, q) <=> \E k \in 1..(h + 1) : \E m \in s[k].seen :
             Append(s[k].from, m) \notin a /\ IsPrefix(Append(s[k].from, m), q)
        /\ Closed(r, a, q) <=> \E k \in 1..h : \E m \in r[k].seen :
             Append(r[k].from, m) \notin a /\ IsPrefix(Append(r[k].from, m), q)
    BY <1>0, <1>2 DEF Closed
  <2> QED
    BY <1>2, <1>4, <2>1, <2>2, Zenon
<1>10. ASSUME NEW a, NEW q, s[h + 1].from \notin a, IsPrefix(s[h + 1].from, q)
       PROVE  Closed(r, a, q)
  <2>1. h \in 1..((h + 1) - 1)
    BY <1>0
  <2>2. PICK m \in s[h].seen : s[h + 1].from = Append(s[h].from, m)
    BY <1>3, <2>1
  <2>3. m \in r[h].seen /\ Append(r[h].from, m) \notin a /\ IsPrefix(Append(r[h].from, m), q)
    BY <1>2, <1>4, <1>10, <2>2
  <2> QED
    BY <1>2, <1>4, <2>3, Zenon DEF Closed
<1>11. \A m : Entry(s, m) = Append(s[h + 1].from, m)
  BY <1>1 DEF Entry
<1>12. ASSUME NEW a, NEW q
       PROVE  Closed(s, a, q)
          <=> \/ Closed(r, a, q)
              \/ \E m \in Last(s).seen : Entry(s, m) \notin a /\ IsPrefix(Entry(s, m), q)
  <2>1. Closed(s, a, q)
          <=> \/ Closed(r, a, q)
              \/ \E m \in s[h + 1].seen : Append(s[h + 1].from, m) \notin a
                                          /\ IsPrefix(Append(s[h + 1].from, m), q)
    BY <1>9
  <2>2. \A m : Entry(s, m) \notin a /\ IsPrefix(Entry(s, m), q)
                <=> /\ Append(s[h + 1].from, m) \notin a
                    /\ IsPrefix(Append(s[h + 1].from, m), q)
    BY <1>11
  <2>3. Last(s).seen = s[h + 1].seen
    BY <1>1
  <2> QED
    BY <2>1, <2>2, <2>3, Zenon
<1>13. \A a, q : Last(s).from \notin a /\ IsPrefix(Last(s).from, q) => Closed(r, a, q)
  BY <1>1, <1>10
<1>14. Froms(s) = Froms(r) \cup {Last(s).from} /\ Last(s).from \notin Froms(r)
  BY <1>1, <1>7, <1>8
<1> QED
  BY <1>5, <1>6, <1>12, <1>13, <1>14 DEF r

\* After the last entry of a directory the one it is in goes on.
LEMMA CopyingPop ==
  ASSUME NEW b, NEW f \in Seq(Names), NEW d \in Seq(Names), NEW s, NEW t, IsTree(t),
         Copying(b, f, d, s, Froms(s), t), Len(s) # 1, d # f,
         \A n \in Names : Entry(s, n) \in DOMAIN t => n \in Last(s).seen
  PROVE  Copying(b, f, d, Front(s), Froms(Front(s)), t) /\ Front(s) # <<>>
<1> DEFINE g == Last(s).from
           r == Front(s)
<1>1. Stack(s, f, d, t) /\ Frame(b, f, d, s, Froms(s), t) /\ Complete(f, d, s, Froms(s), t)
  BY DEF Copying
<1>2. /\ Stack(r, f, d, t) /\ r # <<>> /\ Froms(s) = Froms(r) \cup {g} /\ g \notin Froms(r)
      /\ \A a, q : Closed(s, a, q)
           <=> \/ Closed(r, a, q)
               \/ \E m \in Last(s).seen : Entry(s, m) \notin a /\ IsPrefix(Entry(s, m), q)
      /\ \A a, q : g \notin a /\ IsPrefix(g, q) => Closed(r, a, q)
  BY <1>1, StackPop
<1>3. /\ g \in Seq(Names) /\ IsPrefix(f, g) /\ Last(s).seen \subseteq Names
      /\ g \in DOMAIN t /\ Moved(g, f, d) \in DOMAIN t /\ is_directory(t, Moved(g, f, d))
  <2>1. Len(s) \in 1..Len(s) /\ Last(s) = s[Len(s)]
    BY <1>1, StackLevel DEF Last
  <2>2. /\ g \in Seq(Names) /\ IsPrefix(f, g) /\ Last(s).seen \subseteq Names
        /\ is_directory(t, g) /\ is_directory(t, Moved(g, f, d))
    <3> DEFINE k == Len(s)
    <3>1. /\ s[k].from \in Seq(Names) /\ s[k].seen \subseteq Names
          /\ IsPrefix(f, s[k].from) /\ s[k].to = Moved(s[k].from, f, d)
          /\ is_directory(t, s[k].from) /\ is_directory(t, s[k].to)
      BY <1>1, <2>1, StackLevel
    <3> QED
      BY <2>1, <3>1
  <2> QED
    BY <2>2, DirectoryThere
<1>4. \A q \in DOMAIN t : q \in Seq(Names)
  BY PathSeq DEF IsTree
<1>5. \A q \in DOMAIN t : IsPrefix(g, q) /\ q # g => Closed(s, Froms(s), q)
  BY <1>1, SeenBelow
<1> HIDE DEF r
<1>6. ASSUME NEW q \in DOMAIN t, Past(s, Froms(s), q) PROVE Past(r, Froms(r), q)
  <2>1. IsPrefix(g, q) => Closed(r, Froms(r), q)
    BY <1>2
  <2>2. CASE q \in Froms(s)
    <3>1. q \in Froms(r) \/ q = g
      BY <1>2, <2>2
    <3>2. IsPrefix(g, g)
      <4> HIDE DEF g
      <4> QED
        BY <1>3, PrefixOrder
    <3> QED
      BY <2>1, <3>1, <3>2 DEF Past
  <2>3. CASE Closed(r, Froms(s), q)
    <3>1. Closed(r, Froms(r), q)
      BY <1>2, <2>3 DEF Closed
    <3> QED
      BY <3>1 DEF Past
  <2>4. ASSUME NEW m \in Last(s).seen, IsPrefix(Entry(s, m), q) PROVE Past(r, Froms(r), q)
    <3>1. m \in Names
      BY <1>3
    <3>2. Entry(s, m) \in Seq(Names) /\ IsPrefix(g, Entry(s, m))
      BY <1>1, <3>1, StackLast
    <3>3. IsPrefix(g, q)
      <4> HIDE DEF g
      <4> QED
        BY <1>3, <1>4, <2>4, <3>2, PrefixOrder
    <3> QED
      BY <2>1, <3>3 DEF Past
  <2> QED
    BY <1>2, <1>6, <2>2, <2>3, <2>4 DEF Past
<1>7. ASSUME NEW q \in DOMAIN t, Closed(r, Froms(r), q), q # g PROVE Closed(s, Froms(s), q)
  <2>1. PICK k \in 1..Len(r) : \E m \in r[k].seen :
          Append(r[k].from, m) \notin Froms(r) /\ IsPrefix(Append(r[k].from, m), q)
    BY <1>7 DEF Closed
  <2>2. PICK m \in r[k].seen :
          Append(r[k].from, m) \notin Froms(r) /\ IsPrefix(Append(r[k].from, m), q)
    BY <2>1
  <2>3. CASE Append(r[k].from, m) = g
    BY <1>5, <1>7, <2>2, <2>3
  <2>4. CASE Append(r[k].from, m) # g
    <3>1. Append(r[k].from, m) \notin Froms(s)
      BY <1>2, <2>2, <2>4
    <3>2. Closed(r, Froms(s), q)
      BY <2>2, <3>1, Zenon DEF Closed
    <3> QED
      BY <1>2, <3>2
  <2> QED
    BY <2>3, <2>4
<1>8. Frame(b, f, d, r, Froms(r), t)
  BY <1>1, <1>6 DEF Frame
<1>9. Complete(f, d, r, Froms(r), t)
  <2>1. ASSUME ~IsPrefix(f, d), NEW q \in DOMAIN t, Closed(r, Froms(r), q),
               t[q] # "symlink_file"
        PROVE  Moved(q, f, d) \in DOMAIN t
    BY <1>1, <1>3, <1>7, <2>1 DEF Complete
  <2>2. ASSUME IsPrefix(f, d), NEW q \in DOMAIN t, is_directory(t, q),
               Closed(r, Froms(r), q), IsPrefix(q, Moved(q, f, d))
        PROVE  FALSE
    <3>1. CASE q # g
      BY <1>1, <1>7, <2>2, <3>1 DEF Complete
    <3>2. CASE q = g
      <4> DEFINE x == Moved(g, f, d)
      <4>1. IsPrefix(g, x)
        BY <2>2, <3>2
      <4>2. x \in DOMAIN t /\ is_directory(t, x) /\ x \in Seq(Names)
        BY <1>3, <1>4
      <4>3. x # g
        <5> SUFFICES ASSUME x = g PROVE FALSE
          OBVIOUS
        <5>1. PICK i \in Nat, j \in Nat, k \in Nat : i = Len(f) /\ j = Len(d) /\ k = Len(g)
          BY <1>3
        <5>2. Len(x) = Len(d) + Len(g) - Len(f)
          <6> HIDE DEF g
          <6> QED
            BY <1>3, MovedPath
        <5>3. k = j + k - i
          BY <5>1, <5>2
        <5>4. Len(d) <= Len(f)
          BY <5>1, <5>3
        <5> QED
          BY <2>2, <5>4, PrefixSame
      <4>4. Closed(s, Froms(s), x)
        BY <1>5, <4>1, <4>2, <4>3
      <4>5. ~IsPrefix(x, Moved(x, f, d))
        BY <1>1, <2>2, <4>2, <4>4 DEF Complete
      <4>6. IsPrefix(f, x)
        <5> HIDE DEF g, x
        <5> QED
          BY <1>3, <4>1, <4>2, PrefixOrder
      <4>7. IsPrefix(Moved(g, f, d), Moved(x, f, d))
        <5> HIDE DEF g, x
        <5> QED
          BY <1>3, <4>1, <4>2, <4>6, MovedOrder
      <4> QED
        BY <4>5, <4>7
    <3> QED
      BY <3>1, <3>2
  <2> QED
    BY <2>1, <2>2 DEF Complete
<1> QED
  BY <1>2, <1>8, <1>9 DEF Copying, r

\* A copy that comes to its end has copied all there was, and no more; one of a directory
\* into itself does not.
LEMMA CopyingDone ==
  ASSUME NEW b, IsTree(b), NEW f \in Seq(Names), NEW d \in Seq(Names), NEW s,
         NEW t, IsTree(t), Copying(b, f, d, s, Froms(s), t), Len(s) = 1,
         \A n \in Names : Entry(s, n) \in DOMAIN t => n \in Last(s).seen
  PROVE  t = Over(b, Copied(b, f, d))
<1>1. Stack(s, f, d, t) /\ Frame(b, f, d, s, Froms(s), t) /\ Complete(f, d, s, Froms(s), t)
  BY DEF Copying
<1>2. Last(s) = s[1] /\ Last(s).from = f /\ s[1].to = Moved(f, f, d) /\ is_directory(t, s[1].to)
  <2>1. 1 \in 1..Len(s)
    OBVIOUS
  <2> QED
    BY <1>1, <2>1 DEF Stack, Last
<1>3. Moved(f, f, d) = d /\ d \in DOMAIN t
  <2>1. Moved(f, f, d) = d
    BY DEF Moved
  <2> QED
    BY <1>2, <2>1, DirectoryThere
<1>4. d \notin DOMAIN b /\ is_directory(b, f) /\ f \in DOMAIN b /\ b[f] = "directory_file"
  BY <1>1, DirectoryThere DEF Frame
<1>5. \A q : q \in DOMAIN t \/ q \in DOMAIN b => q \in Seq(Names)
  BY PathSeq DEF IsTree
<1>6. \A q \in DOMAIN t : IsPrefix(f, q) /\ q # f => Closed(s, Froms(s), q)
  BY <1>1, <1>2, SeenBelow
<1>7. ~IsPrefix(f, d)
  <2> SUFFICES ASSUME IsPrefix(f, d) PROVE FALSE
    OBVIOUS
  <2>1. Closed(s, Froms(s), d)
    BY <1>3, <1>4, <1>6
  <2>2. is_directory(t, d)
    BY <1>2, <1>3
  <2>3. ~IsPrefix(d, Moved(d, f, d))
    BY <1>1, <1>3, <2>1, <2>2 DEF Complete
  <2> QED
    BY <2>3, MovedPath
<1>8. /\ \A p \in Seq(Names) : IsPrefix(d, p) => p \notin DOMAIN b
      /\ \A p \in Seq(Names) : ~(IsPrefix(f, p) /\ IsPrefix(d, p))
  BY <1>4, <1>7, Apart
<1>9. /\ \A r : r \in DOMAIN Relocated(b, f, d) <=> \E q \in Below(b, f) : r = Moved(q, f, d)
      /\ \A q \in Below(b, f) : Relocated(b, f, d)[Moved(q, f, d)] = b[q]
  BY RelocatedThere
<1>10. \A q \in Below(b, f) :
         /\ q \in DOMAIN b /\ q \in Seq(Names) /\ IsPrefix(f, q) /\ q \in DOMAIN t /\ t[q] = b[q]
         /\ Moved(q, f, d) \notin DOMAIN b
  <2>1. \A q \in Below(b, f) :
         q \in DOMAIN b /\ q \in Seq(Names) /\ IsPrefix(f, q) /\ q \in DOMAIN t /\ t[q] = b[q]
    BY <1>1, <1>5 DEF Below, Frame
  <2> QED
    BY <1>8, <2>1, MovedPath
<1> DEFINE C == Copied(b, f, d)
           o == Over(b, C)
<1>11. /\ DOMAIN C = {p \in DOMAIN Relocated(b, f, d) : Relocated(b, f, d)[p] # "symlink_file"}
       /\ \A p \in DOMAIN C : C[p] = Relocated(b, f, d)[p]
  BY DEF Copied
<1>12. \A p : p \in DOMAIN C <=> \E q \in Below(b, f) : p = Moved(q, f, d) /\ b[q] # "symlink_file"
  BY <1>9, <1>11
<1>13. \A q \in Below(b, f) : b[q] # "symlink_file" => C[Moved(q, f, d)] = b[q]
  BY <1>9, <1>11, <1>12
<1> HIDE DEF C
<1>14. /\ DOMAIN o = DOMAIN b \cup DOMAIN C
       /\ \A p \in DOMAIN b : o[p] = b[p]
       /\ \A p \in DOMAIN C \ DOMAIN b : o[p] = C[p]
  BY DEF Over
<1>21. o = [p \in DOMAIN o |-> o[p]]
  BY DEF Over
<1> HIDE DEF o
\* What was added is the copy of something that was found.
<1>15. ASSUME NEW p \in DOMAIN t \ DOMAIN b
       PROVE  \E q \in Below(b, f) : p = Moved(q, f, d) /\ t[p] = b[q] /\ b[q] # "symlink_file"
  <2>1. PICK q \in DOMAIN t : /\ Past(s, Froms(s), q) /\ t[q] # "symlink_file"
                              /\ p = Moved(q, f, d) /\ t[p] = t[q]
    BY <1>1 DEF Frame
  <2>2. q \in Seq(Names) /\ IsPrefix(f, q)
    BY <1>1, <1>5, <2>1, PastBelow
  <2>3. q \in DOMAIN b
    <3> SUFFICES ASSUME q \notin DOMAIN b PROVE FALSE
      OBVIOUS
    <3>1. IsPrefix(d, q)
      BY <1>1 DEF Frame
    <3> QED
      BY <1>8, <2>2, <3>1
  <2>4. t[q] = b[q] /\ q \in Below(b, f)
    BY <1>1, <2>2, <2>3 DEF Frame, Below
  <2> QED
    BY <2>1, <2>4
<1>16. ASSUME NEW q \in Below(b, f), b[q] # "symlink_file" PROVE Moved(q, f, d) \in DOMAIN t
  <2>1. CASE q = f
    BY <1>3, <2>1
  <2>2. CASE q # f
    <3>1. Closed(s, Froms(s), q) /\ t[q] # "symlink_file" /\ q \in DOMAIN t
      BY <1>6, <1>10, <1>16, <2>2
    <3> QED
      BY <1>1, <1>7, <3>1 DEF Complete
  <2> QED
    BY <2>1, <2>2
<1>17. DOMAIN t = DOMAIN o
  <2>1. \A p \in DOMAIN t \ DOMAIN b : p \in DOMAIN C
    BY <1>12, <1>15
  <2>2. \A p \in DOMAIN C : p \in DOMAIN t
    BY <1>12, <1>16
  <2>3. \A p \in DOMAIN b : p \in DOMAIN t
    BY <1>1 DEF Frame
  <2> QED
    BY <1>14, <2>1, <2>2, <2>3
<1>18. ASSUME NEW p \in DOMAIN t PROVE t[p] = o[p]
  <2>1. CASE p \in DOMAIN b
    BY <1>1, <1>14, <2>1 DEF Frame
  <2>2. CASE p \notin DOMAIN b
    <3>1. PICK q \in Below(b, f) : p = Moved(q, f, d) /\ t[p] = b[q] /\ b[q] # "symlink_file"
      BY <1>15, <2>2
    <3>2. C[p] = b[q] /\ p \in DOMAIN C
      BY <1>12, <1>13, <3>1
    <3>3. o[p] = C[p]
      BY <1>14, <2>2, <3>2
    <3> QED
      BY <3>1, <3>2, <3>3
  <2> QED
    BY <2>1, <2>2
<1>19. t = [p \in DOMAIN t |-> t[p]]
  BY DEF IsTree
<1>20. t = o
  BY <1>17, <1>18, <1>19, <1>21
<1> QED
  BY <1>20 DEF o, C

-----------------------------------------------------------------------------
(* The invariant of a call that nobody interferes with.                     *)

\* What a call has done when it returns, or throws.
Kept(c, t, result) ==
  ~OntoItself(c) =>
    /\ result # "throws" => t = Promised(c.before, c) /\ result = Told(c, t)
    /\ result = "throws" =>
         \A p \in DOMAIN c.before \cup DOMAIN t :
           \/ p \in DOMAIN c.before \cap DOMAIN t /\ t[p] = c.before[p]
           \/ /\ c.op = "copyDirectory" /\ p \notin DOMAIN c.before
              /\ IsPrefix(Lands(c.before, c.op, c.arg[1], c.arg[2]), p)

\* What it has done of the copy of a directory.
Copies(c, t) ==
  LET So(a) == Copying(c.before, c.arg[1], Dest(c), c.open, a, t)
      seen == Last(c.open).seen
  IN  IF c.pc = "copy" THEN So(Froms(c.open))
      ELSE \E n \in Names :
             /\ c.from = Entry(c.open, n) /\ c.to = Moved(c.from, c.arg[1], Dest(c))
             /\ IF c.pc \in {"entry", "file"}
                THEN /\ n \notin seen /\ c.from \in DOMAIN t /\ ~is_directory(t, c.from)
                     /\ c.pc = "file" => Type(t, c.from) = "regular_file"
                     /\ So(Froms(c.open))
                ELSE /\ n \in seen /\ is_directory(t, c.from)
                     /\ So(Froms(c.open) \cup {Entry(c.open, n)})

Exact(c, t) ==
  /\ IsTree(c.before)
  /\ Working(c) /\ c.open = <<>> => StartInv(c, t)
  /\ Working(c) /\ c.open # <<>> => c.op = "copyDirectory" /\ Copies(c, t)
  /\ c.pc = "returned" => Kept(c, t, c.result)

ExactInv ==
  \A th \in Threads :
    call[th] # Idle => /\ Fields \subseteq DOMAIN call[th]
                       /\ call[th].alone => Exact(call[th], tree)

\* Where a copy puts things.
LEMMA DestCopy ==
  ASSUME NEW c, c.op \in {"copyFile", "copyDirectory"},
         c.arg[1] \in Seq(Names) \ {Root}, c.arg[2] \in Seq(Names) \ {Root}
  PROVE  /\ Dest(c) = IF is_directory(c.before, c.arg[2])
                      THEN Append(c.arg[2], Name(c.arg[1])) ELSE c.arg[2]
         /\ Dest(c) \in Seq(Names) \ {Root}
<1>1. PICK from \in Seq(Names) \ {Root}, to \in Seq(Names) \ {Root} :
        from = c.arg[1] /\ to = c.arg[2]
  OBVIOUS
<1>2. Name(from) \in Names
  BY ParentName
<1>3. Deep(to, Name(from), 1) = Append(to, Name(from))
  BY <1>2, DeepNext
<1>4. Append(to, Name(from)) \in Seq(Names) \ {Root}
  BY <1>2, ParentAppend
<1>5. Dest(c) = IF is_directory(c.before, to) THEN Deep(to, Name(from), 1) ELSE to
  BY <1>1 DEF Dest, Lands, Deep
<1> QED
  BY <1>1, <1>3, <1>4, <1>5

\* A call that throws may leave everything as it was.
LEMMA KeptSame ==
  ASSUME NEW c, NEW t, t = c.before
  PROVE  Kept(c, t, "throws")
BY DEF Kept

\* So may a copy that is left incomplete.
LEMMA FrameKept ==
  ASSUME NEW c, c.op = "copyDirectory", NEW s, NEW a, NEW t,
         Frame(c.before, c.arg[1], Dest(c), s, a, t)
  PROVE  Kept(c, t, "throws")
BY DEF Kept, Frame, Dest

\* What matters of a call for what it has done.
LEMMA KeptAlike ==
  ASSUME NEW c, NEW k, k.op = c.op, k.arg = c.arg, k.before = c.before, k.content = c.content,
         NEW t, NEW result, Kept(c, t, result)
  PROVE  Kept(k, t, result)
<1>1. OntoItself(k) <=> OntoItself(c)
  BY DEF OntoItself
<1>2. Promised(k.before, k) = Promised(c.before, c) /\ Told(k, t) = Told(c, t)
  BY DEF Promised, Told
<1> QED
  BY <1>1, <1>2 DEF Kept

\* What a step leaves of the invariant when it makes t of the tree and c of its call.
LEMMA MeanwhileExact ==
  ASSUME IInv, ExactInv, NEW th \in Threads, NEW c, NEW t, Meanwhile(th, c, t),
         Fields \subseteq DOMAIN c, c.alone => Exact(c, t)
  PROVE  ExactInv'
<1>1. tree' = t
  BY DEF Meanwhile
<1>2. ASSUME NEW u \in Threads, call'[u] # Idle
      PROVE  /\ Fields \subseteq DOMAIN call'[u]
             /\ call'[u].alone => Exact(call'[u], t)
  <2>1. CASE u = th
    <3>1. call'[u] = c
      BY <2>1 DEF Meanwhile
    <3> QED
      BY <3>1
  <2>2. CASE u # th /\ call[u] # Idle /\ t # tree
    <3>1. call'[u] = [call[u] EXCEPT !.alone = FALSE]
      BY <2>2 DEF Meanwhile
    <3>2. Fields \subseteq DOMAIN call[u]
      BY <2>2 DEF ExactInv
    <3>3. DOMAIN call'[u] = DOMAIN call[u] /\ call'[u].alone = FALSE
      BY <3>1, <3>2 DEF Fields
    <3> QED
      BY <3>2, <3>3
  <2>3. CASE u # th /\ ~(call[u] # Idle /\ t # tree)
    <3>1. call'[u] = call[u]
      BY <2>3 DEF Meanwhile
    <3>2. t = tree
      BY <1>2, <2>3, <3>1
    <3> QED
      BY <1>2, <3>1, <3>2 DEF ExactInv
  <2> QED
    BY <2>1, <2>2, <2>3
<1> QED
  BY <1>1, <1>2 DEF ExactInv

\* A call under way has its fields, and is exact if it was alone.
LEMMA WorkingExact ==
  ASSUME IInv, ExactInv, NEW th \in Threads, Working(call[th])
  PROVE  /\ Bound(call[th]) /\ Fields \subseteq DOMAIN call[th]
         /\ call[th].alone => Exact(call[th], tree)
<1>1. call[th] # Idle
  BY DEF Working, Idle
<1>2. Bound(call[th])
  BY DEF IInv, Sound
<1> QED
  BY <1>1, <1>2 DEF ExactInv

\* So it is when the call returns or goes on with the tree as it is.
LEMMA ReturnExact ==
  ASSUME IInv, ExactInv, NEW th \in Threads, NEW o, Return(th, o), Working(call[th]),
         Exact(call[th], tree) => Kept(call[th], o.tree, o.result)
  PROVE  ExactInv'
<1> DEFINE c == call[th]
           k == [c EXCEPT !.pc = "returned", !.result = o.result]
<1>1. Meanwhile(th, k, o.tree)
  BY DEF Return
<1>2. Fields \subseteq DOMAIN c /\ (c.alone => Exact(c, tree))
  BY WorkingExact
<1>3. /\ DOMAIN k = DOMAIN c /\ k.pc = "returned" /\ k.result = o.result
      /\ \A f \in DOMAIN c \ {"pc", "result"} : k[f] = c[f]
  BY <1>2 DEF Fields
<1> HIDE DEF k
<1>4. /\ k.op = c.op /\ k.arg = c.arg /\ k.before = c.before
      /\ k.content = c.content /\ k.alone = c.alone
  BY <1>2, <1>3 DEF Fields
<1>5. ASSUME k.alone PROVE Exact(k, o.tree)
  <2>1. Exact(c, tree)
    BY <1>2, <1>4, <1>5
  <2>2. Kept(k, o.tree, o.result)
    BY <1>4, <2>1, KeptAlike
  <2>3. ~Working(k)
    BY <1>3 DEF Working
  <2> QED
    BY <1>3, <1>4, <2>1, <2>2, <2>3 DEF Exact
<1> QED
  BY <1>1, <1>2, <1>3, <1>5, MeanwhileExact

\* Taking away what is not there, and nothing is below it, changes nothing.
LEMMA WithoutNothing ==
  ASSUME NEW t, IsTree(t), NEW p \in Seq(Names), p \notin DOMAIN t
  PROVE  Without(t, p) = t
<1>1. Below(t, p) = {}
  BY TreeAncestors DEF Below
<1>2. t = [q \in DOMAIN t |-> t[q]]
  BY DEF IsTree
<1> QED
  BY <1>1, <1>2 DEF Without

\* removeFile and removeDirectory do what they promise.
LEMMA KeptRemove ==
  ASSUME NEW c, IsTree(c.before), c.from = c.arg[1], c.from \in Seq(Names),
         \/ c.op = "removeFile" /\ Type(c.before, c.from) \in Admitted(c.op)
         \/ c.op = "removeDirectory"
  PROVE  LET o == IF c.op = "removeFile" THEN remove(c.before, c.from)
                  ELSE remove_all(c.before, c.from)
         IN  Kept(c, o.tree, o.result)
<1> DEFINE t == c.before
           p == c.from
           all == remove_all(t, p)
<1>1. Promised(t, c) = Without(t, p)
  BY DEF Promised, Binary
<1>2. all.tree = Without(t, p) /\ all.result = IF p \in DOMAIN t THEN "yes" ELSE "no"
  BY WithoutNothing DEF remove_all, Done
<1>6. ASSUME p \in DOMAIN t PROVE Without(t, p) # t
  <2>1. p \in Below(t, p)
    BY <1>6, PrefixOrder DEF Below
  <2>2. p \notin DOMAIN Without(t, p)
    BY <2>1 DEF Without
  <2> QED
    BY <1>6, <2>2
<1>7. Told(c, Without(t, p)) = IF p \in DOMAIN t THEN "yes" ELSE "no"
  <2>1. Without(t, p) = t <=> p \notin DOMAIN t
    BY <1>6, WithoutNothing
  <2> QED
    BY <2>1 DEF Told
<1> HIDE DEF all
<1>3. Kept(c, all.tree, all.result)
  BY <1>1, <1>2, <1>7 DEF Kept
<1> USE DEF all
<1>4. CASE c.op = "removeDirectory"
  BY <1>3, <1>4
<1>5. CASE c.op = "removeFile"
  <2>1. remove(t, p) = Fails(t) \/ remove(t, p) = all
    BY DEF remove
  <2>2. Kept(c, Fails(t).tree, Fails(t).result)
    BY KeptSame DEF Fails
  <2> QED
    BY <1>3, <1>5, <2>1, <2>2
<1> QED
  BY <1>4, <1>5

\* So does createDirectory,
LEMMA KeptCreate ==
  ASSUME NEW c, c.op = "createDirectory", c.from = c.arg[1],
         Type(c.before, c.from) \in Admitted(c.op)
  PROVE  LET o == create_directory(c.before, c.from) IN Kept(c, o.tree, o.result)
<1> DEFINE t == c.before
           p == c.from
<1>1. ~is_directory(t, p)
  BY DEF Admitted, is_directory
<1>2. \/ create_directory(t, p) = Fails(t)
      \/ p \notin DOMAIN t /\ create_directory(t, p) = Done(Put(t, p, "directory_file"), "yes")
  BY <1>1 DEF create_directory
<1>3. Kept(c, Fails(t).tree, Fails(t).result)
  BY KeptSame DEF Fails
<1>4. Promised(t, c) = Put(t, p, "directory_file")
  BY DEF Promised, Binary
<1>6. p \notin DOMAIN t => Told(c, Put(t, p, "directory_file")) = "yes"
  <2>1. p \in DOMAIN Put(t, p, "directory_file")
    BY DEF Put
  <2> QED
    BY <2>1 DEF Told
<1>5. p \notin DOMAIN t =>
        LET o == Done(Put(t, p, "directory_file"), "yes") IN Kept(c, o.tree, o.result)
  BY <1>4, <1>6 DEF Kept, Done
<1> QED
  BY <1>2, <1>3, <1>5

\* createDirectories,
LEMMA KeptCreateAll ==
  ASSUME NEW c, IsTree(c.before), c.op = "createDirectories", c.from = c.arg[1]
  PROVE  LET o == create_directories(c.before, c.from) IN Kept(c, o.tree, o.result)
<1> DEFINE t == c.before
           p == c.from
           all == {SubSeq(p, 1, n) : n \in 1..Len(p)}
           makes == [q \in all |-> "directory_file"]
           o == create_directories(t, p)
<1>1. Promised(t, c) = Over(t, makes)
  BY DEF Promised, Binary
<1>2. CASE \E q \in all \cap DOMAIN t : ~is_directory(t, q)
  <2>1. o = Fails(t)
    BY <1>2 DEF create_directories
  <2> QED
    BY <2>1, KeptSame DEF Fails
<1>3. CASE ~\E q \in all \cap DOMAIN t : ~is_directory(t, q)
  <2>1. o.tree = Over(makes, t) /\ o.result = IF all \subseteq DOMAIN t THEN "no" ELSE "yes"
    BY <1>3 DEF create_directories, Done
  <2>2. \A q \in all \cap DOMAIN t : t[q] = "directory_file"
    BY <1>3, DirectoryIff
  <2>3. DOMAIN makes = all /\ \A q \in all : makes[q] = "directory_file"
    OBVIOUS
  <2> HIDE DEF all, makes
  <2>4. Over(makes, t) = Over(t, makes)
    BY <2>2, <2>3 DEF Over
  <2>5. Over(t, makes) = t <=> all \subseteq DOMAIN t
    <3>1. DOMAIN Over(t, makes) = DOMAIN t \cup all
      BY <2>3 DEF Over
    <3>2. ASSUME all \subseteq DOMAIN t PROVE Over(t, makes) = t
      <4>1. t = [q \in DOMAIN t |-> t[q]]
        BY DEF IsTree
      <4>2. Over(t, makes) = [q \in DOMAIN t |-> t[q]]
        BY <2>3, <3>2 DEF Over
      <4> QED
        BY <4>1, <4>2
    <3> QED
      BY <3>1, <3>2
  <2>6. Told(c, Over(t, makes)) = IF all \subseteq DOMAIN t THEN "no" ELSE "yes"
    BY <2>5 DEF Told
  <2> HIDE DEF o
  <2> QED
    BY <1>1, <2>1, <2>4, <2>6 DEF Kept, o
<1> QED
  BY <1>2, <1>3

\* writeFile,
LEMMA KeptWrite ==
  ASSUME NEW c, c.op = "writeFile", c.from = c.arg[1], Type(c.before, c.from) \in Admitted(c.op)
  PROVE  LET o == store(c.before, c.from, c.content) IN Kept(c, o.tree, o.result)
<1> DEFINE t == c.before
           p == c.from
<1>1. Type(t, p) # "symlink_file"
  BY DEF Admitted
<1>2. store(t, p, c.content) \in {Fails(t), Done(Put(t, p, c.content), "yes")}
  BY <1>1 DEF store
<1>3. Kept(c, Fails(t).tree, Fails(t).result)
  BY KeptSame DEF Fails
<1>4. Promised(t, c) = Put(t, p, c.content) /\ \A u : Told(c, u) = "yes"
  BY DEF Promised, Binary, Told
<1>5. LET o == Done(Put(t, p, c.content), "yes") IN Kept(c, o.tree, o.result)
  BY <1>4 DEF Kept, Done
<1> QED
  BY <1>2, <1>3, <1>5

\* move, whose destination was looked for,
LEMMA KeptMove ==
  ASSUME NEW c, c.op = "move", c.from = c.arg[1], c.to = Dest(c)
  PROVE  LET o == rename(c.before, c.from, c.to) IN Kept(c, o.tree, o.result)
<1> DEFINE t == c.before
           p == c.from
           q == c.to
           moved == Over(Relocated(t, p, q), Without(t, p))
<1>1. Promised(t, c) = IF p = q THEN t ELSE moved
  BY DEF Promised, Binary, Dest
<1>2. \/ rename(t, p, q) = Fails(t)
      \/ p = q /\ rename(t, p, q) = Done(t, "yes")
      \/ p # q /\ rename(t, p, q) = Done(moved, "yes")
  <2>1. CASE p = q /\ p \in DOMAIN t
    BY <2>1 DEF rename
  <2>2. CASE ~(p = q /\ p \in DOMAIN t)
    <3>1. rename(t, p, q) \in {Fails(t), Done(moved, "yes")}
      BY <2>2 DEF rename
    <3>2. p \notin DOMAIN t => rename(t, p, q) = Fails(t)
      BY <2>2 DEF rename
    <3> QED
      BY <2>2, <3>1, <3>2
  <2> QED
    BY <2>1, <2>2
<1>3. Kept(c, Fails(t).tree, Fails(t).result)
  BY KeptSame DEF Fails
<1> HIDE DEF moved
<1>4. /\ Done(Promised(t, c), "yes").tree = Promised(t, c)
      /\ Done(Promised(t, c), "yes").result = "yes"
  BY DEF Done
<1>5. Kept(c, Promised(t, c), "yes")
  BY DEF Kept, Told
<1> QED
  BY <1>1, <1>2, <1>3, <1>4, <1>5

\* and copyFile, unless it copies a file onto itself.
LEMMA KeptCopyFile ==
  ASSUME NEW c, c.op = "copyFile", c.from = c.arg[1], c.to = Dest(c),
         Type(c.before, c.from) \in Admitted(c.op),
         NEW o \in copy_file(c.before, c.from, c.to, c.content)
  PROVE  Kept(c, o.tree, o.result)
<1> DEFINE t == c.before
           p == c.from
           q == c.to
<1>1. CASE OntoItself(c)
  BY <1>1 DEF Kept
<1>2. CASE ~OntoItself(c)
  <2>1. p # q /\ Type(t, p) = "regular_file"
    BY <1>2 DEF OntoItself, Dest, Admitted
  <2>2. o = store(t, q, t[p])
    BY <2>1 DEF copy_file
  <2>3. Promised(t, c) = IF Type(t, q) = "symlink_file" THEN t ELSE Put(t, q, t[p])
    BY DEF Promised, Binary, Dest
  <2>4. o = Fails(t) \/ o = Done(Promised(t, c), "yes")
    BY <2>2, <2>3 DEF store
  <2>5. Kept(c, Fails(t).tree, Fails(t).result)
    BY KeptSame DEF Fails
  <2>6. /\ Done(Promised(t, c), "yes").tree = Promised(t, c)
        /\ Done(Promised(t, c), "yes").result = "yes"
    BY DEF Done
  <2>7. Kept(c, Promised(t, c), "yes")
    BY DEF Kept, Told
  <2> QED
    BY <2>4, <2>5, <2>6, <2>7
<1> QED
  BY <1>1, <1>2

\* A call starts with the tree it finds.
LEMMA BeginExact ==
  ASSUME IInv, ExactInv, IsTree(tree), NEW th \in Threads, Begin(th)
  PROVE  ExactInv'
<1> DEFINE
     refused(op, from, to) == \/ op = "copyFile" /\ from = to
                              \/ Type(tree, from) \notin Admitted(op)
     first(op, from, to) ==
       IF refused(op, from, to) \/ op = "exists" THEN "returned"
       ELSE IF op \in Binary \cup {"createDirectory"} THEN "look" ELSE "act"
     result(op, from, to) ==
       IF refused(op, from, to) THEN "throws" ELSE IF from \in DOMAIN tree THEN "yes" ELSE "no"
     started(op, from, to, content) ==
       [op |-> op, arg |-> <<from, to>>, from |-> from, to |-> to,
        content |-> content, open |-> <<>>, before |-> tree, alone |-> TRUE,
        pc |-> first(op, from, to), result |-> result(op, from, to)]
<1>1. PICK op \in Operations, from \in Arguments, to \in Arguments, content \in Contents :
        /\ op \in Binary \/ to = from
        /\ call' = [call EXCEPT ![th] = started(op, from, to, content)]
  BY ZenonT(60) DEF Begin
<1> DEFINE pc == first(op, from, to)
           res == result(op, from, to)
           c == started(op, from, to, content)
<1>2. from \in Seq(Names) \ {Root} /\ to \in Seq(Names) \ {Root}
  BY PathSeq, FileTreeAssumption
<1>3. /\ c.op = op /\ c.arg[1] = from /\ c.arg[2] = to /\ c.from = from /\ c.to = to
      /\ c.open = <<>> /\ c.before = tree /\ c.pc = pc /\ c.result = res
      /\ Fields \subseteq DOMAIN c
  BY DEF Fields
<1>4. /\ pc \in {"returned", "look", "act"}
      /\ pc # "returned" => op # "exists" /\ Type(tree, from) \in Admitted(op)
      /\ pc = "act" => op \notin Binary
      /\ pc = "returned" => res = "throws" \/ op = "exists"
      /\ res \in {"throws", IF from \in DOMAIN tree THEN "yes" ELSE "no"}
  OBVIOUS
<1> HIDE DEF pc, res, c, first, result, refused, started
<1>5. ASSUME pc # "returned" PROVE StartInv(c, tree)
  <2>1. op = "move" =>
          /\ c.to = Deep(c.arg[2], Name(c.from), 0) /\ c.pc # "act"
          /\ \A i \in 0..(0 - 1) : is_directory(tree, Deep(c.arg[2], Name(c.from), i))
    BY <1>2, <1>3, <1>4, <1>5, ParentName, DeepNext DEF Binary
  <2>2. op \in {"copyFile", "copyDirectory"} => pc = "look"
    BY <1>4, <1>5 DEF Binary
  <2> QED
    BY <1>3, <1>4, <1>5, <2>1, <2>2 DEF StartInv
<1>6. ASSUME pc = "returned" PROVE Kept(c, tree, res)
  <2>1. CASE res = "throws"
    BY <1>3, <2>1, KeptSame
  <2>2. CASE op = "exists" /\ res # "throws"
    <3>1. Promised(tree, c) = tree /\ Told(c, tree) = res
      BY <1>3, <1>4, <2>2 DEF Promised, Told
    <3> QED
      BY <1>3, <2>2, <3>1 DEF Kept
  <2> QED
    BY <1>4, <1>6, <2>1, <2>2
<1>7. Exact(c, tree)
  BY <1>3, <1>4, <1>5, <1>6 DEF Exact, Working
<1>8. /\ call'[th] = c /\ tree' = tree
      /\ \A u \in Threads \ {th} : call'[u] = call[u]
  BY <1>1 DEF IInv, Begin, c
<1>9. ASSUME NEW u \in Threads, call'[u] # Idle
      PROVE  /\ Fields \subseteq DOMAIN call'[u]
             /\ call'[u].alone => Exact(call'[u], tree)
  BY <1>3, <1>7, <1>8, <1>9 DEF ExactInv
<1> QED
  BY <1>8, <1>9 DEF ExactInv

\* It looks where its destination leads, and a directory that is entered leads to
\* where nothing is.
LEMMA LookExact ==
  ASSUME IInv, ExactInv, IsTree(tree), NEW th \in Threads, Look(th)
  PROVE  ExactInv'
<1> DEFINE c == call[th]
           into == [c EXCEPT !.to = Append(@, Name(c.from))]
           away == [c EXCEPT !.pc = "act"]
           in   == [into EXCEPT !.pc = "act"]
<1>1. c.pc = "look" /\ Working(c)
  BY DEF Look, Working
<1>2. Bound(c) /\ Fields \subseteq DOMAIN c /\ (c.alone => Exact(c, tree))
  BY <1>1, WorkingExact
<1>3. /\ c.arg[1] \in Seq(Names) \ {Root} /\ c.arg[2] \in Seq(Names) \ {Root}
      /\ c.from \in Seq(Names) \ {Root} /\ c.to \in Seq(Names) \ {Root}
  BY <1>2, BoundPaths
<1>4. Name(c.from) \in Names
  BY <1>3, ParentName
<1>5. /\ DOMAIN into = DOMAIN c /\ into.to = Append(c.to, Name(c.from))
      /\ \A f \in DOMAIN c \ {"to"} : into[f] = c[f]
      /\ DOMAIN away = DOMAIN c /\ away.pc = "act"
      /\ \A f \in DOMAIN c \ {"pc"} : away[f] = c[f]
      /\ DOMAIN in = DOMAIN c /\ in.to = Append(c.to, Name(c.from)) /\ in.pc = "act"
      /\ \A f \in DOMAIN c \ {"to", "pc"} : in[f] = c[f]
  BY <1>2 DEF Fields
<1>6. \/ c.op = "createDirectory" /\ Return(th, Fails(tree))
      \/ (c.op = "createDirectory" \/ ~is_directory(tree, c.to)) /\ Continue(th, away)
      \/ is_directory(tree, c.to) /\ c.op = "move" /\ Continue(th, into)
      \/ is_directory(tree, c.to) /\ c.op # "move" /\ Continue(th, in)
  BY DEF Look
<1> HIDE DEF c, into, away, in
<1>7. ASSUME NEW k, k \in {into, away, in}, Continue(th, k), Exact(c, tree) => Exact(k, tree)
      PROVE  ExactInv'
  <2>1. Fields \subseteq DOMAIN k /\ k.alone = c.alone
    BY <1>2, <1>5, <1>7 DEF Fields
  <2>2. Meanwhile(th, k, tree)
    BY <1>7 DEF Continue
  <2> QED
    BY <1>2, <1>7, <2>1, <2>2, MeanwhileExact
<1>8. ASSUME NEW k \in {into, away, in}
      PROVE  /\ k.op = c.op /\ k.arg = c.arg /\ k.from = c.from /\ k.before = c.before
             /\ k.open = c.open /\ Dest(k) = Dest(c) /\ Working(k)
  <2>1. /\ k.op = c.op /\ k.arg = c.arg /\ k.from = c.from /\ k.before = c.before
        /\ k.open = c.open /\ k.pc \in {"look", "act"}
    BY <1>1, <1>2, <1>5 DEF Fields
  <2> QED
    BY <2>1 DEF Dest, Working
<1>9. CASE c.op = "createDirectory" /\ Return(th, Fails(tree))
  <2>1. ASSUME Exact(c, tree) PROVE Kept(c, tree, "throws")
    <3>1. c.open = <<>>
      BY <1>9, <2>1, <1>1 DEF Exact
    <3>2. StartInv(c, tree)
      BY <1>1, <2>1, <3>1 DEF Exact
    <3> QED
      BY <3>2, KeptSame DEF StartInv
  <2>2. Fails(tree).tree = tree /\ Fails(tree).result = "throws"
    BY DEF Fails
  <2> QED
    BY <1>1, <1>9, <2>1, <2>2, ReturnExact DEF c
\* With nothing entered yet.
<1>10. ASSUME c.open = <<>>, Exact(c, tree)
       PROVE  /\ c.op = "createDirectory" \/ ~is_directory(tree, c.to) => Exact(away, tree)
              /\ is_directory(tree, c.to) /\ c.op = "move" => Exact(into, tree)
              /\ is_directory(tree, c.to) /\ c.op # "move" => Exact(in, tree)
  <2>1. StartInv(c, tree) /\ IsTree(c.before) /\ tree = c.before /\ c.op # "exists"
    BY <1>1, <1>10 DEF Exact, StartInv
  <2>2. ASSUME NEW k \in {into, away, in}, StartInv(k, tree) PROVE Exact(k, tree)
    <3>1. k.open = <<>> /\ IsTree(k.before) /\ Working(k) /\ k.pc # "returned"
      BY <1>8, <1>10, <2>1 DEF Working
    <3> QED
      BY <2>2, <3>1 DEF Exact
  <2>3. ASSUME c.op = "move"
        PROVE  \E n \in Nat :
                 /\ c.to = Deep(c.arg[2], Name(c.from), n)
                 /\ \A i \in 0..(n - 1) : is_directory(tree, Deep(c.arg[2], Name(c.from), i))
    BY <2>1, <2>3 DEF StartInv
  <2>4. c.op \in {"copyFile", "copyDirectory"} =>
          /\ c.to = c.arg[2]
          /\ Dest(c) = IF is_directory(tree, c.to) THEN Append(c.to, Name(c.from)) ELSE c.to
    <3>1. c.op \in {"copyFile", "copyDirectory"} => c.to = c.arg[2] /\ c.from = c.arg[1]
      BY <1>1, <2>1 DEF StartInv
    <3>2. ASSUME c.op \in {"copyFile", "copyDirectory"}
          PROVE  Dest(c) = IF is_directory(c.before, c.arg[2])
                           THEN Append(c.arg[2], Name(c.arg[1])) ELSE c.arg[2]
      BY <1>3, <3>2, DestCopy
    <3> QED
      BY <2>1, <3>1, <3>2
  <2>5. ASSUME c.op = "createDirectory" \/ ~is_directory(tree, c.to) PROVE StartInv(away, tree)
    <3>1. away.to = c.to /\ away.pc = "act"
      BY <1>2, <1>5 DEF Fields
    <3>2. away.op = "createDirectory" \/ ~is_directory(tree, away.to)
      BY <1>8, <2>5, <3>1
    <3>3. away.op = "move" => \E n \in Nat :
            /\ away.to = Deep(away.arg[2], Name(away.from), n)
            /\ \A i \in 0..(n - 1) : is_directory(tree, Deep(away.arg[2], Name(away.from), i))
            /\ away.pc = "act" => ~is_directory(tree, away.to)
      BY <1>8, <2>3, <3>1, <3>2
    <3>4. away.op \in {"copyFile", "copyDirectory"} => away.to = Dest(away)
      BY <1>8, <2>4, <3>1, <3>2
    <3> QED
      BY <1>8, <2>1, <3>1, <3>3, <3>4 DEF StartInv
  <2>6. ASSUME is_directory(tree, c.to), c.op = "move" PROVE StartInv(into, tree)
    <3>1. into.to = Append(c.to, Name(c.from)) /\ into.pc = "look"
      BY <1>1, <1>2, <1>5 DEF Fields
    <3>2. PICK n \in Nat :
            /\ c.to = Deep(c.arg[2], Name(c.from), n)
            /\ \A i \in 0..(n - 1) : is_directory(tree, Deep(c.arg[2], Name(c.from), i))
      BY <2>3, <2>6
    <3>3. Append(c.to, Name(c.from)) = Deep(c.arg[2], Name(c.from), n + 1)
      <4> DEFINE p == c.arg[2]
                 x == Name(c.from)
      <4>1. p \in Seq(Names) /\ x \in Names /\ c.to = Deep(p, x, n)
        BY <1>3, <1>4, <3>2
      <4> HIDE DEF p, x
      <4>2. Deep(p, x, n + 1) = Append(Deep(p, x, n), x)
        BY <4>1, DeepNext
      <4> QED
        BY <4>1, <4>2 DEF p, x
    <3>4. \A i \in 0..((n + 1) - 1) : is_directory(tree, Deep(c.arg[2], Name(c.from), i))
      <4>1. \A i \in 0..((n + 1) - 1) : i \in 0..(n - 1) \/ i = n
        OBVIOUS
      <4> QED
        BY <2>6, <3>2, <4>1
    <3>5. n + 1 \in Nat
      OBVIOUS
    <3>6. \E i \in Nat :
            /\ into.to = Deep(into.arg[2], Name(into.from), i)
            /\ \A j \in 0..(i - 1) : is_directory(tree, Deep(into.arg[2], Name(into.from), j))
            /\ into.pc = "act" => ~is_directory(tree, into.to)
      BY <1>8, <3>1, <3>3, <3>4, <3>5
    <3> QED
      BY <1>8, <2>1, <2>6, <3>6 DEF StartInv
  <2>7. ASSUME is_directory(tree, c.to), c.op # "move" PROVE StartInv(in, tree)
    <3>1. in.to = Append(c.to, Name(c.from)) /\ in.pc = "act"
      BY <1>5
    <3>2. in.op \in {"copyFile", "copyDirectory"} => in.to = Dest(in)
      BY <1>8, <2>4, <2>7, <3>1
    <3> QED
      BY <1>8, <2>1, <2>7, <3>1, <3>2 DEF StartInv
  <2> QED
    BY <2>2, <2>5, <2>6, <2>7
\* With a directory entered.
<1>11. ASSUME c.open # <<>>, Exact(c, tree)
       PROVE  ~is_directory(tree, c.to) /\ c.op = "copyDirectory" /\ Exact(away, tree)
  <2>1. c.op = "copyDirectory" /\ Copies(c, tree) /\ IsTree(c.before)
    BY <1>1, <1>11 DEF Exact
  <2>2. PICK n \in Names :
          /\ n \in Last(c.open).seen
          /\ c.from = Entry(c.open, n) /\ c.to = Moved(c.from, c.arg[1], Dest(c))
          /\ is_directory(tree, c.from)
          /\ Copying(c.before, c.arg[1], Dest(c), c.open,
                     Froms(c.open) \cup {Entry(c.open, n)}, tree)
    BY <1>1, <2>1 DEF Copies
  <2>3. Dest(c) \in Seq(Names)
    BY <1>3, <2>1, DestCopy
  <2>4. c.to \notin DOMAIN tree
    <3> DEFINE a == Froms(c.open) \cup {Entry(c.open, n)}
               d == Dest(c)
               e == Entry(c.open, n)
    <3>1. /\ Froms(c.open) \subseteq a /\ e \in a /\ c.to = Moved(e, c.arg[1], d)
          /\ Copying(c.before, c.arg[1], d, c.open, a, tree) /\ d \in Seq(Names)
      BY <2>2, <2>3
    <3> HIDE DEF a, d
    <3>2. Moved(e, c.arg[1], d) \notin DOMAIN tree
      BY <1>3, <2>1, <3>1, CopyingNew
    <3> QED
      BY <3>1, <3>2
  <2>5. ~is_directory(tree, c.to)
    BY <2>4, DirectoryThere
  <2>6. away.to = c.to /\ away.pc = "act"
    BY <1>2, <1>5 DEF Fields
  <2>7. Copies(away, tree)
    BY <1>8, <2>2, <2>6 DEF Copies
  <2>8. Exact(away, tree)
    BY <1>8, <1>11, <2>1, <2>6, <2>7 DEF Exact
  <2> QED
    BY <2>1, <2>5, <2>8
<1>12. CASE (c.op = "createDirectory" \/ ~is_directory(tree, c.to)) /\ Continue(th, away)
  BY <1>7, <1>10, <1>11, <1>12
<1>13. CASE is_directory(tree, c.to) /\ c.op = "move" /\ Continue(th, into)
  BY <1>7, <1>10, <1>11, <1>13
<1>14. CASE is_directory(tree, c.to) /\ c.op # "move" /\ Continue(th, in)
  BY <1>7, <1>10, <1>11, <1>14
<1> QED
  BY <1>6, <1>9, <1>12, <1>13, <1>14

\* The call of the operating system does what the call promises, or starts or goes on
\* with a copy.
LEMMA ActExact ==
  ASSUME IInv, ExactInv, IsTree(tree), NEW th \in Threads, Act(th)
  PROVE  ExactInv'
<1> DEFINE c == call[th]
<1>1. c.pc = "act" /\ Working(c)
  BY DEF Act, Working
<1>2. Bound(c) /\ Fields \subseteq DOMAIN c /\ (c.alone => Exact(c, tree))
  BY <1>1, WorkingExact
<1>3. /\ c.arg[1] \in Seq(Names) \ {Root} /\ c.arg[2] \in Seq(Names) \ {Root}
      /\ c.from \in Seq(Names) \ {Root} /\ c.to \in Seq(Names) \ {Root}
      /\ c.op \in Operations \ {"exists"}
  BY <1>2, BoundPaths DEF Bound
<1>4. ASSUME NEW o, Return(th, o), Exact(c, tree) => Kept(c, o.tree, o.result)
      PROVE  ExactInv'
  BY <1>1, <1>4, ReturnExact
\* A call that has not begun to copy a directory.
<1>5. ASSUME Exact(c, tree), c.op # "copyDirectory"
      PROVE  /\ tree = c.before /\ IsTree(c.before) /\ c.from = c.arg[1]
             /\ Type(c.before, c.from) \in Admitted(c.op)
             /\ c.op \in {"move", "copyFile"} => c.to = Dest(c)
  <2>1. c.open = <<>> /\ IsTree(c.before)
    BY <1>1, <1>5 DEF Exact
  <2>2. StartInv(c, tree)
    BY <1>1, <1>5, <2>1 DEF Exact
  <2>3. c.op = "copyFile" => c.to = Dest(c)
    BY <1>1, <2>2 DEF StartInv
  <2>4. ASSUME c.op = "move" PROVE c.to = Dest(c)
    <3>1. PICK n \in Nat :
            /\ c.to = Deep(c.arg[2], Name(c.from), n)
            /\ \A i \in 0..(n - 1) : is_directory(tree, Deep(c.arg[2], Name(c.from), i))
            /\ ~is_directory(tree, c.to)
      BY <1>1, <2>2, <2>4 DEF StartInv
    <3>2. c.from = c.arg[1] /\ tree = c.before
      BY <2>2 DEF StartInv
    <3>3. PICK p \in Seq(Names) \ {Root}, q \in Seq(Names) \ {Root} :
            p = c.arg[1] /\ q = c.arg[2]
      BY <1>3
    <3>4. /\ c.to = Deep(q, Name(p), n) /\ ~is_directory(tree, Deep(q, Name(p), n))
          /\ \A i \in 0..(n - 1) : is_directory(tree, Deep(q, Name(p), i))
      BY <3>1, <3>2, <3>3
    <3>5. Lands(tree, "move", p, q) = Deep(q, Name(p), n)
      BY <3>4, LandsMove
    <3> QED
      BY <2>4, <3>2, <3>3, <3>4, <3>5 DEF Dest
  <2> QED
    BY <2>1, <2>2, <2>3, <2>4 DEF StartInv
<1> HIDE DEF c
<1>6. CASE c.op \in {"removeFile", "removeDirectory"}
  <2> DEFINE o == IF c.op = "removeFile" THEN remove(tree, c.from) ELSE remove_all(tree, c.from)
  <2>1. Return(th, o)
    BY <1>6 DEF Act, c
  <2>2. ASSUME Exact(c, tree) PROVE Kept(c, o.tree, o.result)
    <3>1. LET x == IF c.op = "removeFile" THEN remove(c.before, c.from)
                   ELSE remove_all(c.before, c.from)
          IN  Kept(c, x.tree, x.result)
      BY <1>3, <1>5, <1>6, <2>2, KeptRemove
    <3> QED
      BY <1>5, <1>6, <2>2, <3>1
  <2> QED
    BY <1>4, <2>1, <2>2
<1>7. CASE c.op = "createDirectory"
  <2>1. Return(th, create_directory(tree, c.from))
    BY <1>7 DEF Act, c
  <2>2. Exact(c, tree) => LET o == create_directory(c.before, c.from) IN Kept(c, o.tree, o.result)
    BY <1>5, <1>7, KeptCreate
  <2> QED
    BY <1>4, <1>5, <1>7, <2>1, <2>2
<1>8. CASE c.op = "createDirectories"
  <2>1. Return(th, create_directories(tree, c.from))
    BY <1>8 DEF Act, c
  <2>2. Exact(c, tree) => LET o == create_directories(c.before, c.from) IN Kept(c, o.tree, o.result)
    BY <1>5, <1>8, KeptCreateAll
  <2> QED
    BY <1>4, <1>5, <1>8, <2>1, <2>2
<1>9. CASE c.op = "writeFile"
  <2>1. Return(th, store(tree, c.from, c.content))
    BY <1>9 DEF Act, c
  <2>2. Exact(c, tree) => LET o == store(c.before, c.from, c.content) IN Kept(c, o.tree, o.result)
    BY <1>5, <1>9, KeptWrite
  <2> QED
    BY <1>4, <1>5, <1>9, <2>1, <2>2
<1>10. CASE c.op = "move"
  <2>1. Return(th, rename(tree, c.from, c.to))
    BY <1>10 DEF Act, c
  <2>2. Exact(c, tree) => LET o == rename(c.before, c.from, c.to) IN Kept(c, o.tree, o.result)
    BY <1>5, <1>10, KeptMove
  <2> QED
    BY <1>4, <1>5, <1>10, <2>1, <2>2
<1>11. CASE c.op = "copyFile"
  <2>1. PICK o \in copy_file(tree, c.from, c.to, c.content) : Return(th, o)
    BY <1>11 DEF Act, c
  <2>2. Exact(c, tree) => Kept(c, o.tree, o.result)
    BY <1>5, <1>11, <2>1, KeptCopyFile
  <2> QED
    BY <1>4, <2>1, <2>2
<1>12. CASE c.op = "copyDirectory"
  <2> DEFINE o == create_directory(tree, c.to)
             k == [c EXCEPT !.pc = "copy", !.open = Push(@, c.from, c.to)]
  <2>1. \/ Return(th, Fails(tree))
        \/ o.result = "yes" /\ is_directory(tree, c.from) /\ Meanwhile(th, k, o.tree)
    BY <1>12 DEF Act, c, Push
  <2>2. /\ DOMAIN k = DOMAIN c /\ k.pc = "copy" /\ k.open = Push(c.open, c.from, c.to)
        /\ \A f \in DOMAIN c \ {"pc", "open"} : k[f] = c[f]
    BY <1>2 DEF Fields
  <2> HIDE DEF k
  <2>3. /\ k.op = c.op /\ k.arg = c.arg /\ k.before = c.before /\ k.alone = c.alone
        /\ Fields \subseteq DOMAIN k /\ Dest(k) = Dest(c)
    BY <1>2, <2>2 DEF Fields, Dest
  <2>4. PICK f \in Seq(Names) \ {Root}, d \in Seq(Names) \ {Root} : f = c.arg[1] /\ d = Dest(c)
    BY <1>3, <1>12, DestCopy
  \* What the step finds when it begins, or goes on with, a copy.
  <2>5. ASSUME Exact(c, tree), c.open = <<>>
        PROVE  tree = c.before /\ IsTree(c.before) /\ c.from = f /\ c.to = d
    <3>1. StartInv(c, tree) /\ IsTree(c.before)
      BY <1>1, <2>5 DEF Exact
    <3> QED
      BY <1>1, <1>12, <2>4, <3>1 DEF StartInv
  <2>6. ASSUME Exact(c, tree), c.open # <<>>
        PROVE  /\ IsTree(c.before)
               /\ \E n \in Names :
                    /\ n \in Last(c.open).seen
                    /\ c.from = Entry(c.open, n) /\ c.to = Moved(c.from, f, d)
                    /\ is_directory(tree, c.from)
                    /\ Copying(c.before, f, d, c.open,
                               Froms(c.open) \cup {Entry(c.open, n)}, tree)
    <3>1. Copies(c, tree) /\ IsTree(c.before) /\ c.pc = "act"
      BY <1>1, <2>6 DEF Exact
    <3> QED
      BY <2>4, <3>1 DEF Copies
  <2>7. CASE Return(th, Fails(tree))
    <3>1. ASSUME Exact(c, tree) PROVE Kept(c, tree, "throws")
      <4>1. CASE c.open = <<>>
        BY <2>5, <3>1, <4>1, KeptSame
      <4>2. CASE c.open # <<>>
        <5>1. PICK a : Copying(c.before, f, d, c.open, a, tree)
          BY <2>6, <3>1, <4>2
        <5> QED
          BY <1>12, <2>4, <5>1, FrameKept DEF Copying
      <4> QED
        BY <4>1, <4>2
    <3>2. Fails(tree).tree = tree /\ Fails(tree).result = "throws"
      BY DEF Fails
    <3> QED
      BY <1>4, <2>7, <3>1, <3>2
  <2>8. CASE o.result = "yes" /\ is_directory(tree, c.from) /\ Meanwhile(th, k, o.tree)
    <3>1. c.to \notin DOMAIN tree /\ o.tree = Put(tree, c.to, "directory_file")
      BY <2>8 DEF create_directory, Done, Fails
    <3>2. ASSUME Exact(c, tree)
          PROVE  /\ Copying(c.before, f, d, k.open, Froms(k.open), o.tree)
                 /\ k.open # <<>>
      <4>1. CASE c.open = <<>>
        <5>1. tree = c.before /\ c.from = f /\ c.to = d
          BY <2>5, <3>2, <4>1
        <5>2. k.open = <<[from |-> f, to |-> d, seen |-> {}]>>
          BY <2>2, <4>1, <5>1 DEF Push
        <5>3. Copying(c.before, f, d, k.open, Froms(k.open), o.tree)
          BY <2>8, <3>1, <5>1, <5>2, CopyingStart
        <5> QED
          BY <5>2, <5>3
      <4>2. CASE c.open # <<>>
        <5>1. PICK n \in Names :
                    /\ n \in Last(c.open).seen
                    /\ c.from = Entry(c.open, n) /\ c.to = Moved(c.from, f, d)
                    /\ is_directory(tree, c.from)
                    /\ Copying(c.before, f, d, c.open,
                               Froms(c.open) \cup {Entry(c.open, n)}, tree)
          BY <2>6, <3>2, <4>2
        <5>2. IsTree(c.before)
          BY <2>6, <3>2, <4>2
        <5>3. LET x == Moved(Entry(c.open, n), f, d)
                  r == Push(c.open, Entry(c.open, n), x)
              IN  /\ Copying(c.before, f, d, r, Froms(r), Put(tree, x, "directory_file"))
                  /\ r # <<>>
          BY <5>1, <5>2, CopyingMade
        <5> QED
          BY <2>2, <3>1, <5>1, <5>3
      <4> QED
        BY <4>1, <4>2
    <3>3. ASSUME k.alone PROVE Exact(k, o.tree)
      <4>1. Exact(c, tree)
        BY <1>2, <2>3, <3>3
      <4>2. Copies(k, o.tree) /\ k.open # <<>>
        BY <2>2, <2>3, <2>4, <3>2, <4>1 DEF Copies
      <4>3. IsTree(k.before) /\ k.pc = "copy"
        BY <2>2, <2>3, <4>1 DEF Exact
      <4> QED
        BY <1>12, <2>3, <4>2, <4>3 DEF Exact
    <3> QED
      BY <2>3, <2>8, <3>3, MeanwhileExact
  <2> QED
    BY <2>1, <2>7, <2>8
<1> QED
  BY <1>3, <1>6, <1>7, <1>8, <1>9, <1>10, <1>11, <1>12 DEF Operations

\* An entry leads to where what lies there is to be copied.
LEMMA EntryMoved ==
  ASSUME NEW f \in Seq(Names), NEW d \in Seq(Names), NEW s, NEW t, Stack(s, f, d, t),
         NEW n \in Names
  PROVE  /\ Append(Last(s).to, n) = Moved(Entry(s, n), f, d)
         /\ Name(Entry(s, n)) = n
<1>1. PICK g \in Seq(Names) :
        g = Last(s).from /\ IsPrefix(f, g) /\ Last(s).to = Moved(g, f, d)
  BY StackLast
<1>2. Moved(Append(g, n), f, d) = Append(Moved(g, f, d), n)
  BY <1>1, MovedEntry
<1>3. Name(Append(g, n)) = n
  BY ParentAppend
<1> QED
  BY <1>1, <1>2, <1>3 DEF Entry

\* What a step leaves of the invariant that goes on with a copy.
LEMMA CopiesExact ==
  ASSUME IInv, ExactInv, NEW th \in Threads, Working(call[th]),
         call[th].op = "copyDirectory", call[th].open # <<>>,
         NEW k, k.op = call[th].op, k.arg = call[th].arg, k.before = call[th].before,
         k.alone = call[th].alone, Fields \subseteq DOMAIN k, Working(k), k.open # <<>>,
         NEW t, Meanwhile(th, k, t),
         Exact(call[th], tree) => Copies(k, t)
  PROVE  ExactInv'
<1>1. ASSUME k.alone PROVE Exact(k, t)
  <2>1. Exact(call[th], tree)
    BY <1>1, WorkingExact
  <2>2. IsTree(k.before) /\ Copies(k, t)
    BY <2>1 DEF Exact
  <2> QED
    BY <2>2 DEF Exact, Working
<1> QED
  BY <1>1, MeanwhileExact

\* A step of a copy goes on with it, or ends it when all is copied.
LEMMA CopyExact ==
  ASSUME IInv, ExactInv, IsTree(tree), NEW th \in Threads, Copy(th)
  PROVE  ExactInv'
<1> DEFINE c == call[th]
           s == c.open
           left == {n \in Names \ Last(s).seen : Entry(s, n) \in DOMAIN tree}
           pop == [c EXCEPT !.open = Front(@)]
           into(n) == Append(Last(s).to, n)
           next(n) == [c EXCEPT !.from = Entry(s, n), !.to = into(n)]
           in(n) == [Seen(next(n), n) EXCEPT !.pc = "look"]
           on(n) == [next(n) EXCEPT !.pc = "entry"]
<1>1. c.pc = "copy" /\ Working(c)
  BY DEF Copy, Working
<1>2. Bound(c) /\ Fields \subseteq DOMAIN c /\ (c.alone => Exact(c, tree))
  BY <1>1, WorkingExact
<1>3. c.op = "copyDirectory" /\ s # <<>>
  BY <1>1, <1>2 DEF Bound
<1>4. c.arg[1] \in Seq(Names) \ {Root} /\ c.arg[2] \in Seq(Names) \ {Root}
  BY <1>2, BoundPaths
<1>5. \/ left = {} /\ Len(s) = 1 /\ Return(th, Done(tree, "yes"))
      \/ left = {} /\ Len(s) # 1 /\ Continue(th, pop)
      \/ \E n \in left :
           \/ is_directory(tree, Entry(s, n)) /\ Continue(th, in(n))
           \/ ~is_directory(tree, Entry(s, n)) /\ Continue(th, on(n))
  BY DEF Copy, Entry
<1>6. /\ DOMAIN pop = DOMAIN c /\ pop.open = Front(s)
      /\ \A g \in DOMAIN c \ {"open"} : pop[g] = c[g]
  BY <1>2 DEF Fields
<1>7. ASSUME NEW n
      PROVE  /\ DOMAIN next(n) = DOMAIN c /\ next(n).open = s
             /\ next(n).from = Entry(s, n) /\ next(n).to = into(n)
             /\ \A g \in DOMAIN c \ {"from", "to"} : next(n)[g] = c[g]
  BY <1>2 DEF Fields
<1> HIDE DEF next
<1>8. ASSUME NEW n
      PROVE  /\ DOMAIN Seen(next(n), n) = DOMAIN c /\ Seen(next(n), n).open = See(s, n)
             /\ \A g \in DOMAIN c \ {"open"} : Seen(next(n), n)[g] = next(n)[g]
  BY <1>2, <1>7 DEF Fields, Seen, See
<1>9. ASSUME NEW n
      PROVE  /\ in(n).op = c.op /\ in(n).arg = c.arg /\ in(n).before = c.before
             /\ in(n).alone = c.alone /\ in(n).pc = "look" /\ in(n).open = See(s, n)
             /\ in(n).from = Entry(s, n) /\ in(n).to = into(n) /\ Fields \subseteq DOMAIN in(n)
  BY <1>2, <1>7, <1>8 DEF Fields
<1>10. ASSUME NEW n
       PROVE  /\ on(n).op = c.op /\ on(n).arg = c.arg /\ on(n).before = c.before
              /\ on(n).alone = c.alone /\ on(n).pc = "entry" /\ on(n).open = s
              /\ on(n).from = Entry(s, n) /\ on(n).to = into(n) /\ Fields \subseteq DOMAIN on(n)
  BY <1>2, <1>7 DEF Fields
<1>11. /\ pop.op = c.op /\ pop.arg = c.arg /\ pop.before = c.before /\ pop.alone = c.alone
       /\ pop.pc = "copy" /\ Fields \subseteq DOMAIN pop /\ Dest(pop) = Dest(c)
  BY <1>1, <1>2, <1>6 DEF Fields, Dest
<1> HIDE DEF pop, in, on
<1>12. PICK f \in Seq(Names) \ {Root}, d \in Seq(Names) \ {Root} : f = c.arg[1] /\ d = Dest(c)
  BY <1>3, <1>4, DestCopy
<1>13. ASSUME Exact(c, tree)
       PROVE  /\ IsTree(c.before) /\ Copying(c.before, f, d, s, Froms(s), tree)
              /\ Stack(s, f, d, tree)
  <2>1. Copies(c, tree) /\ IsTree(c.before)
    BY <1>1, <1>3, <1>13 DEF Exact
  <2> QED
    BY <1>1, <1>12, <2>1 DEF Copies, Copying
<1> HIDE DEF s
<1>14. CASE left = {} /\ Len(s) = 1 /\ Return(th, Done(tree, "yes"))
  <2>1. \A n \in Names : Entry(s, n) \in DOMAIN tree => n \in Last(s).seen
    BY <1>14
  <2> HIDE DEF c
  <2>2. ASSUME Exact(c, tree) PROVE Kept(c, tree, "yes")
    <3>1. tree = Over(c.before, Copied(c.before, f, d))
      BY <1>13, <1>14, <2>1, <2>2, CopyingDone
    <3>2. Promised(c.before, c) = Over(c.before, Copied(c.before, f, d))
      BY <1>3, <1>12 DEF Promised, Binary, Dest
    <3>3. Told(c, tree) = "yes"
      BY <1>3 DEF Told
    <3> QED
      BY <3>1, <3>2, <3>3 DEF Kept
  <2>3. Done(tree, "yes").tree = tree /\ Done(tree, "yes").result = "yes"
    BY DEF Done
  <2> QED
    BY <1>1, <1>14, <2>2, <2>3, ReturnExact DEF c
<1>15. CASE left = {} /\ Len(s) # 1 /\ Continue(th, pop)
  <2>1. \A n \in Names : Entry(s, n) \in DOMAIN tree => n \in Last(s).seen
    BY <1>15
  <2> HIDE DEF c
  <2>2. Front(s) # <<>>
    <3>1. s \in Seq(Dirs(c.arg[2])) /\ s # <<>>
      BY <1>2, <1>3 DEF Bound, s, c
    <3> QED
      BY <1>15, <3>1, FrontSeq
  <2>3. ASSUME Exact(c, tree) PROVE Copies(pop, tree)
    <3>1. d # f
      BY <1>13, <2>3, DirectoryThere DEF Copying, Frame
    <3>2. Copying(c.before, f, d, Front(s), Froms(Front(s)), tree)
      BY <1>13, <1>15, <2>1, <2>3, <3>1, CopyingPop
    <3> QED
      BY <1>6, <1>11, <1>12, <3>2 DEF Copies
  <2>4. Meanwhile(th, pop, tree) /\ Working(pop) /\ pop.open # <<>>
    BY <1>6, <1>11, <1>15, <2>2 DEF Continue, Working
  <2> QED
    BY <1>1, <1>3, <1>11, <2>3, <2>4, CopiesExact DEF c, s
<1>16. ASSUME NEW n \in left, Exact(c, tree)
       PROVE  into(n) = Moved(Entry(s, n), f, d)
  <2>1. n \in Names
    OBVIOUS
  <2> HIDE DEF left
  <2> QED
    BY <1>13, <1>16, <2>1, EntryMoved
<1> HIDE DEF into
<1>17. ASSUME NEW n \in left, is_directory(tree, Entry(s, n)), Continue(th, in(n))
       PROVE  ExactInv'
  <2> DEFINE k == in(n)
  <2>1. n \in Names /\ n \notin Last(s).seen
    OBVIOUS
  <2>2. Dest(k) = Dest(c)
    BY <1>9 DEF Dest
  <2>3. ASSUME Exact(c, tree) PROVE Copies(k, tree)
    <3>1. Copying(c.before, f, d, See(s, n), Froms(See(s, n)) \cup {Entry(s, n)}, tree)
      BY <1>13, <2>1, <2>3, CopyingEnter
    <3>2. /\ Last(See(s, n)).from = Last(s).from /\ n \in Last(See(s, n)).seen
      BY <1>13, <2>1, <2>3, SeeStack
    <3>3. Entry(See(s, n), n) = Entry(s, n)
      BY <3>2 DEF Entry
    <3>4. k.to = Moved(Entry(s, n), f, d)
      BY <1>9, <1>16, <2>3
    <3>5. k.pc = "look" /\ k.open = See(s, n) /\ k.from = Entry(s, n)
          /\ k.arg[1] = f /\ k.before = c.before
      BY <1>9, <1>12
    <3> HIDE DEF k, left
    <3> QED
      BY <1>12, <1>17, <2>1, <2>2, <3>1, <3>2, <3>3, <3>4, <3>5 DEF Copies
  <2>4. k.open # <<>>
    <3>1. See(s, n) # <<>>
      <4>1. s \in Seq(Dirs(c.arg[2])) /\ s # <<>>
        BY <1>2, <1>3 DEF Bound, s
      <4> HIDE DEF c
      <4> QED
        BY <4>1 DEF See
    <3> QED
      BY <1>9, <3>1
  <2>5. Meanwhile(th, k, tree) /\ Working(k)
    BY <1>9, <1>17 DEF Continue, Working
  <2> HIDE DEF k
  <2>6. /\ k.op = c.op /\ k.arg = c.arg /\ k.before = c.before /\ k.alone = c.alone
        /\ Fields \subseteq DOMAIN k
    BY <1>9 DEF k
  <2> QED
    BY <1>1, <1>3, <2>3, <2>4, <2>5, <2>6, CopiesExact DEF s
<1>18. ASSUME NEW n \in left, ~is_directory(tree, Entry(s, n)), Continue(th, on(n))
       PROVE  ExactInv'
  <2> DEFINE k == on(n)
  <2>1. n \in Names /\ n \notin Last(s).seen /\ Entry(s, n) \in DOMAIN tree
    OBVIOUS
  <2>2. Dest(k) = Dest(c)
    BY <1>10 DEF Dest
  <2>3. ASSUME Exact(c, tree) PROVE Copies(k, tree)
    <3>1. k.to = Moved(Entry(s, n), f, d)
      BY <1>10, <1>16, <2>3
    <3>2. k.pc = "entry" /\ k.open = s /\ k.from = Entry(s, n)
          /\ k.arg[1] = f /\ k.before = c.before
      BY <1>10, <1>12
    <3>3. Copying(c.before, f, d, s, Froms(s), tree)
      BY <1>13, <2>3
    <3> HIDE DEF k, left
    <3> QED
      BY <1>12, <1>18, <2>1, <2>2, <3>1, <3>2, <3>3 DEF Copies
  <2>4. Meanwhile(th, k, tree) /\ Working(k)
    BY <1>10, <1>18 DEF Continue, Working
  <2> HIDE DEF k
  <2>5. /\ k.op = c.op /\ k.arg = c.arg /\ k.before = c.before /\ k.alone = c.alone
        /\ Fields \subseteq DOMAIN k /\ k.open # <<>>
    BY <1>3, <1>10 DEF k
  <2> QED
    BY <1>1, <1>3, <2>3, <2>4, <2>5, CopiesExact DEF s
<1> QED
  BY <1>5, <1>14, <1>15, <1>17, <1>18

\* It passes over a link, and copies a file to where nothing is.
LEMMA EntryExact ==
  ASSUME IInv, ExactInv, IsTree(tree), NEW th \in Threads, CopyEntry(th) \/ CopyFile(th)
  PROVE  ExactInv'
<1> DEFINE c == call[th]
           s == c.open
           x == Name(c.from)
           past == [Seen(c, x) EXCEPT !.pc = "copy"]
           file == [c EXCEPT !.pc = "file"]
           o == copy(tree, c.from, c.to)
<1>1. c.pc \in {"entry", "file"} /\ Working(c)
  BY DEF CopyEntry, CopyFile, Working
<1>2. Bound(c) /\ Fields \subseteq DOMAIN c /\ (c.alone => Exact(c, tree))
  BY <1>1, WorkingExact
<1>3. c.op = "copyDirectory" /\ s # <<>> /\ s \in Seq(Dirs(c.arg[2]))
  BY <1>1, <1>2 DEF Bound
<1>4. c.arg[1] \in Seq(Names) \ {Root} /\ c.arg[2] \in Seq(Names) \ {Root}
  BY <1>2, BoundPaths
<1>5. \/ /\ c.pc = "entry" /\ Type(tree, c.from) = "regular_file"
         /\ Continue(th, file)
      \/ /\ c.pc = "entry" /\ Type(tree, c.from) # "regular_file"
         /\ Continue(th, past)
      \/ c.pc = "file" /\ o.result = "throws" /\ Return(th, o)
      \/ c.pc = "file" /\ o.result # "throws" /\ Meanwhile(th, past, o.tree)
  BY DEF CopyEntry, CopyFile
<1>6. /\ file.op = c.op /\ file.arg = c.arg /\ file.before = c.before
      /\ file.alone = c.alone /\ file.pc = "file" /\ file.open = s
      /\ file.from = c.from /\ file.to = c.to /\ Fields \subseteq DOMAIN file
  BY <1>2 DEF Fields
<1> HIDE DEF x
<1>7. /\ DOMAIN Seen(c, x) = DOMAIN c /\ Seen(c, x).open = See(s, x)
      /\ \A g \in DOMAIN c \ {"open"} : Seen(c, x)[g] = c[g]
  BY <1>2 DEF Fields, Seen, See
<1>8. /\ past.op = c.op /\ past.arg = c.arg /\ past.before = c.before
      /\ past.alone = c.alone /\ past.pc = "copy" /\ past.open = See(s, x)
      /\ Fields \subseteq DOMAIN past
  BY <1>2, <1>7 DEF Fields
<1>9. See(s, x) # <<>>
  <2> HIDE DEF c, s
  <2> QED
    BY <1>3 DEF See
<1> HIDE DEF file, past, o
<1>10. Dest(file) = Dest(c) /\ Dest(past) = Dest(c) /\ Working(file) /\ Working(past)
  BY <1>6, <1>8 DEF Dest, Working
<1>11. PICK f \in Seq(Names) \ {Root}, d \in Seq(Names) \ {Root} : f = c.arg[1] /\ d = Dest(c)
  BY <1>3, <1>4, DestCopy
<1>12. ASSUME Exact(c, tree)
       PROVE  /\ IsTree(c.before) /\ Copying(c.before, f, d, s, Froms(s), tree)
              /\ x \in Names \ Last(s).seen
              /\ c.from = Entry(s, x) /\ c.to = Moved(c.from, f, d)
              /\ c.from \in DOMAIN tree /\ ~is_directory(tree, c.from)
              /\ c.pc = "file" => Type(tree, c.from) = "regular_file"
  <2>1. Copies(c, tree) /\ IsTree(c.before)
    BY <1>1, <1>3, <1>12 DEF Exact
  <2>2. PICK n \in Names :
          /\ c.from = Entry(s, n) /\ c.to = Moved(c.from, f, d) /\ n \notin Last(s).seen
          /\ c.from \in DOMAIN tree /\ ~is_directory(tree, c.from)
          /\ c.pc = "file" => Type(tree, c.from) = "regular_file"
          /\ Copying(c.before, f, d, s, Froms(s), tree)
    BY <1>1, <1>11, <2>1 DEF Copies
  <2>3. n = x
    <3>1. Stack(s, f, d, tree)
      BY <2>2 DEF Copying
    <3>2. Name(Entry(s, n)) = n
      BY <3>1, EntryMoved
    <3> QED
      BY <2>2, <3>2 DEF x
  <2> QED
    BY <2>1, <2>2, <2>3
<1> HIDE DEF s
<1>13. ASSUME NEW t, Copying(c.before, f, d, See(s, x), Froms(See(s, x)), t)
       PROVE  Copies(past, t)
  BY <1>8, <1>10, <1>11, <1>13 DEF Copies
<1>14. CASE c.pc = "entry" /\ Type(tree, c.from) = "regular_file" /\ Continue(th, file)
  <2>1. ASSUME Exact(c, tree) PROVE Copies(file, tree)
    <3> HIDE DEF c
    <3> QED
      BY <1>6, <1>10, <1>11, <1>12, <1>14, <2>1 DEF Copies
  <2>2. Meanwhile(th, file, tree) /\ file.open # <<>>
    BY <1>3, <1>6, <1>14 DEF Continue
  <2> QED
    BY <1>1, <1>3, <1>6, <1>10, <2>1, <2>2, CopiesExact DEF s
<1>15. CASE c.pc = "entry" /\ Type(tree, c.from) # "regular_file" /\ Continue(th, past)
  <2>1. ASSUME Exact(c, tree) PROVE Copies(past, tree)
    <3>1. Type(tree, Entry(s, x)) = "symlink_file"
      <4>1. c.from \in DOMAIN tree /\ ~is_directory(tree, c.from)
        BY <1>12, <2>1
      <4>2. tree[c.from] \in Nodes
        BY <4>1 DEF IsTree
      <4>3. Type(tree, c.from) = "symlink_file"
        BY <1>15, <4>1, <4>2 DEF Type, is_directory, Nodes
      <4> QED
        BY <1>12, <2>1, <4>3
    <3>2. Copying(c.before, f, d, See(s, x), Froms(See(s, x)), tree)
      BY <1>12, <2>1, <3>1, CopyingSkip
    <3> QED
      BY <1>13, <3>2
  <2>2. Meanwhile(th, past, tree) /\ past.open # <<>>
    BY <1>8, <1>9, <1>15 DEF Continue
  <2> QED
    BY <1>1, <1>3, <1>8, <1>10, <2>1, <2>2, CopiesExact DEF s
<1>16. o = IF c.from \notin DOMAIN tree \/ c.to \in DOMAIN tree THEN Fails(tree)
           ELSE store(tree, c.to, tree[c.from])
  BY DEF o, copy
<1>17. CASE c.pc = "file" /\ o.result = "throws" /\ Return(th, o)
  <2>1. o.tree = tree
    BY <1>16, <1>17 DEF store, Fails, Done
  <2>2. ASSUME Exact(c, tree) PROVE Kept(c, tree, "throws")
    BY <1>3, <1>11, <1>12, <2>2, FrameKept DEF Copying
  <2> QED
    BY <1>1, <1>17, <2>1, <2>2, ReturnExact
<1>18. CASE c.pc = "file" /\ o.result # "throws" /\ Meanwhile(th, past, o.tree)
  <2>1. ASSUME Exact(c, tree) PROVE Copies(past, o.tree)
    <3>1. /\ x \in Names /\ x \notin Last(s).seen /\ IsTree(c.before)
          /\ Copying(c.before, f, d, s, Froms(s), tree)
          /\ Type(tree, Entry(s, x)) = "regular_file"
          /\ c.from = Entry(s, x) /\ c.to = Moved(Entry(s, x), f, d) /\ c.from \in DOMAIN tree
      BY <1>12, <1>18, <2>1
    <3>2. /\ c.to \notin DOMAIN tree
          /\ LET u == Put(tree, c.to, tree[c.from])
             IN  Copying(c.before, f, d, See(s, x), Froms(See(s, x)), u)
      BY <3>1, CopyingFile
    <3>3. Type(tree, c.to) = "file_not_found"
      BY <3>2 DEF Type
    <3>4. o.tree = Put(tree, c.to, tree[c.from])
      BY <1>16, <1>18, <3>1, <3>2, <3>3 DEF store, Fails, Done
    <3> QED
      BY <1>13, <3>2, <3>4
  <2>2. past.open # <<>>
    BY <1>8, <1>9
  <2> QED
    BY <1>1, <1>3, <1>8, <1>10, <1>18, <2>1, <2>2, CopiesExact DEF s
<1> QED
  BY <1>5, <1>14, <1>15, <1>17, <1>18

\* A call that nobody interferes with does what it promises and tells so, or throws and
\* leaves what was there as it was (fs_manager.cpp 91-224).
THEOREM CallsExactAlways == Spec => []CallsExact
<1>1. Init => ExactInv
  BY DEF Init, ExactInv
<1>2. IInv /\ IsTree(tree) /\ ExactInv /\ [Next]_vars => ExactInv'
  <2> SUFFICES ASSUME IInv, IsTree(tree), ExactInv, [Next]_vars PROVE ExactInv'
    OBVIOUS
  <2>1. CASE UNCHANGED vars
    BY <2>1 DEF vars, ExactInv
  <2> QED
    BY <2>1, BeginExact, LookExact, ActExact, CopyExact, EntryExact DEF Next, Step
<1>3. IInv /\ ExactInv => CallsExact
  <2> SUFFICES ASSUME IInv, ExactInv, NEW th \in Threads, call[th].pc = "returned",
                      call[th].alone
               PROVE  Kept(call[th], tree, call[th].result)
    BY DEF CallsExact, Settled, Kept
  <2>1. call[th] # Idle
    BY DEF Idle
  <2> QED
    BY <2>1 DEF ExactInv, Exact
<1> QED
  BY <1>1, <1>2, <1>3, Invariance, TreeAlways, PTL DEF Spec

=============================================================================

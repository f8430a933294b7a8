------------------------------ MODULE FileTree ------------------------------
(* The synchronous helpers of src/io/async/fs/fs_manager.cpp that change    *)
(* the tree of files, called by several threads at once.  A helper checks   *)
(* the type of a path, looks where its destination is, and then asks the    *)
(* operating system, in steps between which the tree may change; copying a  *)
(* directory takes as many steps as it has entries.                         *)
(*                                                                          *)
(* A path is the sequence of its names.  The tree maps every path there is  *)
(* to a directory, a symbolic link or the content of a file.  Links lead    *)
(* out of the tree, to nothing that is a directory.                         *)
EXTENDS Integers, SequencesExt

CONSTANTS
  Names,      \* the names of files and directories
  Contents,   \* the contents of files
  MaxDepth,   \* external: how long a path may be
  Trees,      \* the trees a run may start with
  Arguments,  \* bound: the paths the helpers are called with
  Threads,    \* the threads that call
  MaxCalls    \* bound: the number of calls

Paths == UNION {[1..n -> Names] : n \in 0..MaxDepth}

Nodes == {"directory_file", "symlink_file"} \cup Contents

Root == <<>>

Parent(p) == SubSeq(p, 1, Len(p) - 1)

Name(p) == p[Len(p)]

Type(t, p) == IF p \notin DOMAIN t THEN "file_not_found"
              ELSE IF t[p] \in Contents THEN "regular_file" ELSE t[p]

is_directory(t, p) == Type(t, p) = "directory_file"

\* Everything but the root, which is a directory, is in a directory.
IsTree(t) ==
  /\ t \in [DOMAIN t -> Nodes] /\ DOMAIN t \subseteq Paths
  /\ is_directory(t, Root)
  /\ \A p \in DOMAIN t \ {Root} : is_directory(t, Parent(p))

ASSUME FileTreeAssumption ==
  /\ MaxDepth \in Nat \ {0} /\ MaxCalls \in Nat
  /\ Contents \cap {"directory_file", "symlink_file", "file_not_found"} = {}
  /\ Arguments \subseteq Paths \ {Root}
  /\ \A t \in Trees : IsTree(t)

Operations == {"exists", "removeFile", "move", "copyFile", "copyDirectory",
               "removeDirectory", "createDirectory", "createDirectories", "writeFile"}

VARIABLES
  tree,   \* what there is
  call,   \* what each thread is doing
  made    \* the number of calls made

vars == <<tree, call, made>>

-----------------------------------------------------------------------------
(* The operating system: what a call makes of a tree, or that it fails.     *)

Below(t, p) == {q \in DOMAIN t : IsPrefix(p, q)}

\* s @@ t and (p :> node) @@ t, which the provers cannot expand.
Over(s, t) == [q \in DOMAIN s \cup DOMAIN t |-> IF q \in DOMAIN s THEN s[q] ELSE t[q]]

Put(t, p, node) == [q \in DOMAIN t \cup {p} |-> IF q = p THEN node ELSE t[q]]

Without(t, p) == [q \in DOMAIN t \ Below(t, p) |-> t[q]]

Fails(t) == [tree |-> t, result |-> "throws"]

Done(t, result) == [tree |-> t, result |-> result]

\* A path where something may be put.
Fits(t, p) == Len(p) <= MaxDepth /\ is_directory(t, Parent(p))

create_directory(t, p) ==
  IF p \notin DOMAIN t /\ Fits(t, p) THEN Done(Put(t, p, "directory_file"), "yes")
  ELSE IF is_directory(t, p) THEN Done(t, "no") ELSE Fails(t)

create_directories(t, p) ==
  LET all == {SubSeq(p, 1, n) : n \in 1..Len(p)}
  IN  IF \E q \in all \cap DOMAIN t : ~is_directory(t, q) THEN Fails(t)
      ELSE Done(Over([q \in all |-> "directory_file"], t),
                IF all \subseteq DOMAIN t THEN "no" ELSE "yes")

\* Everything at and below p is then at and below q, with what else there is.
Relocated(t, p, q) ==
  [r \in {q \o SubSeq(s, Len(p) + 1, Len(s)) : s \in Below(t, p)} |->
     t[p \o SubSeq(r, Len(q) + 1, Len(r))]]

rename(t, from, to) ==
  IF from = to /\ from \in DOMAIN t THEN Done(t, "yes")
  ELSE IF \/ from \notin DOMAIN t \/ ~Fits(t, to) \/ IsPrefix(from, to)
          \/ \E s \in Below(t, from) : Len(s) - Len(from) + Len(to) > MaxDepth
          \/ to \in DOMAIN t /\ is_directory(t, from) # is_directory(t, to)
          \/ Below(t, to) \ {to} # {}
  THEN Fails(t)
  ELSE Done(Over(Relocated(t, from, to), Without(t, from)), "yes")

\* Opening with truncation; a link is followed, and its file is not in the tree.
store(t, p, content) ==
  IF Type(t, p) = "symlink_file" THEN Done(t, "yes")
  ELSE IF is_directory(t, p) \/ ~Fits(t, p) THEN Fails(t)
  ELSE Done(Put(t, p, content), "yes")

\* A file copied onto itself is emptied or refused: that depends on the version of boost.
copy_file(t, from, to, empty) ==
  IF Type(t, from) # "regular_file" THEN {Fails(t)}
  ELSE IF from = to THEN {Fails(t), Done(Put(t, to, empty), "yes")}
  ELSE {store(t, to, t[from])}

remove_all(t, p) ==
  IF p \in DOMAIN t THEN Done(Without(t, p), "yes") ELSE Done(t, "no")

remove(t, p) == IF Below(t, p) \ {p} # {} THEN Fails(t) ELSE remove_all(t, p)

-----------------------------------------------------------------------------
(* The helpers.                                                             *)

\* check_path_admitted, of the path each helper checks first.
Admitted(op) ==
  CASE op = "exists" -> {"file_not_found", "regular_file", "directory_file", "symlink_file"}
    [] op \in {"removeFile", "writeFile"} -> {"file_not_found", "regular_file"}
    [] op = "move" -> {"regular_file", "directory_file"}
    [] op = "copyFile" -> {"regular_file"}
    [] op = "copyDirectory" -> {"directory_file"}
    [] op \in {"removeDirectory", "createDirectories"} -> {"file_not_found", "directory_file"}
    [] op = "createDirectory" -> {"file_not_found"}

Binary == {"move", "copyFile", "copyDirectory"}

Idle == [pc |-> "idle"]

\* What another thread sees of a step that makes t of the tree: its call had company.
Meanwhile(th, c, t) ==
  /\ tree' = t
  /\ call' = [u \in Threads |-> IF u = th THEN c
                               ELSE IF call[u] # Idle /\ t # tree
                               THEN [call[u] EXCEPT !.alone = FALSE] ELSE call[u]]
  /\ UNCHANGED made

Return(th, outcome) ==
  Meanwhile(th, [call[th] EXCEPT !.pc = "returned", !.result = outcome.result], outcome.tree)

Continue(th, c) == Meanwhile(th, c, tree)

\* The call and its first check.  from and to are the directories being copied, or what
\* the call works on; open holds the directories whose entries are being copied.
\* before and alone are history.
Begin(th) ==
  /\ call[th].pc \in {"idle", "returned"}
  /\ made < MaxCalls
  /\ made' = made + 1
  /\ \E op \in Operations, from \in Arguments, to \in Arguments, content \in Contents :
       /\ op \in Binary \/ to = from
       /\ op = "writeFile" \/ content = CHOOSE c \in Contents : TRUE
       /\ LET refused == \/ op = "copyFile" /\ from = to
                         \/ Type(tree, from) \notin Admitted(op)
          IN  call' = [call EXCEPT ![th] =
                [op |-> op, arg |-> <<from, to>>, from |-> from, to |-> to,
                 content |-> content, open |-> <<>>, before |-> tree, alone |-> TRUE,
                 pc |-> IF refused \/ op = "exists" THEN "returned"
                        ELSE IF op \in Binary \cup {"createDirectory"} THEN "look" ELSE "act",
                 result |-> IF refused THEN "throws"
                            ELSE IF from \in DOMAIN tree THEN "yes" ELSE "no"]]
  /\ UNCHANGED tree

\* Mutant: the name is appended whether or not there is a directory.
LookAlways(th) ==
  /\ call[th].pc = "look"
  /\ Continue(th, [call[th] EXCEPT !.to = Append(@, Name(call[th].from)), !.pc = "act"])

\* Where a destination that is a directory leads: into it, and for move again and
\* again; createDirectory checks the directory it is to be in.
Look(th) ==
  /\ call[th].pc = "look"
  /\ LET c    == call[th]
         into == [c EXCEPT !.to = Append(@, Name(c.from))]
     IN  IF c.op = "createDirectory"
         THEN IF is_directory(tree, Parent(c.from)) THEN Continue(th, [c EXCEPT !.pc = "act"])
              ELSE Return(th, Fails(tree))
         ELSE Continue(th, CASE ~is_directory(tree, c.to) -> [c EXCEPT !.pc = "act"]
                             [] is_directory(tree, c.to) /\ c.op = "move" -> into
                             [] OTHER -> [into EXCEPT !.pc = "act"])

\* The call of the operating system that does what was asked.
Act(th) ==
  /\ call[th].pc = "act"
  /\ LET c == call[th]
     IN  CASE c.op = "removeFile"        -> Return(th, remove(tree, c.from))
           [] c.op = "removeDirectory"   -> Return(th, remove_all(tree, c.from))
           [] c.op = "createDirectory"   -> Return(th, create_directory(tree, c.from))
           [] c.op = "createDirectories" -> Return(th, create_directories(tree, c.from))
           [] c.op = "writeFile"         -> Return(th, store(tree, c.from, c.content))
           [] c.op = "move"              -> Return(th, rename(tree, c.from, c.to))
           [] c.op = "copyFile" ->
                \E o \in copy_file(tree, c.from, c.to, c.content) : Return(th, o)
           [] c.op = "copyDirectory" ->
                LET o == create_directory(tree, c.to)
                IN  IF o.result # "yes" \/ ~is_directory(tree, c.from)
                    THEN Return(th, Fails(tree))
                    ELSE Meanwhile(th, [c EXCEPT !.pc = "copy", !.open = Append(@,
                                  [from |-> c.from, to |-> c.to, seen |-> {}])], o.tree)

\* Mutant: an entry that is dealt with is not passed over.
SeenAgain(c, n) == c

\* The iterator goes on to the next entry.
Seen(c, n) == [c EXCEPT !.open[Len(c.open)].seen = @ \cup {n}]

\* Mutant: boost's copy replaces a file.
copyOver(t, from, to) == IF from \notin DOMAIN t THEN Fails(t) ELSE store(t, to, t[from])

\* boost::filesystem::copy: what is there is made anew, unless there is something already.
copy(t, from, to) ==
  IF from \notin DOMAIN t \/ to \in DOMAIN t THEN Fails(t) ELSE store(t, to, t[from])

\* copyDirectory_, the next entry: a directory is entered; after the last entry the
\* directory it is in goes on.
Copy(th) ==
  /\ call[th].pc = "copy"
  /\ LET c    == call[th]
         dir  == Last(c.open)
         left == {n \in Names \ dir.seen : Append(dir.from, n) \in DOMAIN tree}
     IN  \/ /\ left = {}
            /\ IF Len(c.open) = 1 THEN Return(th, Done(tree, "yes"))
               ELSE Continue(th, [c EXCEPT !.open = Front(@)])
         \/ \E n \in left :
              LET from == Append(dir.from, n)
                  next == [c EXCEPT !.from = from, !.to = Append(dir.to, n)]
              IN  IF is_directory(tree, from)
                  THEN Continue(th, [Seen(next, n) EXCEPT !.pc = "look"])
                  ELSE Continue(th, [next EXCEPT !.pc = "entry"])

\* Any other entry than a file is passed over.
CopyEntry(th) ==
  /\ call[th].pc = "entry"
  /\ LET c == call[th]
     IN  IF Type(tree, c.from) = "regular_file" THEN Continue(th, [c EXCEPT !.pc = "file"])
         ELSE Continue(th, [Seen(c, Name(c.from)) EXCEPT !.pc = "copy"])

CopyFile(th) ==
  /\ call[th].pc = "file"
  /\ LET c == call[th]
         o == copy(tree, c.from, c.to)
     IN  IF o.result = "throws" THEN Return(th, o)
         ELSE Meanwhile(th, [Seen(c, Name(c.from)) EXCEPT !.pc = "copy"], o.tree)

Step(th) == Look(th) \/ Act(th) \/ Copy(th) \/ CopyEntry(th) \/ CopyFile(th)

Next == \E th \in Threads : Begin(th) \/ Step(th)

Init ==
  /\ tree \in Trees
  /\ call = [th \in Threads |-> Idle]
  /\ made = 0

Spec == Init /\ [][Next]_vars

\* A thread that runs a helper goes on with it.
FairSpec == Spec /\ \A th \in Threads : WF_vars(Step(th))

-----------------------------------------------------------------------------
\* The calls that have just returned and that nobody interfered with.
Settled == {c \in {call[th] : th \in Threads} : c.pc = "returned" /\ c.alone}

\* Where a call with these arguments puts things: as mv and cp do, into a directory.
Lands(t, op, from, to) ==
  LET At(n) == to \o [i \in 1..n |-> Name(from)]
      Into(n) == ~is_directory(t, At(n)) /\ \A i \in 0..(n - 1) : is_directory(t, At(i))
  IN  IF op = "move" THEN At(CHOOSE n \in 0..(MaxDepth + 1) : Into(n))
      ELSE IF is_directory(t, to) THEN At(1) ELSE to

\* What is copied of a directory: its files and directories, without links.
Copied(t, from, to) ==
  [p \in {p \in DOMAIN Relocated(t, from, to) : Relocated(t, from, to)[p] # "symlink_file"} |->
     Relocated(t, from, to)[p]]

\* The tree a call that succeeds leaves, of the one it found.
Promised(t, c) ==
  LET from == c.arg[1]
      to   == IF c.op \in Binary THEN Lands(t, c.op, from, c.arg[2]) ELSE from
  IN  CASE c.op = "move"              -> IF from = to THEN t
                                     ELSE Over(Relocated(t, from, to), Without(t, from))
        [] c.op = "copyFile"          -> IF Type(t, to) = "symlink_file" THEN t
                                     ELSE Put(t, to, t[from])
        [] c.op = "copyDirectory"     -> Over(t, Copied(t, from, to))
        [] c.op = "createDirectories" -> Over(t, [p \in {SubSeq(from, 1, n) : n \in 1..Len(from)} |->
                                                     "directory_file"])
        [] c.op = "createDirectory"   -> Put(t, from, "directory_file")
        [] c.op = "writeFile"         -> Put(t, from, c.content)
        [] c.op \in {"removeFile", "removeDirectory"} -> Without(t, from)
        [] c.op = "exists"            -> t

\* copyFile of a file into the directory it is in.
OntoItself(c) == c.op = "copyFile" /\ c.arg[1] = Lands(c.before, c.op, c.arg[1], c.arg[2])

\* What a call that succeeds tells its caller: exists, whether there is anything, and the
\* others, whether there was anything to do.
Told(c, t) ==
  CASE c.op = "exists" -> IF c.arg[1] \in DOMAIN c.before THEN "yes" ELSE "no"
    [] c.op \in {"removeFile", "removeDirectory", "createDirectory", "createDirectories"} ->
         IF t = c.before THEN "no" ELSE "yes"
    [] OTHER -> "yes"

\* A call without interference does what it promises and tells so, or throws.  If it
\* throws, all that there was is as it was, and only copyDirectory, whose copy is left
\* incomplete, may have added anything, in the directory it was to make (fs_manager.cpp
\* 91-224).
CallsExact ==
  \A c \in Settled : ~OntoItself(c) =>
    /\ c.result # "throws" => tree = Promised(c.before, c) /\ c.result = Told(c, tree)
    /\ c.result = "throws" =>
         \A p \in DOMAIN c.before \cup DOMAIN tree :
           \/ p \in DOMAIN c.before \cap DOMAIN tree /\ tree[p] = c.before[p]
           \/ /\ c.op = "copyDirectory" /\ p \notin DOMAIN c.before
              /\ IsPrefix(Lands(c.before, c.op, c.arg[1], c.arg[2]), p)

\* What a call may change, whatever other threads do between its steps: what lies under
\* its destination, for move also under its source; copyDirectory and createDirectory
\* overwrite nothing, and nothing but copyFile, move and writeFile overwrites a file.
May(c, p) ==
  /\ IF c.op = "createDirectories" THEN IsPrefix(p, c.arg[1])
     ELSE IsPrefix(c.arg[2], p) \/ (c.op = "move" /\ IsPrefix(c.arg[1], p))
  /\ c.op \in {"copyDirectory", "createDirectory", "createDirectories"} => p \notin DOMAIN tree
  /\ c.op # "exists"

At(t, p) == IF p \in DOMAIN t THEN t[p] ELSE "file_not_found"

OnlyThere ==
  [][\A th \in Threads : Step(th) =>
       \A p \in DOMAIN tree \cup DOMAIN tree' :
         At(tree', p) # At(tree, p) => May(call[th], p)]_vars

\* Every call returns, a copy of a directory into itself too.
EveryCallReturns ==
  \A th \in Threads : call[th].pc \notin {"idle", "returned"} ~> call[th].pc = "returned"
============================================================================

------------------------------- MODULE DirTree ------------------------------
(***************************************************************************)
(* Directory trees: FileEnumerator (base/file_enumerator.cc), and of       *)
(* base/file_util.cc DeleteFile and ComputeDirectorySize, which walk it,   *)
(* and CreateDirectory.                                                    *)
(*                                                                         *)
(* A node is a file, a directory or a symbolic link to Linked, a           *)
(* directory that is not in the tree; Parent gives the place of each node. *)
(* Each process is in at most one function; opendir and readdir of a       *)
(* directory are one step, stat of what they listed the next, every        *)
(* unlink, rmdir and mkdir a step, and between them other processes and    *)
(* the world change the tree.  The order of readdir is any.                *)
(***************************************************************************)
EXTENDS Naturals, Sequences, SequencesExt, FiniteSets, FiniteSetsExt

CONSTANTS Callers, Nodes, Parent,   \* Parent: a function on Nodes
          Root, Linked,             \* what the functions are called on; where links lead
          Trees,                    \* the trees that there may be at first
          Calls,                    \* the functions that are called
          MaxTreeChanges            \* bound: changes that the world makes

Kinds == {"file", "dir", "link", "absent"}

DirTreeAssumption ==
    /\ Root \in Nodes /\ Linked \in Nodes \ {Root} /\ IsFiniteSet(Nodes) /\ "top" \notin Nodes
    /\ Trees \subseteq [Nodes -> Kinds] /\ MaxTreeChanges \in Nat
    /\ Parent \in [Nodes -> Nodes \cup {"top"}] /\ Parent[Root] = "top" /\ Parent[Linked] = "top"

VARIABLES tree,         \* node -> "file", "dir", "link" or "absent"
          calling,      \* process -> the function it is in
          seen,         \* history: process -> how often its enumerator returned each node
          calm,         \* history: process -> the tree of its call is only its own
          treeChanges   \* changes of the world so far

treeVars == <<tree, calling, seen, calm, treeChanges>>

-----------------------------------------------------------------------------
NoCall == [op |-> "idle", rv |-> FALSE]
\* A FileEnumerator on Root, and the directories that DeleteFile has to remove.
\* Variant: without the root itself.
WalkingRootless(op) == [op |-> op, pc |-> "next", entries |-> <<>>, pending |-> <<Root>>, listed |-> {},
                        todo |-> <<>>]
Walking(op) == [op |-> op, pc |-> "next", entries |-> <<>>, pending |-> <<Root>>, listed |-> {},
                todo |-> <<Root>>]
Exists(n)   == tree[n] # "absent"
Children(n) == {m \in Nodes : Parent[m] = n /\ Exists(m)}

\* What a path to n leads to, and what a traversal sees there: lstat or stat,
\* SHOW_SYM_LINKS or not.  What is gone has a zeroed stat: no directory.
\* Variant: a link is taken for what it leads to.
Target(n) == IF tree[n] = "link" THEN Linked ELSE n
StatThrough(op, n) == tree[Target(n)]
Stat(op, n) == IF op = "DeleteFile" THEN tree[n] ELSE tree[Target(n)]

\* Process p goes on with c; the node n, if any, becomes k.
GoOn(p, c) == calling' = [calling EXCEPT ![p] = c]
GiveBack(p, rv) == GoOn(p, [op |-> "idle", rv |-> rv])
Becomes(n, k) == tree' = [tree EXCEPT ![n] = k]
Untouched == UNCHANGED tree

\* p begins op: makers of directories do not disturb each other, all else does.
Peaceful(op, q) == calling[q].op = "idle" \/ (op = "CreateDirectory" /\ calling[q].op = op)
Begins(p, op) ==
    /\ calling[p].op = "idle" /\ UNCHANGED <<tree, treeChanges>>
    /\ seen' = [seen EXCEPT ![p] = [n \in Nodes |-> 0]]
    /\ calm' = [q \in Callers |-> IF q = p THEN \A r \in Callers \ {p} : Peaceful(op, r)
                                ELSE calm[q] /\ Peaceful(op, q)]

-----------------------------------------------------------------------------
\* DeleteFile: lstat of the path, and unlink or rmdir or the traversal.
StartDelete(p, recursive) ==
    /\ Begins(p, "DeleteFile")
    /\ \/ ~Exists(Root) /\ GiveBack(p, TRUE)
       \/ tree[Root] \in {"file", "link"} /\ GoOn(p, [op |-> "unlink root"])
       \/ tree[Root] = "dir" /\ GoOn(p, IF recursive THEN Walking("DeleteFile") ELSE [op |-> "rmdir root"])

DeleteRoot(p) ==
    /\ UNCHANGED <<seen, calm, treeChanges>>
    /\ \/ /\ calling[p].op = "unlink root"
          /\ IF tree[Root] \in {"file", "link"} THEN Becomes(Root, "absent") /\ GiveBack(p, TRUE)
             ELSE Untouched /\ GiveBack(p, FALSE)
       \/ /\ calling[p].op = "rmdir root"
          /\ IF tree[Root] = "dir" /\ Children(Root) = {} THEN Becomes(Root, "absent") /\ GiveBack(p, TRUE)
             ELSE Untouched /\ GiveBack(p, FALSE)

\* ComputeDirectorySize: a traversal that only looks.
StartSize(p) == Begins(p, "ComputeDirectorySize") /\ GoOn(p, Walking("ComputeDirectorySize"))

-----------------------------------------------------------------------------
\* FileEnumerator::Next, when the entries of the last directory are out: the
\* next pending directory is listed (one that cannot be is passed over), or
\* the traversal is over.
\* Variant: one that cannot be listed stays pending.
PoppedIfListed(c, dir) == IF tree[dir] = "dir" THEN Tail(c.pending) ELSE c.pending
Popped(c, dir) == Tail(c.pending)
List(p) ==
    LET c   == calling[p]
        dir == Target(c.pending[1]) IN
    /\ c.op \in {"DeleteFile", "ComputeDirectorySize"} /\ c.pc = "next" /\ c.entries = <<>>
    /\ c.pending # <<>>
    /\ GoOn(p, [c EXCEPT !.pending = Popped(c, dir),
                         !.pc = IF tree[dir] = "dir" THEN "stat" ELSE "next",
                         !.listed = IF tree[dir] = "dir" THEN Children(dir) ELSE {}])
    /\ UNCHANGED <<tree, seen, calm, treeChanges>>

\* ReadDirectory's stats, and the filter of Next: directories are pending,
\* before those of the levels above, and entries if they are wanted, both in the
\* order s of readdir.
\* Variant: a directory is not pending.
PushNothing(op, listed) == {}
Push(op, listed) == {n \in listed : Stat(op, n) = "dir"}
Wanted(op, n) == op = "DeleteFile" \/ Stat(op, n) # "dir"
OrderedLike(t, s) == \A i, j \in 1..Len(t), k, l \in 1..Len(s) :
                        i < j /\ t[i] = s[k] /\ t[j] = s[l] => k < l
StatEntries(p) ==
    LET c == calling[p] IN
    /\ c.op \in {"DeleteFile", "ComputeDirectorySize"} /\ c.pc = "stat"
    /\ \E s \in SetToSeqs(c.listed), dirs \in SetToSeqs(Push(c.op, c.listed)),
          out \in SetToSeqs({n \in c.listed : Wanted(c.op, n)}) :
          /\ OrderedLike(dirs, s) /\ OrderedLike(out, s)
          /\ GoOn(p, [c EXCEPT !.pc = "next", !.listed = {}, !.pending = Reverse(dirs) \o @,
                               !.entries = [i \in 1..Len(out) |->
                                   [node |-> out[i], isDir |-> Stat(c.op, out[i]) = "dir"]]])
    /\ UNCHANGED <<tree, seen, calm, treeChanges>>

\* The caller's turn with an entry: DeleteFile remembers a directory and
\* unlinks anything else; what fails ends it.
\* Variant: the directories to be removed are a queue.
RememberLast(todo, n) == Append(todo, n)
Remember(todo, n) == <<n>> \o todo
Visit(p) ==
    LET c == calling[p]
        e == c.entries[1]
        d == [c EXCEPT !.entries = Tail(@)] IN
    /\ c.op \in {"DeleteFile", "ComputeDirectorySize"} /\ c.pc = "next" /\ c.entries # <<>>
    /\ seen' = [seen EXCEPT ![p][e.node] = @ + 1]
    /\ UNCHANGED <<calm, treeChanges>>
    /\ \/ c.op = "ComputeDirectorySize" /\ GoOn(p, d) /\ Untouched
       \/ /\ c.op = "DeleteFile" /\ e.isDir
          /\ GoOn(p, [d EXCEPT !.todo = Remember(@, e.node)]) /\ Untouched
       \/ /\ c.op = "DeleteFile" /\ ~e.isDir
          /\ LET done == tree[e.node] \in {"file", "link"} IN
             /\ IF done THEN Becomes(e.node, "absent") ELSE Untouched
             /\ IF done THEN GoOn(p, d) ELSE GiveBack(p, FALSE)

\* The traversal is over; DeleteFile removes the directories, the last found
\* first.
Finish(p) ==
    LET c == calling[p] IN
    /\ c.op \in {"DeleteFile", "ComputeDirectorySize"} /\ c.pc = "next"
    /\ c.entries = <<>> /\ c.pending = <<>>
    /\ UNCHANGED <<seen, calm, treeChanges>>
    /\ \/ c.op = "ComputeDirectorySize" /\ GiveBack(p, TRUE) /\ Untouched
       \/ c.op = "DeleteFile" /\ c.todo = <<>> /\ GiveBack(p, TRUE) /\ Untouched
       \/ /\ c.op = "DeleteFile" /\ c.todo # <<>>
          /\ LET n == c.todo[1] IN
             IF tree[n] = "dir" /\ Children(n) = {}
             THEN /\ Becomes(n, "absent")
                  /\ GoOn(p, [c EXCEPT !.todo = Tail(@)])
             ELSE Untouched /\ GiveBack(p, FALSE)

-----------------------------------------------------------------------------
\* CreateDirectoryAndGetError: for every path from the top down, stat and, if
\* that is no directory, mkdir, and stat again when mkdir fails.
Ancestors(n) == IF Parent[n] = "top" THEN <<n>>
                ELSE IF Parent[Parent[n]] = "top" THEN <<Parent[n], n>>
                ELSE <<Parent[Parent[n]], Parent[n], n>>
StartCreate(p, n) ==
    /\ Begins(p, "CreateDirectory")
    /\ GoOn(p, [op |-> "CreateDirectory", pc |-> "stat", path |-> n, todo |-> Ancestors(n)])

\* DirectoryExists: is there a directory where the path leads?
IsDir(n) == tree[Target(n)] = "dir"
\* Variant: a mkdir that fails is a failure, whoever made the directory.
MadeByNobody(n) == FALSE
MadeByOther(n) == IsDir(n)
Down(c) == [c EXCEPT !.pc = "stat", !.todo = Tail(@)]
CreateStep(p) ==
    LET c == calling[p]
        n == c.todo[1] IN
    /\ c.op = "CreateDirectory" /\ UNCHANGED <<seen, calm, treeChanges>>
    /\ \/ c.todo = <<>> /\ GiveBack(p, TRUE) /\ Untouched
       \/ /\ c.todo # <<>> /\ c.pc = "stat" /\ Untouched
          /\ GoOn(p, IF IsDir(n) THEN Down(c) ELSE [c EXCEPT !.pc = "mkdir"])
       \/ /\ c.todo # <<>> /\ c.pc = "mkdir"
          /\ IF ~Exists(n) /\ (Parent[n] = "top" \/ tree[Parent[n]] = "dir")
             THEN Becomes(n, "dir") /\ GoOn(p, Down(c))
             ELSE Untouched /\ GoOn(p, [c EXCEPT !.pc = "again"])
       \/ /\ c.todo # <<>> /\ c.pc = "again" /\ Untouched
          /\ IF MadeByOther(n) THEN GoOn(p, Down(c)) ELSE GiveBack(p, FALSE)
-----------------------------------------------------------------------------
\* Files come and go in directories that are there.
TreeChanges(n) ==
    /\ treeChanges < MaxTreeChanges /\ n \notin {Root, Linked} /\ Parent[n] # Linked
    /\ \/ ~Exists(n) /\ tree[Parent[n]] = "dir" /\ Becomes(n, "file")
       \/ tree[n] = "file" /\ Becomes(n, "absent")
    /\ treeChanges' = treeChanges + 1 /\ calm' = [p \in Callers |-> FALSE]
    /\ UNCHANGED <<calling, seen>>

TreeInit ==
    /\ tree \in Trees /\ treeChanges = 0
    /\ calling = [p \in Callers |-> NoCall] /\ calm = [p \in Callers |-> FALSE]
    /\ seen = [p \in Callers |-> [n \in Nodes |-> 0]]

Work(p) == \/ DeleteRoot(p) \/ List(p) \/ StatEntries(p) \/ Visit(p) \/ Finish(p) \/ CreateStep(p)

TreeNext ==
    \/ \E n \in Nodes : TreeChanges(n)
    \/ \E p \in Callers :
          \/ Work(p)
          \/ "DeleteFile" \in Calls /\ \E recursive \in BOOLEAN : StartDelete(p, recursive)
          \/ "ComputeDirectorySize" \in Calls /\ StartSize(p)
          \/ "CreateDirectory" \in Calls /\ \E n \in Nodes \ {Linked} : Parent[n] # Linked /\ StartCreate(p, n)

TreeSpec == TreeInit /\ [][TreeNext]_treeVars
FairSpec == TreeSpec /\ \A p \in Callers : WF_treeVars(Work(p))

-----------------------------------------------------------------------------
\* Nothing is where there is no directory to hold it, and a DeleteFile is going
\* to remove every directory after those that it found in it.
TreeOK ==
    /\ \A p \in Callers : calling[p].op = "DeleteFile" =>
          \A i, j \in 1..Len(calling[p].todo) : Parent[calling[p].todo[i]] = calling[p].todo[j] => i < j
    /\ \A n \in Nodes : /\ tree[n] \in Kinds
                         /\ Exists(n) /\ Parent[n] # "top" => tree[Parent[n]] = "dir"

Deleting(p) == calling[p].op \in {"DeleteFile", "unlink root", "rmdir root"}
Returns(p)  == calling[p].op # "idle" /\ calling'[p].op = "idle"

\* DeleteFile says true only when the path is gone, whoever helped or hindered.
SuccessMeansGoneStep ==
    \A p \in Callers : Deleting(p) /\ Returns(p) /\ calling'[p].rv => tree'[Root] = "absent"
SuccessMeansGone == [][SuccessMeansGoneStep]_treeVars

\* On a tree that nobody else works on, a recursive DeleteFile succeeds.
QuietDeleteSucceedsStep ==
    \A p \in Callers : calm[p] /\ calling[p].op = "DeleteFile" /\ Returns(p) => calling'[p].rv
QuietDeleteSucceeds == [][QuietDeleteSucceedsStep]_treeVars

\* Deleting a tree does not touch what its links lead to.
OutsideUntouchedStep ==
    \A n \in Nodes : n = Linked \/ Parent[n] = Linked => tree'[n] = tree[n]
OutsideUntouched == [][OutsideUntouchedStep]_treeVars

\* A traversal of a tree that does not change returns every file of it once,
\* and once for every link to their directory those outside.
EnumeratesOnceStep ==
    \A p \in Callers : calm[p] /\ calling[p].op = "ComputeDirectorySize" /\ Returns(p) =>
       \A n \in Nodes :
          seen[p][n] = IF tree[n] # "file" \/ n = Root THEN 0
                       ELSE IF Parent[n] # Linked THEN 1
                       ELSE Cardinality({l \in Nodes : tree[l] = "link"})
EnumeratesOnce == [][EnumeratesOnceStep]_treeVars

\* CreateDirectory makes the whole path, also while others make parts of it;
\* it fails only where something else than a directory is in the way.
CreateSucceedsStep ==
    \A p \in Callers : calm[p] /\ calling[p].op = "CreateDirectory" /\ Returns(p) =>
       IF calling'[p].rv THEN tree'[Target(calling[p].path)] = "dir"
       ELSE \E i \in 1..Len(Ancestors(calling[p].path)) :
               tree[Ancestors(calling[p].path)[i]] \in {"file", "link"}
CreateSucceeds == [][CreateSucceedsStep]_treeVars

\* Every call returns.
CallsReturn == \A p \in Callers : calling[p].op # "idle" ~> calling[p].op = "idle"

-----------------------------------------------------------------------------
\* What is not behind a link.
Within == {n \in Nodes : n # Linked /\ Parent[n] # Linked}

\* A traversal of DeleteFile lists what it found as directories, which nobody turns into
\* links, and so stays within; the root is the last that it has to remove, and when nothing
\* is left to remove the root is gone and the traversal over.
DeletesWithin(p) ==
    LET c == calling[p] IN
    c.op = "DeleteFile" =>
       /\ c.pc \in {"next", "stat"} /\ c.listed \subseteq Within
       /\ c.pending \in Seq(Within) /\ \A i \in 1..Len(c.pending) : tree[c.pending[i]] # "link"
       /\ c.entries \in Seq([node : Within, isDir : BOOLEAN]) /\ c.todo \in Seq(Within)
       /\ c.todo # <<>> => c.todo[Len(c.todo)] = Root
       /\ c.todo = <<>> => /\ c.pc = "next" /\ c.entries = <<>> /\ c.pending = <<>>
                           /\ tree[Root] = "absent"

DeleteInv ==
    /\ tree \in [Nodes -> Kinds] /\ DOMAIN calling = Callers
    /\ \A p \in Callers :
          /\ calling[p].op # "CreateDirectory"
          /\ calling[p].op \in {"DeleteFile", "ComputeDirectorySize"}
             => DOMAIN calling[p] = {"op", "pc", "entries", "pending", "listed", "todo"}
          /\ DeletesWithin(p)
=============================================================================

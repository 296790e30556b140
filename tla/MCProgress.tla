------------------------------ MODULE MCProgress -----------------------------
(***************************************************************************)
(* What must eventually happen, in the modules that state some fairness.   *)
(* In each behaviour one of them moves, `part', and the others stay where  *)
(* they begin, where no fairness asks for a step (see MCFiles).            *)
(***************************************************************************)
EXTENDS CountDownLatch, Sequences, TLC

CONSTANTS Null, Absent

VARIABLES part,
    queue, takers, asleep, given, surplus,                                  \* PCQueue
    onceState, onceStack, onceSeen, published, runs, returned, thrown,      \* Once
    ptr, refs, life, todo, using, view, released, handed, uses,             \* RefCounted
    content, utilCall, faults,                                              \* FileUtil
    tree, treeCall, treeSeen, calm, treeChanges                             \* DirTree

queueVars  == <<queue, takers, asleep, given, surplus>>
onceVars   == <<onceState, onceStack, onceSeen, published, runs, returned, thrown>>
refVars    == <<ptr, refs, life, todo, using, view, released, handed, uses>>
utilVars   == <<content, utilCall, faults>>
treeVars   == <<tree, treeCall, treeSeen, calm, treeChanges>>
all == <<part, latchVars, queueVars, onceVars, refVars, utilVars, treeVars>>

-----------------------------------------------------------------------------
\* The latch: more threads than the count, so that some can wait while others count below
\* zero.

\* PCQueue: consumers and producers, of batches too, and two items, so that their order shows.
Q == INSTANCE PCQueue
     WITH Thread <- Waiter, locking <- takers, sleeping <- asleep, got <- given,
          Item <- {"x", "y"}, MaxLen <- 2, MaxBatch <- 1

\* Once: a diamond of closures, as deep as a test of the repository goes (recursive_once
\* needs once) and one level deeper.
Diamond == ("a" :> <<"b", "c">>) @@ ("b" :> <<"c">>) @@ ("c" :> <<>>)
E == INSTANCE Once
     WITH state <- onceState, stack <- onceStack, seen <- onceSeen, Thread <- {"t1", "t2"},
          OnceId <- {"a", "b", "c"}, Needs <- Diamond, ClosureMayThrow <- FALSE

\* RefCounted: two of everything; cycles come and go.
O == INSTANCE RefCounted
     WITH count <- refs, state <- life, Thread <- {"t1", "t2"}, Object <- {"o1", "o2"},
          Var <- {"v1", "v2"}, Nil <- Null, MaxUses <- 0

\* FileUtil: files grow and shrink while they are copied.
U == INSTANCE FileUtil
     WITH call <- utilCall, Procs <- {"t1", "t2"}, Names <- {"a", "b"},
          Calls <- {"CopyFile", "WriteFile"}, Size <- 1, Chunk <- 1, Limits <- {3},
          MaxFaults <- 0, MaxLength <- 1

\* DirTree: root/a/c, and outside/x.  One call removes what the other walks, or
\* makes it again.
Nodes == {"root", "a", "c", "outside", "x"}
Parent == [m \in Nodes |-> IF m = "a" THEN "root" ELSE IF m = "c" THEN "a"
                           ELSE IF m = "x" THEN "outside" ELSE "top"]
Trees == {t \in [Nodes -> {"absent", "file", "dir"}] :
            /\ t["outside"] = "dir" /\ t["x"] = "file"
            /\ \A m \in {"a", "c"} : t[m] # "absent" => t[Parent[m]] = "dir"}
D == INSTANCE DirTree
     WITH calling <- treeCall, seen <- treeSeen, Callers <- {"t1", "t2"}, Root <- "root",
          Linked <- "outside",
          Calls <- {"CreateDirectory", "DeleteFile", "ComputeDirectorySize"}, MaxTreeChanges <- 1

-----------------------------------------------------------------------------
Parts == {"latch", "queue", "once", "references", "functions", "trees"}

\* The files and the trees that nobody touches begin in one way only.
AllInit ==
    /\ part \in Parts
    /\ LatchInit /\ Q!Init /\ E!Init /\ O!RefInit /\ U!Init /\ D!TreeInit
    /\ part # "functions" => \A n \in DOMAIN content : content[n] = Absent
    /\ part # "trees" => tree["root"] = "absent"

AllNext ==
    /\ UNCHANGED part
    /\ IF part = "latch" THEN LatchNext ELSE UNCHANGED latchVars
    /\ IF part = "queue" THEN Q!Next ELSE UNCHANGED queueVars
    /\ IF part = "once" THEN E!Next ELSE UNCHANGED onceVars
    /\ IF part = "references" THEN O!RefNext ELSE UNCHANGED refVars
    /\ IF part = "functions" THEN U!Next ELSE UNCHANGED utilVars
    /\ IF part = "trees" THEN D!TreeNext ELSE UNCHANGED treeVars

\* The fairness of each module, and no other.
AllFairness ==
    /\ \A t \in Waiter : WF_latchVars(Proceed(t)) /\ WF_queueVars(Q!Proceed(t))
    /\ \A t \in {"t1", "t2"} : /\ WF_onceVars(E!Step(t)) /\ WF_refVars(O!Step(t))
                              /\ WF_utilVars(U!Work(t)) /\ WF_treeVars(D!Work(t))

AllSpec == AllInit /\ [][AllNext]_all /\ AllFairness

-----------------------------------------------------------------------------
(* The properties of the modules; those of CountDownLatch have their own    *)
(* names.  Each is stated in full in its module.                            *)

\* pc_queue.cc: a first-in first-out channel; nobody waits while there is something to take.
ImplementsFifo == Q!ImplementsFifo

\* once.cc, file_util.cc, file_enumerator.cc: every call of OnceInit, of a function on files
\* and of one on trees returns, whatever the others do.
CallsReturn == E!CallsReturn /\ U!CallsReturn /\ D!CallsReturn

\* ref_counted.h: an object nobody can reach is deleted, unless it is on a cycle.
GarbageIsDeleted == O!GarbageIsDeleted
=============================================================================

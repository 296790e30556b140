------------------------------ MODULE MCObjects ------------------------------
(***************************************************************************)
(* The objects of base that own something: references, closures, a State,  *)
(* a descriptor, a directory, a block of memory.  In each behaviour one of *)
(* the modules moves, `part', and the variables of the others do not (see  *)
(* MCFiles).                                                               *)
(***************************************************************************)
EXTENDS Status, RefCounted, Callback, ScopedFile, Pickle, TLC

\* Three pairs of things that are interchangeable within the pair.
CONSTANTS x1, x2, y1, y2, z1, z2
Xs == {x1, x2}
Ys == {y1, y2}
Zs == {z1, z2}
Symmetry == Permutations(Xs) \cup Permutations(Ys) \cup Permutations(Zs)

VARIABLES part,
    path_, kind, dirDoing, used, taken, failed, changes  \* ScopedTempDir

dirVars == <<path_, kind, dirDoing, used, taken, failed, changes>>
all == <<part, vars, refVars, closureVars, scopedVars, dirVars, pickleVars>>

-----------------------------------------------------------------------------
\* Status: memory for one State more than there are statuses.  RefCounted: two threads, two
\* variables, two objects that may point to each other.  Callback: closures that run closures,
\* three deep.  ScopedFile: a thread that opens files while the other resets a scoper, up to
\* five files on three descriptors.  Pickle: two that are written, copied and assigned, of two
\* header sizes.  These five have their own names here.

\* Pickles of one header size, and one that arrives elsewhere, cut short or damaged.
R == INSTANCE Pickle
     WITH Pickles <- Xs, Buffers <- {"sent"}, PodSizes <- {2}, Lengths <- {5},
          HeaderSizes <- {6}, Unit <- 8, HeapAlign <- 16, WrongSizes <- {3, 1000},
          Cuts <- {0, 1, 11}, MaxItems <- 1

\* ScopedTempDir: two objects, one name in the temporary directory and one in another.
T == INSTANCE ScopedTempDir
     WITH doing <- dirDoing, Dir <- Xs, InTmp <- {"outer"}, InBase <- {"inner"}, Base <- "base",
          Elsewhere <- "elsewhere", Empty <- "empty", MaxChanges <- 1

ASSUME AllAssumptions ==
    /\ RefCountedAssumption /\ CallbackAssumption /\ ScopedFileAssumption
    /\ PickleAssumption /\ R!PickleAssumption
    /\ T!ScopedTempDirAssumption

-----------------------------------------------------------------------------
Parts == {"references", "closures", "statuses", "scopers", "directories",
          "pickles", "received"}

AllInit ==
    /\ part \in Parts
    /\ Init /\ RefInit /\ ClosureInit /\ ScopedInit
    /\ IF part = "directories" THEN T!Init
       ELSE /\ path_ = 0 /\ kind = 0 /\ dirDoing = 0 /\ used = 0 /\ taken = 0 /\ failed = 0
            /\ changes = 0
    /\ IF part = "received" THEN R!PickleInit ELSE PickleInit

AllNext ==
    /\ UNCHANGED part
    /\ IF part = "statuses" THEN Next ELSE UNCHANGED vars
    /\ IF part = "references" THEN RefNext ELSE UNCHANGED refVars
    /\ IF part = "closures" THEN ClosureNext ELSE UNCHANGED closureVars
    /\ IF part = "scopers" THEN ScopedNext ELSE UNCHANGED scopedVars
    /\ IF part = "directories" THEN T!Next ELSE UNCHANGED dirVars
    /\ CASE part = "pickles" -> PickleNext
         [] part = "received" -> R!PickleNext
         [] OTHER -> UNCHANGED pickleVars

AllSpec == AllInit /\ [][AllNext]_all

-----------------------------------------------------------------------------
(* What the modules promise, of the behaviours that are about them.  The    *)
(* conjuncts are stated and explained in their modules; ImplementsValue is  *)
(* that of Status, RefsAreSafe that of RefCounted, ClosuresAreSafe that of  *)
(* Callback, ScopersAreSafe that of ScopedFile, PicklesAreSafe of Pickle.   *)

\* status.h, ref_counted.h, callback_helpers.cc, scoped_generic.h, pickle.cc, scoped_temp_dir.cc: every
\* State has one status and every status its own; every reference is in one hand, and a
\* runner that is being destroyed is run by one frame and has what it runs; what is open is in
\* one hand; a pickle's block is its own and contains what was written (the inductive
\* invariants that the properties above are derived from); every directory that was made is
\* somebody's, and what an object has stays until Delete or Take.
OwnersAreUnique ==
    /\ [](/\ StatesAreOwned
          /\ part = "references" => RefInv
          /\ part = "closures" => ClosureInv
          /\ part = "scopers" => ScopedInv
          /\ part = "pickles" => PickleInv
          /\ part = "received" => R!PickleInv
          /\ part = "directories" => T!TempDirInv /\ T!NothingLeftBehind)
    /\ [][part = "directories" => T!EstablishedOnceStep]_all
=============================================================================

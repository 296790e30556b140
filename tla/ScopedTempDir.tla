---------------------------- MODULE ScopedTempDir ----------------------------
(***************************************************************************)
(* base::ScopedTempDir (src/base/scoped_temp_dir.cc), with the functions   *)
(* of src/base/file_util.cc that make temporary directories.  Several      *)
(* objects are in use at once, each by one caller; one may have the        *)
(* directory in which others make theirs.  What DeleteFile and             *)
(* CreateDirectory do inside is in module DirTree; here they succeed or    *)
(* fail.  The world makes and removes the directories that callers name.   *)
(***************************************************************************)
EXTENDS Naturals, FiniteSets

CONSTANTS Dir,         \* ScopedTempDir objects
          InTmp,       \* names that mkdtemp gives in GetTempDir
          Base,        \* a directory that callers name
          InBase,      \* names that mkdtemp gives in Base
          Elsewhere,   \* another directory that callers name
          Empty,       \* the empty path
          MaxChanges   \* bound: changes by the world

Unique == InTmp \cup InBase
Named == {Base, Elsewhere}
Paths == Unique \cup Named

ScopedTempDirAssumption ==
    /\ Empty \notin Paths /\ Unique \cap Named = {} /\ InTmp \cap InBase = {} /\ Base # Elsewhere
    /\ MaxChanges \in Nat

VARIABLES path_,  \* of each object
          kind,   \* what is at each path: "absent", "dir" or "file"
          doing,  \* the second half of a call that has made a first step
          used,   \* history: names that mkdtemp gave; it gives no name again
          taken,  \* history: directories that callers took
          failed, \* history: directories whose destructor could not delete them
          changes \* changes by the world so far

vars == <<path_, kind, doing, used, taken, failed, changes>>
history == <<taken, failed, changes>>

NoStep == [do |-> "none"]
Ready(d) == doing[d] = NoStep
Has(d, p) == path_' = [path_ EXCEPT ![d] = p]
Goes(d, step) == doing' = [doing EXCEPT ![d] = step]
Put(S, k) == kind' = [p \in Paths |-> IF p \in S THEN k ELSE kind[p]]
Below(p) == IF p = Base THEN InBase ELSE {}

-----------------------------------------------------------------------------
\* mkdtemp in tmp or Base: a directory of a name that was not there before, or a failure.
Mkdtemp(d, names, possible) ==
    \/ /\ possible
       /\ \E n \in names \ used : Has(d, n) /\ Put({n}, "dir") /\ used' = used \cup {n}
    \/ UNCHANGED <<path_, kind, used>>

\* CreateDirectory(p): there already, made, or a failure.
Directory(p, then, failure) ==
    \/ kind[p] = "dir" /\ then /\ UNCHANGED kind
    \/ kind[p] = "absent" /\ then /\ Put({p}, "dir")
    \/ kind[p] # "dir" /\ failure /\ UNCHANGED kind

\* Variant: if (IsValid()) return false.
CreateUniqueTempDirIfInvalid(d) ==
    /\ Ready(d) /\ (path_[d] # Empty => kind[path_[d]] # "dir")
    /\ Mkdtemp(d, InTmp, TRUE)
    /\ UNCHANGED <<doing, history>>
CreateUniqueTempDir(d) ==
    /\ Ready(d) /\ path_[d] = Empty
    /\ Mkdtemp(d, InTmp, TRUE)
    /\ UNCHANGED <<doing, history>>

\* Variant: without looking at path_.
CreateUniqueTempDirUnderAny(d) ==
    /\ Ready(d)
    /\ Directory(Base, Goes(d, [do |-> "mkdtemp"]), UNCHANGED doing)
    /\ UNCHANGED <<path_, used, history>>
CreateUniqueTempDirUnderPath(d) ==
    /\ Ready(d) /\ path_[d] = Empty
    /\ Directory(Base, Goes(d, [do |-> "mkdtemp"]), UNCHANGED doing)
    /\ UNCHANGED <<path_, used, history>>

\* It may be gone again by now.
CreateTemporaryDirInDir(d) ==
    /\ doing[d].do = "mkdtemp"
    /\ Mkdtemp(d, InBase, kind[Base] = "dir")
    /\ Goes(d, NoStep)
    /\ UNCHANGED history

\* DirectoryExists.
Set(d, p) ==
    /\ Ready(d) /\ path_[d] = Empty
    /\ IF kind[p] = "dir" THEN Has(d, p) /\ UNCHANGED doing
       ELSE Goes(d, [do |-> "mkdir", dir |-> p]) /\ UNCHANGED path_
    /\ UNCHANGED <<kind, used, history>>

\* CreateDirectory, when it did not exist.
SetCreates(d) ==
    /\ doing[d].do = "mkdir"
    /\ Directory(doing[d].dir, Has(d, doing[d].dir), UNCHANGED path_)
    /\ Goes(d, NoStep)
    /\ UNCHANGED <<used, history>>

\* DeleteFile(p, true): all of it, or only some of what is inside; of what is not there it
\* says that it is deleted.
DeletesAll(p) == Put({p} \cup Below(p), "absent")
DeletesSome(p) == kind[p] # "absent" /\ \E S \in SUBSET Below(p) : Put(S, "absent")

\* Variant: path_ is cleared in any case.
DeleteClearing(d) ==
    /\ Ready(d) /\ path_[d] # Empty
    /\ DeletesAll(path_[d]) \/ DeletesSome(path_[d])
    /\ Has(d, Empty)
    /\ UNCHANGED <<doing, used, history>>
Delete(d) ==
    /\ Ready(d) /\ path_[d] # Empty
    /\ \/ DeletesAll(path_[d]) /\ Has(d, Empty)
       \/ DeletesSome(path_[d]) /\ UNCHANGED path_
    /\ UNCHANGED <<doing, used, history>>

\* The destructor; the object may be made again.
Destroy(d) ==
    /\ Ready(d) /\ path_[d] # Empty
    /\ \/ DeletesAll(path_[d]) /\ UNCHANGED failed
       \/ DeletesSome(path_[d]) /\ failed' = failed \cup {path_[d]}
    /\ Has(d, Empty)
    /\ UNCHANGED <<doing, used, taken, changes>>

Take(d) ==
    /\ Ready(d) /\ path_[d] # Empty
    /\ taken' = taken \cup {path_[d]} /\ Has(d, Empty)
    /\ UNCHANGED <<kind, doing, used, failed, changes>>

\* Other programs.
World(p) ==
    /\ changes < MaxChanges /\ changes' = changes + 1
    /\ \/ kind[p] = "absent" /\ \E k \in {"dir", "file"} : Put({p}, k)
       \/ kind[p] # "absent" /\ DeletesAll(p)
    /\ UNCHANGED <<path_, doing, used, taken, failed>>

-----------------------------------------------------------------------------
Init == /\ path_ = [d \in Dir |-> Empty]
        /\ kind = [p \in Paths |-> "absent"]
        /\ doing = [d \in Dir |-> NoStep]
        /\ used = {} /\ taken = {} /\ failed = {} /\ changes = 0

Next == \/ \E d \in Dir : \/ CreateUniqueTempDir(d)
                          \/ CreateUniqueTempDirUnderPath(d) \/ CreateTemporaryDirInDir(d)
                          \/ \E p \in Named : Set(d, p)
                          \/ SetCreates(d) \/ Delete(d) \/ Destroy(d) \/ Take(d)
        \/ \E p \in Named : World(p)

Spec == Init /\ [][Next]_vars

-----------------------------------------------------------------------------
Steps == {NoStep, [do |-> "mkdtemp"]} \cup [do : {"mkdir"}, dir : Named]

TypeOK == /\ path_ \in [Dir -> Paths \cup {Empty}]
          /\ kind \in [Paths -> {"absent", "dir", "file"}]
          /\ doing \in [Dir -> Steps] /\ changes \in Nat
          /\ used \subseteq Unique /\ taken \cup failed \subseteq Paths
          /\ \A d \in Dir : ~Ready(d) => path_[d] = Empty

\* A directory made for an object is its alone, or was taken by a caller, until it is gone:
\* none is left behind but those that a destructor tried to delete and could not.  One
\* that a caller took stays (in Base it shares the fate of that).
NothingLeftBehind ==
    \A n \in Unique :
      /\ n \in taken \cap InTmp => kind[n] = "dir"
      /\ LET owners == {d \in Dir : path_[d] = n}
             others == (IF n \in taken THEN 1 ELSE 0) + (IF n \in failed THEN 1 ELSE 0)
         IN  /\ Cardinality(owners) + others <= 1
             /\ kind[n] = "dir" => Cardinality(owners) + others = 1

\* "Multiple calls to the methods which establish a temporary directory [...] must have
\* intervening calls to Delete or Take, or the calls will fail" (scoped_temp_dir.h:10-12).
EstablishedOnceStep == \A d \in Dir : path_[d] # Empty => path_'[d] \in {path_[d], Empty}
EstablishedOnce == [][EstablishedOnceStep]_vars

-----------------------------------------------------------------------------
(* What makes this inductive.                                              *)

Owns(d, n) == path_[d] = n

\* A directory that mkdtemp made is in one hand, an object's, its taker's or nobody's; in
\* the temporary directory it is there as long as somebody has it; a name that mkdtemp
\* has yet to give is nowhere.
HandKnown(n) ==
    /\ \A d, e \in Dir : Owns(d, n) /\ Owns(e, n) => d = e
    /\ \A d \in Dir : Owns(d, n) => n \notin taken /\ n \notin failed
    /\ ~(n \in taken /\ n \in failed)
    /\ kind[n] = "dir" => n \in taken \/ n \in failed \/ \E d \in Dir : Owns(d, n)
    /\ n \in InTmp => /\ n \in taken => kind[n] = "dir"
                     /\ \A d \in Dir : Owns(d, n) => kind[n] = "dir"
    /\ n \notin used => /\ kind[n] = "absent" /\ n \notin taken /\ n \notin failed
                        /\ \A d \in Dir : ~Owns(d, n)

TempDirInv == TypeOK /\ \A n \in Unique : HandKnown(n)
=============================================================================

------------------------------ MODULE RefCounted ----------------------------
(***************************************************************************)
(* base::RefCountedThreadSafe and base::scoped_ref_ptr                     *)
(* (base/ref_counted.h, ref_counted.cc, atomic_ref_count.h).               *)
(*                                                                         *)
(* Threads share objects through scoped_ref_ptr variables.  A variable is  *)
(* not thread safe, so an operation holds the variables it names (`using', *)
(* the application's lock); the counts are what the threads really race    *)
(* on.  Every object has one member of type scoped_ref_ptr, which its      *)
(* destructor destroys: chains, cycles and pointers to self exist.         *)
(*                                                                         *)
(* An operation is a list of micro steps, each one access to a count or to *)
(* a pointer; the steps it still has to do are `todo'.  Memory order is    *)
(* modelled as in module Once: a view is the set of uses of objects that   *)
(* are sure to be visible.                                                 *)
(***************************************************************************)
EXTENDS Integers, Sequences, FiniteSets

CONSTANTS Thread, Object, Var,  \* threads, objects, free-standing variables
          Nil,                  \* the null pointer
          MaxUses               \* bound: uses of objects that are told apart

RefCountedAssumption == /\ Nil \notin Object \cup Var
                        /\ Object \cap Var = {}
                        /\ IsFiniteSet(Thread) /\ IsFiniteSet(Object) /\ IsFiniteSet(Var)
                        /\ MaxUses \in Nat

VARIABLES ptr,     \* what each scoped_ref_ptr points to
          count,   \* ref_count_ of each object
          state,   \* "unborn", "live" or "deleted"
          todo,    \* per thread, the micro steps left of its operation
          using,   \* per thread, the variables its operation holds
          view,    \* per thread, the uses it is sure to see
          released,\* per object, the uses published through its count
          handed,  \* per variable, the uses published by its lock
          uses     \* history: per object, the uses made of it

refVars == <<ptr, count, state, todo, using, view, released, handed, uses>>
visibility == <<view, released, handed, uses>>

-----------------------------------------------------------------------------
\* A scoped_ref_ptr is a variable or the member of an object, which is named
\* by the object.
Slot == Var \cup Object
Pointer == Object \cup {Nil}

\* A micro step: on the object `obj', and for a store on the slot `slot'.
Do(what, o, s) == [do |-> what, obj |-> o, slot |-> s]
AddRef(o)      == Do("addref", o, Nil)
Release(o)     == Do("release", o, Nil)
Micro == [do : {"addref", "release", "store", "delete"}, obj : Pointer, slot : Slot \cup {Nil}]

\* AtomicRefCountIsOne (the acquire is in the property that uses it).
HasOneRef(o) == count[o] = 1

\* if (ptr_) Release(ptr_)
ReleaseIf(p) == IF p = Nil THEN <<>> ELSE <<Release(p)>>
AddRefIf(p)  == IF p = Nil THEN <<>> ELSE <<AddRef(p)>>

Idle(t) == todo[t] = <<>> /\ using[t] = {}

\* What an operation can name through variable v: v itself, and the member of
\* the object it points to.
Reaches(v) == {v} \cup ({ptr[v]} \ {Nil})
Held(t)    == UNION {using[u] : u \in Thread \ {t}}

\* Thread t begins an operation on slots reached through the variables vs.
Begin(t, slots, vs, steps) ==
    /\ (slots \cup vs) \cap Held(t) = {}
    /\ using' = [using EXCEPT ![t] = slots \cup vs]
    /\ todo'  = [todo EXCEPT ![t] = steps]
    /\ view'  = [view EXCEPT ![t] = @ \cup UNION {handed[s] : s \in slots \cup vs}]
    /\ UNCHANGED <<released, handed, uses>>

End(t) ==
    /\ todo[t] = <<>> /\ using[t] # {}
    /\ handed' = [s \in Slot |-> IF s \in using[t] THEN handed[s] \cup view[t] ELSE handed[s]]
    /\ using' = [using EXCEPT ![t] = {}]
    /\ UNCHANGED <<ptr, count, state, todo, view, released, uses>>

-----------------------------------------------------------------------------
\* scoped_ref_ptr<T> v(new T).
ConstructNew(t, v, o) ==
    /\ state[o] = "unborn" /\ ptr[v] = Nil
    /\ Begin(t, {v}, {v}, <<AddRef(o)>>)
    /\ ptr' = [ptr EXCEPT ![v] = o]
    /\ state' = [state EXCEPT ![o] = "live"]
    /\ UNCHANGED count

\* scoped_ref_ptr<T> v(r), v being a new variable.
ConstructCopy(t, v, r, vs) ==
    /\ v # r /\ ptr[v] = Nil /\ ptr[r] # Nil
    /\ Begin(t, {v, r}, vs \cup {v}, <<AddRef(ptr[r])>>)
    /\ ptr' = [ptr EXCEPT ![v] = ptr[r]]
    /\ UNCHANGED <<count, state>>

\* scoped_ref_ptr<T> v(std::move(r)).
ConstructMove(t, v, r, vs) ==
    /\ v # r /\ ptr[v] = Nil /\ ptr[r] # Nil
    /\ Begin(t, {v, r}, vs \cup {v}, <<>>)
    /\ ptr' = [ptr EXCEPT ![v] = ptr[r], ![r] = Nil]
    /\ UNCHANGED <<count, state>>

\* s = p: AddRef(p), then the store, then Release of the old pointer.
\* Variant: the old pointer released first.
ReleasesFirst(s, p) ==
    ReleaseIf(ptr[s]) \o AddRefIf(p) \o <<Do("store", p, s)>>
StoreSteps(s, p)  == <<Do("store", p, s)>> \o ReleaseIf(ptr[s])
AssignSteps(s, p) == AddRefIf(p) \o StoreSteps(s, p)

AssignNull(t, s, vs) ==
    /\ Begin(t, {s}, vs, AssignSteps(s, Nil))
    /\ UNCHANGED <<ptr, count, state>>

\* s = r, s and r possibly the same.
AssignCopy(t, s, r, vs) ==
    /\ ptr[r] # Nil
    /\ Begin(t, {s, r}, vs, AssignSteps(s, ptr[r]))
    /\ UNCHANGED <<ptr, count, state>>

\* s = std::move(r): a temporary takes r's pointer, swaps with s and is
\* destroyed.  Variant: the temporary is a copy of r, not moved from it, and
\* has not been counted.
Steal(s, r)  == [[ptr EXCEPT ![r] = Nil] EXCEPT ![s] = ptr[r]]
Old(s, r)    == [ptr EXCEPT ![r] = Nil][s]
AssignMoveKeeping(t, s, r, vs) ==
    /\ ptr[r] # Nil
    /\ Begin(t, {s, r}, vs, ReleaseIf(Old(s, r)))
    /\ ptr' = [ptr EXCEPT ![s] = ptr[r]]
    /\ UNCHANGED <<count, state>>
AssignMove(t, s, r, vs) ==
    /\ ptr[r] # Nil
    /\ Begin(t, {s, r}, vs, ReleaseIf(Old(s, r)))
    /\ ptr' = Steal(s, r)
    /\ UNCHANGED <<count, state>>

\* s.swap(r).
Swap(t, s, r, vs) ==
    /\ s # r
    /\ Begin(t, {s, r}, vs, <<>>)
    /\ ptr' = [ptr EXCEPT ![s] = ptr[r], ![r] = ptr[s]]
    /\ UNCHANGED <<count, state>>

\* ~scoped_ref_ptr of a variable; the variable can be constructed again.
Destruct(t, v) ==
    /\ ptr[v] # Nil
    /\ Begin(t, {v}, {v}, ReleaseIf(ptr[v]))
    /\ ptr' = [ptr EXCEPT ![v] = Nil]
    /\ UNCHANGED <<count, state>>

\* Some use of the object a variable points to.
Use(t, v) ==
    LET next == Cardinality(UNION {uses[o] : o \in Object}) + 1 IN
    /\ ptr[v] # Nil /\ v \notin Held(t)
    /\ next <= MaxUses
    /\ uses' = [uses EXCEPT ![ptr[v]] = @ \cup {next}]
    /\ view' = [view EXCEPT ![t] = @ \cup handed[v] \cup {next}]
    /\ handed' = [handed EXCEPT ![v] = @ \cup view[t] \cup {next}]
    /\ UNCHANGED <<ptr, count, state, todo, using, released>>

-----------------------------------------------------------------------------
NextIs(t, what) == todo[t] # <<>> /\ Head(todo[t]).do = what

\* AtomicRefCountInc: relaxed.
StepAddRef(t) ==
    /\ NextIs(t, "addref")
    /\ count' = [count EXCEPT ![Head(todo[t]).obj] = @ + 1]
    /\ todo' = [todo EXCEPT ![t] = Tail(@)]
    /\ UNCHANGED <<ptr, state, using, visibility>>

\* AtomicRefCountDec: sequentially consistent.  Who reads zero deletes.
\* Variant: a relaxed decrement.
BarrierRelaxed(t, o) == UNCHANGED visibility
Barrier(t, o) ==
    /\ view' = [view EXCEPT ![t] = @ \cup released[o]]
    /\ released' = [released EXCEPT ![o] = @ \cup view[t]]
    /\ UNCHANGED <<handed, uses>>

StepRelease(t) ==
    /\ NextIs(t, "release")
    /\ LET o == Head(todo[t]).obj IN
       /\ count' = [count EXCEPT ![o] = @ - 1]
       /\ todo' = [todo EXCEPT ![t] =
                     (IF count[o] = 1 THEN <<Do("delete", o, Nil)>> ELSE <<>>) \o Tail(@)]
       /\ Barrier(t, o)
    /\ UNCHANGED <<ptr, state, using>>

StepStore(t) ==
    /\ NextIs(t, "store")
    /\ LET m == Head(todo[t]) IN ptr' = [ptr EXCEPT ![m.slot] = m.obj]
    /\ todo' = [todo EXCEPT ![t] = Tail(@)]
    /\ UNCHANGED <<count, state, using, visibility>>

\* Traits::Destruct: the destructor destroys the member.
\* Variant: a destructor that leaves the member alone.
DeleteShallow(t) ==
    /\ NextIs(t, "delete")
    /\ LET o == Head(todo[t]).obj IN
       /\ state' = [state EXCEPT ![o] = "deleted"]
       /\ ptr' = [ptr EXCEPT ![o] = Nil]
       /\ todo' = [todo EXCEPT ![t] = Tail(@)]
    /\ UNCHANGED <<count, using, visibility>>
StepDelete(t) ==
    /\ NextIs(t, "delete")
    /\ LET o == Head(todo[t]).obj IN
       /\ state' = [state EXCEPT ![o] = "deleted"]
       /\ ptr' = [ptr EXCEPT ![o] = Nil]
       /\ todo' = [todo EXCEPT ![t] = ReleaseIf(ptr[o]) \o Tail(@)]
    /\ UNCHANGED <<count, using, visibility>>

Step(t) == StepAddRef(t) \/ StepRelease(t) \/ StepStore(t) \/ StepDelete(t) \/ End(t)

RefInit ==
    /\ ptr = [s \in Slot |-> Nil]
    /\ count = [o \in Object |-> 0]
    /\ state = [o \in Object |-> "unborn"]
    /\ todo = [t \in Thread |-> <<>>] /\ using = [t \in Thread |-> {}]
    /\ view = [t \in Thread |-> {}] /\ released = [o \in Object |-> {}]
    /\ handed = [s \in Slot |-> {}] /\ uses = [o \in Object |-> {}]

\* A thread begins an operation when it has none.  An operation names up to two
\* variables, directly or through `->'.
RefNext ==
    \E t \in Thread :
       \/ Step(t)
       \/ /\ Idle(t)
          /\ \/ \E v \in Var, o \in Object : ConstructNew(t, v, o)
             \/ \E v \in Var : Destruct(t, v) \/ Use(t, v)
             \/ \E v \in Var : \E s \in Reaches(v) : AssignNull(t, s, {v})
             \/ \E v, w \in Var : \E r \in Reaches(w) :
                   \/ \E s \in Reaches(v) : \/ AssignCopy(t, s, r, {v, w})
                                            \/ AssignMove(t, s, r, {v, w})
                                            \/ Swap(t, s, r, {v, w})
                   \/ ConstructCopy(t, v, r, {w}) \/ ConstructMove(t, v, r, {w})

RefFairness == \A t \in Thread : WF_refVars(Step(t))

RefSpec == RefInit /\ [][RefNext]_refVars /\ RefFairness

-----------------------------------------------------------------------------
RefTypeOK ==
    /\ ptr \in [Slot -> Pointer]
    /\ count \in [Object -> Nat]
    /\ state \in [Object -> {"unborn", "live", "deleted"}]
    /\ DOMAIN todo = Thread /\ \A t \in Thread : todo[t] \in Seq(Micro)
    /\ using \in [Thread -> SUBSET Slot]
    /\ view \in [Thread -> SUBSET (1..MaxUses)]
    /\ released \in [Object -> SUBSET (1..MaxUses)]
    /\ handed \in [Slot -> SUBSET (1..MaxUses)]
    /\ uses \in [Object -> SUBSET (1..MaxUses)]

\* How often a micro step is still to be done to an object.
Left(what, o) ==
    Cardinality({m \in Thread \X (1..4) :
                    /\ m[2] \in DOMAIN todo[m[1]]
                    /\ todo[m[1]][m[2]].do = what /\ todo[m[1]][m[2]].obj = o})

\* The pointers to an object that a pending store is about to overwrite.
Overwritten(o) ==
    Cardinality({m \in Thread \X (1..4) :
                    /\ m[2] \in DOMAIN todo[m[1]]
                    /\ todo[m[1]][m[2]].do = "store" /\ ptr[todo[m[1]][m[2]].slot] = o})

\* The count of an object is the number of pointers to it, corrected by what
\* the operations under way have counted and not yet stored, or overwritten
\* and not yet released.
CountIsPointers ==
    \A o \in Object :
       count[o] + Left("addref", o) =
          Cardinality({s \in Slot : ptr[s] = o}) - Overwritten(o)
             + Left("store", o) + Left("release", o)

\* No operation of any thread counts, uses, assigns to or deletes an object
\* that has been deleted, or has an operation left that would: the last of
\* two racing releases deletes, and neither assignment to self nor assignment
\* to the member of the object being given up touches freed memory.
NoUseAfterDelete ==
    /\ \A s \in Slot : ptr[s] # Nil => state[ptr[s]] = "live"
    /\ \A o \in Object : state[o] = "deleted" => ptr[o] = Nil
    /\ \A t \in Thread : \A i \in DOMAIN todo[t] :
          /\ todo[t][i].obj # Nil => state[todo[t][i].obj] = "live"
          /\ i = 1 /\ todo[t][i].slot \in Object => state[todo[t][i].slot] = "live"

\* The destructor sees every use that any thread made of the object: this is
\* what the barrier in AtomicRefCountDec is for.
DestructorSeesUses ==
    \A t \in Thread : NextIs(t, "delete") => uses[Head(todo[t]).obj] \subseteq view[t]

\* HasOneRef on a variable one holds tells the truth: nothing else points to
\* the object, and the acquire load makes all that was done through the other
\* pointers visible.
HasOneRefIsExclusive ==
    \A t \in Thread, v \in Var :
       LET o == ptr[v] IN
       Idle(t) /\ o # Nil /\ v \notin Held(t) /\ HasOneRef(o)
          => /\ {s \in Slot : ptr[s] = o} = {v}
             /\ uses[o] \subseteq view[t] \cup handed[v] \cup released[o]

RefsAreSafe == RefTypeOK /\ CountIsPointers /\ NoUseAfterDelete /\ DestructorSeesUses
               /\ HasOneRefIsExclusive

\* The objects that following pointers from a set of objects leads to.
Follow(S) == S \cup ({ptr[o] : o \in S} \ {Nil})
From(S)   == LET R[n \in Nat] == IF n = 0 THEN S ELSE Follow(R[n - 1])
             IN R[Cardinality(Object)]

Reachable == From({ptr[v] : v \in Var} \ {Nil})
\* The object is kept alive by a cycle, or lies on one.
Cyclic(o) == \E p \in Object : o \in From({p}) /\ p \in From({ptr[p]} \ {Nil})

\* An object nobody can reach any more is deleted, unless a cycle keeps it.
GarbageIsDeleted ==
    \A o \in Object :
       state[o] = "live" /\ o \notin Reachable /\ ~Cyclic(o)
          ~> state[o] = "deleted" \/ o \in Reachable \/ Cyclic(o)
-----------------------------------------------------------------------------
(* Why all of this holds.  A reference is always in one hand: in a slot, or *)
(* with a thread that has counted it and not stored it yet, or with one     *)
(* that has overwritten it, or is about to, and not released it yet.        *)

\* What a plan, the micro steps that are left of an operation, does.
Stores(q, s)      == \E i \in DOMAIN q : q[i].do = "store" /\ q[i].slot = s
Releases(q, o)    == \E i \in DOMAIN q : q[i].do = "release" /\ q[i].obj = o
StoresFirst(q, o) == q # <<>> /\ Head(q).do = "store" /\ Head(q).obj = o
OnlyCounts(q)     == q # <<>> /\ q = <<AddRef(Head(q).obj)>>

\* A constructor stores first and counts then: one of the slots that the thread uses has a
\* pointer that is not counted.
Candidates(t) == {s \in using[t] : ptr[s] = Head(todo[t]).obj}
FreshSlot(t)  == CHOOSE s \in Candidates(t) : TRUE

Disturbs(t, s) == \/ Stores(todo[t], s)
                  \/ OnlyCounts(todo[t]) /\ s = FreshSlot(t)

SlotHolders(o)    == {s \in Slot : ptr[s] = o /\ \A t \in Thread : ~Disturbs(t, s)}
StoreHolders(o)   == {t \in Thread : StoresFirst(todo[t], o)}
ReleaseHolders(o) == {t \in Thread : Releases(todo[t], o)}
Holds(t, o) == \/ StoresFirst(todo[t], o) \/ Releases(todo[t], o)
               \/ \E s \in using[t] : s \in SlotHolders(o)

CountKnown ==
    \A o \in Object : count[o] = Cardinality(SlotHolders(o)) + Cardinality(StoreHolders(o))
                                     + Cardinality(ReleaseHolders(o))

\* What operations can have left to do.  The object that a constructor has still to count
\* is new and nobody else's, or there is another pointer to it.
Destruction(o) == Do("delete", o, Nil)
PlanKnown(t) ==
    \/ todo[t] = <<>>
    \/ \E o \in Object :
          \/ todo[t] = <<AddRef(o)>>
             /\ \/ \E x, y \in using[t] : x # y /\ ptr[x] = o /\ ptr[y] = o
                \/ /\ count[o] = 0 /\ \E x \in using[t] : ptr[x] = o
                   /\ \A u \in Thread \ {t} : todo[u] # <<AddRef(o)>>
          \/ todo[t] = <<Release(o)>> /\ using[t] # {}
          \/ todo[t] = <<Destruction(o)>> /\ using[t] # {}
    \/ \E s \in using[t], p \in Pointer :
          \/ todo[t] = StoreSteps(s, p)
          \/ todo[t] = AssignSteps(s, p) /\ \E r \in using[t] : ptr[r] = p
PlansKnown == \A t \in Thread : PlanKnown(t)

UsingKnown == \A t, u \in Thread : t # u => using[t] \cap using[u] = {}

LiveKnown ==
    /\ \A s \in Slot : ptr[s] # Nil => state[ptr[s]] = "live"
    /\ \A o \in Object : state[o] # "live" => ptr[o] = Nil /\ count[o] = 0

\* Who uses the member of an object holds a reference to the object, until it has
\* released that, and perhaps deleted the object.
HoldsKnown ==
    \A t \in Thread : \A x \in using[t] \cap Object :
       todo[t] # <<>> =>
          \/ Holds(t, x)
          \/ /\ Head(todo[t]).do \in {"release", "delete"}
             /\ state[x] = "live" => todo[t] = <<Destruction(x)>>

DestructionKnown ==
    \A t \in Thread, o \in Object : todo[t] = <<Destruction(o)>> =>
       /\ state[o] = "live" /\ count[o] = 0
       /\ \A s \in Slot : ptr[s] # o
       /\ \A u \in Thread \ {t} : todo[u] # <<Destruction(o)>>
       /\ released[o] \subseteq view[t]

\* What is known where a reference is, and by all who hold one or released one.
KnownAt(s) == handed[s] \cup UNION {view[t] : t \in {u \in Thread : s \in using[u]}}
Known(o) == {n \in 1..MaxUses : \/ n \in released[o]
                                \/ \E s \in SlotHolders(o) : n \in KnownAt(s)
                                \/ \E t \in StoreHolders(o) \cup ReleaseHolders(o) : n \in view[t]}

MemoryKnown ==
    \A o \in Object :
       /\ state[o] = "unborn" => /\ uses[o] = {} /\ handed[o] = {}
                                /\ \A t \in Thread : o \notin using[t]
       /\ state[o] = "live" =>
             /\ uses[o] \subseteq Known(o) /\ handed[o] \subseteq Known(o)
             /\ \A t \in Thread : o \in using[t] => view[t] \subseteq Known(o)

RefInv == /\ RefTypeOK /\ CountKnown /\ PlansKnown /\ UsingKnown /\ LiveKnown /\ HoldsKnown
          /\ DestructionKnown /\ MemoryKnown
=============================================================================

--------------------------------- MODULE Once -------------------------------
(***************************************************************************)
(* base::OnceInit (base/once.h, base/once.cc): a closure is run by the     *)
(* first thread that gets there, the others wait by spinning.  A closure   *)
(* may itself call OnceInit on other onces (the test Recursive does).      *)
(*                                                                         *)
(* A step is one access to the atomic word, or the part of a closure       *)
(* between two such accesses.  Memory order is modelled by what a thread   *)
(* is guaranteed to see: a release store publishes everything its thread   *)
(* has seen so far, and an acquire load that reads it sees all of that.    *)
(***************************************************************************)
EXTENDS Integers, Sequences

CONSTANTS Thread, OnceId,
          Needs,           \* the onces each closure initializes, in order
          ClosureMayThrow  \* may a closure leave by an exception?

ASSUME OnceAssumption == /\ Needs \in [OnceId -> Seq(OnceId)]
                         /\ ClosureMayThrow \in BOOLEAN

VARIABLES state,      \* the atomic word of each once
          stack,      \* per thread, the calls of OnceInit it is in
          seen,       \* per thread, the onces whose effects it is sure to see
          published,  \* per once, what its last release store published
          runs,       \* history: how often each closure was started
          returned,   \* history: per thread, the onces a call returned from
          thrown      \* history: the onces whose closure threw

vars == <<state, stack, seen, published, runs, returned, thrown>>

-----------------------------------------------------------------------------
OnceState == {"UNINITIALIZED", "EXECUTING_CLOSURE", "DONE"}

\* Where a call is: about to load in OnceInit or in OnceInitImpl, about to
\* compare and swap, in the closure (next: how many needs it has called),
\* about to store, or spinning.
Place == {"fast", "load", "swap", "closure", "store", "spin"}

Frame == [once : OnceId, at : Place, next : Nat]

NewCall(o) == [once |-> o, at |-> "fast", next |-> 0]

Top(t)     == stack[t][Len(stack[t])]
Callers(t) == SubSeq(stack[t], 1, Len(stack[t]) - 1)
At(t, p)   == stack[t] # <<>> /\ Top(t).at = p

Goto(t, p) == stack' = [stack EXCEPT ![t] = Append(Callers(t), [Top(t) EXCEPT !.at = p])]

Return(t) == /\ stack' = [stack EXCEPT ![t] = Callers(t)]
             /\ returned' = [returned EXCEPT ![t] = @ \cup {Top(t).once}]

\* What an acquire load that read DONE makes visible, and what a release store
\* publishes.  (A load that is not up to date can only miss DONE, and is then as
\* good as an earlier load.)
\* Variants: a relaxed load, a relaxed store.
AcquireNothing(t, o) == seen[t]
Acquired(t, o)       == seen[t] \cup published[o]

ReleaseNothing(t) == {}
Released(t)       == seen[t]

\* A load that returns from the call if it reads DONE, and goes to p otherwise.
LoadOrGoto(t, p) ==
    LET o == Top(t).once IN
    \/ /\ state[o] = "DONE"
       /\ seen' = [seen EXCEPT ![t] = Acquired(t, o)]
       /\ Return(t)
    \/ /\ state[o] # "DONE"
       /\ Goto(t, p)
       /\ UNCHANGED <<seen, returned>>

-----------------------------------------------------------------------------
\* The application calls OnceInit.
Call(t, o) ==
    /\ stack[t] = <<>>
    /\ stack' = [stack EXCEPT ![t] = <<NewCall(o)>>]
    /\ UNCHANGED <<state, seen, published, runs, returned, thrown>>

\* OnceInit's own load, and the first load of OnceInitImpl.
FastLoad(t) == /\ At(t, "fast") /\ LoadOrGoto(t, "load")
               /\ UNCHANGED <<state, published, runs, thrown>>

FirstLoad(t) == /\ At(t, "load") /\ LoadOrGoto(t, "swap")
                /\ UNCHANGED <<state, published, runs, thrown>>

\* Acquire_CompareAndSwap from UNINITIALIZED to EXECUTING_CLOSURE.
\* Variant: a load and a separate store, both threads may win.
LoadThenStore(t) ==
    /\ At(t, "swap")
    /\ LET o == Top(t).once IN
       /\ state' = [state EXCEPT ![o] = "EXECUTING_CLOSURE"]
       /\ Goto(t, "closure")
       /\ runs' = [runs EXCEPT ![o] = @ + 1]
       /\ UNCHANGED <<seen, returned>>
    /\ UNCHANGED <<published, thrown>>

CompareAndSwap(t) ==
    /\ At(t, "swap")
    /\ LET o == Top(t).once IN
       \/ /\ state[o] = "UNINITIALIZED"
          /\ state' = [state EXCEPT ![o] = "EXECUTING_CLOSURE"]
          /\ Goto(t, "closure")
          /\ runs' = [runs EXCEPT ![o] = @ + 1]
          /\ UNCHANGED <<seen, returned>>
       \/ /\ state[o] # "UNINITIALIZED"
          /\ LoadOrGoto(t, "spin")
          /\ UNCHANGED <<state, runs>>
    /\ UNCHANGED <<published, thrown>>

\* The loop of OnceInitImpl: yield and load again.
Spin(t) ==
    /\ At(t, "spin")
    /\ LoadOrGoto(t, "spin")
    /\ UNCHANGED <<state, published, runs, thrown>>

\* The closure calls OnceInit on the next once it needs ...
ClosureNeeds(t) ==
    /\ At(t, "closure")
    /\ LET f == Top(t) IN
       /\ f.next < Len(Needs[f.once])
       /\ stack' = [stack EXCEPT ![t] =
             Append(Append(Callers(t), [f EXCEPT !.next = @ + 1]),
                    NewCall(Needs[f.once][f.next + 1]))]
    /\ UNCHANGED <<state, seen, published, runs, returned, thrown>>

\* ... and has its own effect when it has called them all.
ClosureEnds(t) ==
    /\ At(t, "closure")
    /\ LET f == Top(t) IN
       /\ f.next = Len(Needs[f.once])
       /\ seen' = [seen EXCEPT ![t] = @ \cup {f.once}]
    /\ Goto(t, "store")
    /\ UNCHANGED <<state, published, runs, returned, thrown>>

\* An exception leaves every call the thread is in (no closure catches it); no
\* state is reset.
Throw(t) ==
    /\ ClosureMayThrow /\ At(t, "closure")
    /\ thrown' = thrown \cup {stack[t][i].once : i \in 1..Len(stack[t])}
    /\ stack' = [stack EXCEPT ![t] = <<>>]
    /\ UNCHANGED <<state, seen, published, runs, returned>>

\* Release_Store of DONE.
\* Variant: the store is forgotten on the way out.
StoreNothing(t) ==
    /\ At(t, "store")
    /\ Return(t)
    /\ UNCHANGED <<state, published, seen, runs, thrown>>

StoreDone(t) ==
    /\ At(t, "store")
    /\ LET o == Top(t).once IN
       /\ state' = [state EXCEPT ![o] = "DONE"]
       /\ published' = [published EXCEPT ![o] = Released(t)]
    /\ Return(t)
    /\ UNCHANGED <<seen, runs, thrown>>

-----------------------------------------------------------------------------
\* Variant: a once declared without ONCE_INIT.
InitForgotten == /\ state = [o \in OnceId |-> "GARBAGE"]
                 /\ stack = [t \in Thread |-> <<>>]
                 /\ seen = [t \in Thread |-> {}]
                 /\ published = [o \in OnceId |-> {}]
                 /\ runs = [o \in OnceId |-> 0]
                 /\ returned = [t \in Thread |-> {}]
                 /\ thrown = {}

Init == /\ state = [o \in OnceId |-> "UNINITIALIZED"]
        /\ stack = [t \in Thread |-> <<>>]
        /\ seen = [t \in Thread |-> {}]
        /\ published = [o \in OnceId |-> {}]
        /\ runs = [o \in OnceId |-> 0]
        /\ returned = [t \in Thread |-> {}]
        /\ thrown = {}

Step(t) == \/ FastLoad(t) \/ FirstLoad(t) \/ CompareAndSwap(t) \/ Spin(t)
           \/ ClosureNeeds(t) \/ ClosureEnds(t) \/ StoreDone(t)

Next == \E t \in Thread : \/ \E o \in OnceId : Call(t, o)
                          \/ Step(t)
                          \/ Throw(t)

Spec == Init /\ [][Next]_vars

\* The scheduler runs every thread that is inside OnceInit.
FairSpec == Spec /\ \A t \in Thread : WF_vars(Step(t))
-----------------------------------------------------------------------------
\* Every variable has its type.
TypeOK == /\ state \in [OnceId -> OnceState]
          /\ stack \in [Thread -> Seq(Frame)]
          /\ seen \in [Thread -> SUBSET OnceId]
          /\ published \in [OnceId -> SUBSET OnceId]
          /\ runs \in [OnceId -> Nat]
          /\ returned \in [Thread -> SUBSET OnceId]
          /\ thrown \subseteq OnceId

\* A closure is started at most once, whoever calls whatever at the same time,
\* and even if it throws.
RunsAtMostOnce == \A o \in OnceId : runs[o] <= 1

\* A call that returns, by whichever of its four loads or its own store, has
\* the whole effect of the closure, and of those it needed, before it.
NeedsOf(o) == {Needs[o][i] : i \in 1..Len(Needs[o])}

ReturnedSeesInit ==
    \A t \in Thread : \A o \in returned[t] : {o} \cup NeedsOf(o) \subseteq seen[t]

\* A once that is EXECUTING_CLOSURE has exactly one thread at work on it, which
\* is not waiting for itself, or its closure threw and it stays so for ever.
Working(t, o) == \E i \in 1..Len(stack[t]) :
                    stack[t][i].once = o /\ stack[t][i].at \in {"closure", "store"}

ExecutingHasWorker ==
    \A o \in OnceId :
        /\ state[o] = "EXECUTING_CLOSURE"
              => o \in thrown \/ \E t \in Thread : Working(t, o)
        /\ \A t \in Thread : Working(t, o)
              => /\ state[o] = "EXECUTING_CLOSURE"
                 /\ \A u \in Thread : Working(u, o) => u = t

\* Every call returns, if no closure needs itself through others and none
\* throws: crossing calls of several threads do not wait for each other.
CallsReturn == \A t \in Thread : stack[t] # <<>> ~> stack[t] = <<>>
=============================================================================

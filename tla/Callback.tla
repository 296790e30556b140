------------------------------- MODULE Callback ------------------------------
(***************************************************************************)
(* base::Callback (src/base/callback.h, callback_internal.cc) and          *)
(* ScopedClosureRunner (src/base/callback_helpers.cc).                     *)
(*                                                                         *)
(* One thread: the counts under threads are those of module RefCounted.    *)
(* The hard part here is re-entrancy.  A closure that runs may do anything *)
(* to any callback and any runner, also to the one it is run through.  It  *)
(* is a frame on the stack; some frames have a copy of the closure in a    *)
(* local variable, others run it in place.                                 *)
(***************************************************************************)
EXTENDS Integers, Sequences, FiniteSets

CONSTANTS CallbackVar, \* callback variables of the program
          Runner,      \* variables of type ScopedClosureRunner
          BindState,   \* what Bind makes: a function and its arguments
          NoBind,      \* the null pointer
          MaxDepth     \* bound: frames on the stack

CallbackAssumption == /\ NoBind \notin BindState \cup CallbackVar \cup Runner
                      /\ CallbackVar \cap Runner = {}
                      /\ IsFiniteSet(CallbackVar) /\ IsFiniteSet(Runner)
                      /\ MaxDepth \in Nat

VARIABLES bind_state, \* of each callback; a runner is named by its closure_
          invoke,     \* polymorphic_invoke_: whose function it is
          binds,      \* ref_count_ of the bind states, and those that were destroyed
          runners,    \* "none", "live" or "dying"
          stack,      \* the closures that are running, the innermost last
          owed        \* history: runs that runners owe for each bind state

closureVars == <<bind_state, invoke, binds, runners, stack, owed>>
callbacks == <<bind_state, invoke>>

Callbacks == CallbackVar \cup Runner

-----------------------------------------------------------------------------
AddBindRef(h, b) ==
    IF b = NoBind THEN h ELSE [refs |-> [h.refs EXCEPT ![b] = @ + 1], dead |-> h.dead]
ReleaseBind(h, b) ==
    IF b = NoBind THEN h
    ELSE [refs |-> [h.refs EXCEPT ![b] = @ - 1],
          dead |-> IF h.refs[b] = 1 THEN h.dead \cup {b} ELSE h.dead]

\* Variant: the old one first.
ReassignedEarly(h, b, old) == AddBindRef(ReleaseBind(h, old), b)
\* bind_state_ = b, by a copy: the new one first.
Reassigned(h, b, old) == ReleaseBind(AddBindRef(h, b), old)

is_null(c) == bind_state[c] = NoBind

\* What c becomes, and what the callback that it took b from becomes.
Becomes(c, b, f) == /\ bind_state' = [bind_state EXCEPT ![c] = b]
                    /\ invoke' = [invoke EXCEPT ![c] = f]
Moves(c, d) ==
    /\ bind_state' = [bind_state EXCEPT ![d] = NoBind, ![c] = bind_state[d]]
    /\ invoke' = [invoke EXCEPT ![c] = invoke[d]]

\* The runs owed change: minus those of a, plus those of b.
Owes(a, b) == owed' = [x \in BindState |-> owed[x] - (IF x = a THEN 1 ELSE 0)
                                                   + (IF x = b THEN 1 ELSE 0)]

-----------------------------------------------------------------------------
(* Callback.                                                               *)

Bind(c, b) == /\ binds.refs[b] = 0 /\ b \notin binds.dead
              /\ Becomes(c, b, b)
              /\ binds' = ReleaseBind(AddBindRef(binds, b), bind_state[c])
              /\ UNCHANGED <<runners, stack, owed>>

\* Variant: only the bind state.
CopyAssignBound(c, d) == /\ bind_state' = [bind_state EXCEPT ![c] = bind_state[d]]
                         /\ binds' = Reassigned(binds, bind_state[d], bind_state[c])
                         /\ UNCHANGED <<invoke, runners, stack, owed>>
CopyAssign(c, d) == /\ Becomes(c, bind_state[d], invoke[d])
                    /\ binds' = Reassigned(binds, bind_state[d], bind_state[c])
                    /\ UNCHANGED <<runners, stack, owed>>

\* Onto itself it changes nothing.
MoveAssign(c, d) == /\ IF c = d THEN UNCHANGED <<callbacks, binds>>
                       ELSE Moves(c, d) /\ binds' = ReleaseBind(binds, bind_state[c])
                    /\ UNCHANGED <<runners, stack, owed>>

\* Variant: released by hand, and again by the assignment.
ResetTwice(c) == /\ Becomes(c, NoBind, NoBind)
                 /\ binds' = ReleaseBind(ReleaseBind(binds, bind_state[c]), bind_state[c])
                 /\ UNCHANGED <<runners, stack, owed>>
Reset(c) == /\ Becomes(c, NoBind, NoBind)
            /\ binds' = ReleaseBind(binds, bind_state[c])
            /\ UNCHANGED <<runners, stack, owed>>

EqualsInternal(c, d) ==
    IF is_null(c) \/ is_null(d) THEN bind_state[c] = bind_state[d]
    ELSE bind_state[c] = bind_state[d] /\ invoke[c] = invoke[d]

\* A closure runs; `through' is the callback it is run in place through, NoBind if the
\* frame has a copy of its own.
Enter(b, through) == /\ Len(stack) < MaxDepth
                     /\ stack' = Append(stack, [bind |-> b, through |-> through])

Run(c) == /\ ~is_null(c)
          /\ Enter(bind_state[c], c)
          /\ UNCHANGED <<callbacks, binds, runners, owed>>

\* ResetAndReturn(&c).Run(): the reference goes from c to the frame.
ResetAndReturn(c) == /\ ~is_null(c)
                     /\ Enter(bind_state[c], NoBind)
                     /\ Becomes(c, NoBind, NoBind)
                     /\ binds' = ReleaseBind(AddBindRef(binds, bind_state[c]), bind_state[c])
                     /\ UNCHANGED <<runners, owed>>

-----------------------------------------------------------------------------
(* ScopedClosureRunner.  A runner that is being destroyed is not used.     *)

Live(r) == runners[r] = "live"

ConstructRunner(r, c) ==
    /\ runners[r] = "none"
    /\ runners' = [runners EXCEPT ![r] = "live"]
    /\ Becomes(r, bind_state[c], invoke[c])
    /\ binds' = AddBindRef(binds, bind_state[c])
    /\ Owes(NoBind, bind_state[c])
    /\ UNCHANGED stack

\* Closure result = closure_; closure_.Reset(): o's closure is in a temporary, which
\* goes into r by a copy and is destroyed then.
ReleasedInto(r, o) ==
    /\ bind_state' = [bind_state EXCEPT ![o] = NoBind, ![r] = bind_state[o]]
    /\ invoke' = [invoke EXCEPT ![o] = NoBind, ![r] = invoke[o]]
    /\ LET temporary == ReleaseBind(AddBindRef(binds, bind_state[o]), bind_state[o])
           old == IF r = o THEN NoBind ELSE bind_state[r]
       IN  binds' = ReleaseBind(Reassigned(temporary, bind_state[o], old), bind_state[o])

MoveConstruct(r, o) == /\ runners[r] = "none" /\ Live(o)
                       /\ runners' = [runners EXCEPT ![r] = "live"]
                       /\ ReleasedInto(r, o)
                       /\ UNCHANGED <<stack, owed>>

MoveAssignRunner(r, o) == /\ Live(r) /\ Live(o)
                          /\ ReleasedInto(r, o)
                          /\ IF r = o THEN UNCHANGED owed ELSE Owes(bind_state[r], NoBind)
                          /\ UNCHANGED <<runners, stack>>

ReplaceClosure(r, c) == /\ Live(r)
                        /\ Becomes(r, bind_state[c], invoke[c])
                        /\ binds' = Reassigned(binds, bind_state[c], bind_state[r])
                        /\ Owes(bind_state[r], bind_state[c])
                        /\ UNCHANGED <<runners, stack>>

\* c = r.Release()
ReleaseRunner(r, c) == /\ Live(r)
                       /\ ReleasedInto(c, r)
                       /\ Owes(bind_state[r], NoBind)
                       /\ UNCHANGED <<runners, stack>>

\* Variant: in place, and reset when it is back.
RunAndResetInPlace(r) == /\ Live(r) /\ ~is_null(r)
                         /\ Enter(bind_state[r], r) /\ Owes(bind_state[r], NoBind)
                         /\ UNCHANGED <<callbacks, binds, runners>>

\* The local old_closure keeps it while it runs.
RunAndReset(r) == /\ Live(r) /\ ~is_null(r)
                  /\ Enter(bind_state[r], NoBind)
                  /\ Becomes(r, NoBind, NoBind)
                  /\ binds' = ReleaseBind(AddBindRef(binds, bind_state[r]), bind_state[r])
                  /\ Owes(bind_state[r], NoBind)
                  /\ UNCHANGED runners

\* Variant: closure_ is reset before it is run.
DestroyRunnerResetFirst(r) ==
    /\ Live(r)
    /\ IF is_null(r)
       THEN /\ runners' = [runners EXCEPT ![r] = "none"]
            /\ UNCHANGED <<stack, owed, callbacks, binds>>
       ELSE /\ Enter(bind_state[r], r) /\ Becomes(r, NoBind, NoBind)
            /\ binds' = ReleaseBind(binds, bind_state[r])
            /\ Owes(bind_state[r], NoBind)
            /\ runners' = [runners EXCEPT ![r] = "dying"]

\* The destructor: what is not null is run in place.
DestroyRunner(r) ==
    /\ Live(r)
    /\ IF is_null(r)
       THEN runners' = [runners EXCEPT ![r] = "none"] /\ UNCHANGED <<stack, owed>>
       ELSE /\ Enter(bind_state[r], r)
            /\ Owes(bind_state[r], NoBind)
            /\ runners' = [runners EXCEPT ![r] = "dying"]
    /\ UNCHANGED <<callbacks, binds>>

\* The innermost closure returns.  Its copy is destroyed, or the runner it was run by.
Return == /\ stack # <<>>
          /\ stack' = SubSeq(stack, 1, Len(stack) - 1)
          /\ LET b == stack[Len(stack)].bind
                 r == stack[Len(stack)].through
             IN  IF r = NoBind
                 THEN binds' = ReleaseBind(binds, b) /\ UNCHANGED <<callbacks, runners>>
                 ELSE IF r \in Runner
                 THEN /\ runners' = [runners EXCEPT ![r] = "none"]
                      /\ Becomes(r, NoBind, NoBind)
                      /\ binds' = ReleaseBind(binds, bind_state[r])
                 ELSE UNCHANGED <<callbacks, binds, runners>>
          /\ UNCHANGED owed

-----------------------------------------------------------------------------
ClosureInit == /\ bind_state = [c \in Callbacks |-> NoBind]
               /\ invoke = [c \in Callbacks |-> NoBind]
               /\ binds = [refs |-> [b \in BindState |-> 0], dead |-> {}]
               /\ runners = [r \in Runner |-> "none"]
               /\ stack = <<>>
               /\ owed = [b \in BindState |-> 0]

OnCallback(c) == \/ \E b \in BindState : Bind(c, b)
                 \/ \E d \in CallbackVar : CopyAssign(c, d) \/ MoveAssign(c, d)
                 \/ Reset(c) \/ Run(c) \/ ResetAndReturn(c)

OnRunner(r) == \/ \E c \in CallbackVar : \/ ConstructRunner(r, c) \/ ReplaceClosure(r, c)
                                         \/ ReleaseRunner(r, c)
               \/ \E o \in Runner : MoveConstruct(r, o) \/ MoveAssignRunner(r, o)
               \/ RunAndReset(r) \/ DestroyRunner(r)

ClosureNext == \/ \E c \in CallbackVar : OnCallback(c)
               \/ \E r \in Runner : OnRunner(r)
               \/ Return

ClosureSpec == ClosureInit /\ [][ClosureNext]_closureVars

-----------------------------------------------------------------------------
\* Who holds a bind state: callbacks and runners, and the local copies of what is running.
Holders(b)     == {c \in Callbacks : bind_state[c] = b}
LocalCopies(b) == {i \in DOMAIN stack : stack[i] = [bind |-> b, through |-> NoBind]}

\* The live runners that hold b.
Keepers(b) == {r \in Runner : Live(r) /\ bind_state[r] = b}

\* A bind state is destroyed with its last holder and never before: the count is that of
\* the callbacks, the runners and the local copies of what is running.
DestroyedWithTheLast ==
    \A b \in BindState :
      /\ binds.refs[b] = Cardinality(Holders(b)) + Cardinality(LocalCopies(b))
      /\ b \in binds.dead => binds.refs[b] = 0

\* A callback that is not null calls the function of its own arguments, and so two of them
\* are equal when they share them.
InvokesItsOwn ==
    /\ \A c \in Callbacks : ~is_null(c) => invoke[c] = bind_state[c]
    /\ \A c, d \in Callbacks : EqualsInternal(c, d) <=> bind_state[c] = bind_state[d]

\* What runs is not destroyed underneath, whatever it does to the runner or callback it
\* came from.  That takes the local copy: through a variable that is run in place, the
\* closure can destroy itself.
RunsOnSolidGround ==
    \A i \in DOMAIN stack :
      stack[i].bind \in binds.dead =>
        stack[i].through \in CallbackVar /\ bind_state[stack[i].through] # stack[i].bind

\* "ensures that the Closure is executed no matter how the current scope exits"
\* (callback_helpers.h:17), and "wont be called again" (callback_helpers.h:30): the runners
\* there are hold exactly the closures that were given to them and not yet run, replaced or
\* released.
RunsOnce == \A b \in BindState : owed[b] = Cardinality(Keepers(b))

\* callback.h, callback_internal.cc, callback_helpers.cc: what runs is not destroyed
\* underneath; a bind state dies with its last holder; equal callbacks call the same
\* function; a ScopedClosureRunner runs what it was given, and once.
ClosuresAreSafe == RunsOnSolidGround /\ DestroyedWithTheLast /\ InvokesItsOwn /\ RunsOnce

-----------------------------------------------------------------------------
(* The inductive invariant: who runs a closure in place while it is being   *)
(* destroyed still has it, and is run by that one frame.                    *)

Frame == [bind : BindState, through : Callbacks \cup {NoBind}]

ClosureTypeOK == /\ bind_state \in [Callbacks -> BindState \cup {NoBind}]
                 /\ invoke \in [Callbacks -> BindState \cup {NoBind}]
                 /\ binds \in [refs : [BindState -> Nat], dead : SUBSET BindState]
                 /\ runners \in [Runner -> {"none", "live", "dying"}]
                 /\ stack \in Seq(Frame)
                 /\ owed \in [BindState -> Int]

RunnersKnown == \A r \in Runner : runners[r] = "none" => bind_state[r] = NoBind

FramesKnown ==
    \A i \in DOMAIN stack : stack[i].through \in Runner =>
      /\ runners[stack[i].through] = "dying"
      /\ bind_state[stack[i].through] = stack[i].bind
      /\ \A j \in DOMAIN stack : stack[j].through = stack[i].through => j = i

FunctionsKnown == \A c \in Callbacks : bind_state[c] # NoBind => invoke[c] = bind_state[c]

ClosureInv == /\ ClosureTypeOK /\ RunnersKnown /\ FramesKnown /\ FunctionsKnown
              /\ DestroyedWithTheLast /\ RunsOnce
=============================================================================

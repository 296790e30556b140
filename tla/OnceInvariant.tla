----------------------------- MODULE OnceInvariant --------------------------
(***************************************************************************)
(* The inductive invariant of Once.  That a returning call sees what its   *)
(* closure needed depends on how far each closure on the call stacks has   *)
(* got; that a closure runs once, on who is working on what.               *)
(***************************************************************************)
EXTENDS Once

InClosure(f) == f.at \in {"closure", "store"}

\* On a call stack s, every call below the innermost is a closure that waits
\* for the call above it, and only closures have called anything.
Matched(s) ==
    \A i \in 1..Len(s) :
        /\ s[i].next <= Len(Needs[s[i].once])
        /\ ~InClosure(s[i]) => s[i].next = 0
        /\ i < Len(s) => /\ s[i].at = "closure" /\ s[i].next >= 1
                         /\ s[i + 1].once = Needs[s[i].once][s[i].next]

StacksMatch == \A t \in Thread : Matched(stack[t])

\* What a thread sees contains all that it depends on, and so does what a once
\* publishes.
Closed(effects) == \A o \in effects : NeedsOf(o) \subseteq effects

SeenInv ==
    /\ \A t \in Thread : Closed(seen[t]) /\ returned[t] \subseteq seen[t]
    /\ \A o \in OnceId : /\ Closed(published[o])
                         /\ state[o] = "DONE" => o \in published[o]

\* The thread of a closure sees the needs it has finished, and at the end the
\* closure's own effect.
Achieved(s, effects) ==
    \A i \in 1..Len(s) :
        /\ s[i].at = "closure" =>
              \A k \in 1..s[i].next :
                  k < s[i].next \/ i = Len(s) => Needs[s[i].once][k] \in effects
        /\ s[i].at = "store" => s[i].once \in effects

ProgressInv == \A t \in Thread : Achieved(stack[t], seen[t])

\* A once in execution has one frame at work on it, or its closure threw.
Depth(t) == 1..Len(stack[t])

WorksOn(t, i, o) == InClosure(stack[t][i]) /\ stack[t][i].once = o

OneWorker(o) ==
    \A t, u \in Thread : \A i \in Depth(t), j \in Depth(u) :
        WorksOn(t, i, o) /\ WorksOn(u, j, o) => t = u /\ i = j

WorkersExecute(o) ==
    \A t \in Thread : \A i \in Depth(t) :
        WorksOn(t, i, o) => state[o] = "EXECUTING_CLOSURE"

ExecutionWorked(o) ==
    state[o] = "EXECUTING_CLOSURE" =>
        o \in thrown \/ \E t \in Thread : \E i \in Depth(t) : WorksOn(t, i, o)

WorkersOf(o) == OneWorker(o) /\ WorkersExecute(o) /\ ExecutionWorked(o)

WorkersInv == \A o \in OnceId : WorkersOf(o)

RunsInv == \A o \in OnceId : runs[o] = IF state[o] = "UNINITIALIZED" THEN 0 ELSE 1

\* The inductive invariant: call stacks, visible effects, the words and the
\* number of times each closure was started agree.
OnceInv == /\ TypeOK
           /\ StacksMatch
           /\ SeenInv
           /\ ProgressInv
           /\ WorkersInv
           /\ RunsInv
=============================================================================

--------------------------------- MODULE Gate -------------------------------
(***************************************************************************)
(* What a latch promises: a gate that may open and then stays open, and    *)
(* visitors who wait before it and are all let through.                    *)
(***************************************************************************)
CONSTANT Visitor

VARIABLES open, waiting, passed

vars == <<open, waiting, passed>>

Init == open \in BOOLEAN /\ waiting = {} /\ passed = {}

Open == ~open /\ open' = TRUE /\ UNCHANGED <<waiting, passed>>

Arrive(v) == /\ v \notin waiting
             /\ waiting' = waiting \cup {v} /\ passed' = passed \ {v}
             /\ UNCHANGED open

Pass(v) == /\ open /\ v \in waiting
           /\ waiting' = waiting \ {v} /\ passed' = passed \cup {v}
           /\ UNCHANGED open

Next == Open \/ \E v \in Visitor : Arrive(v) \/ Pass(v)

Spec == Init /\ [][Next]_vars

FairSpec == Spec /\ \A v \in Visitor : WF_vars(Pass(v))
=============================================================================

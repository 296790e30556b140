--------------------------------- MODULE Fifo -------------------------------
(***************************************************************************)
(* What a blocking queue promises, without mutex or condition variable:    *)
(* items leave in the order in which they came, each is given to exactly   *)
(* one taker, a taker that insists is given an item and nothing else, and  *)
(* items do not lie there while a taker insists.                           *)
(***************************************************************************)
EXTENDS Integers, Sequences

CONSTANTS Taker, Item

VARIABLES items,     \* what is in the channel
          wanting,   \* takers that insist on an item
          given      \* what each taker was given last

vars == <<items, wanting, given>>

Init == items = <<>> /\ wanting = {} /\ given = [t \in Taker |-> <<>>]

\* The first k items go to t.
Give(t, k) == /\ k \in 0..Len(items)
              /\ given' = [given EXCEPT ![t] = SubSeq(items, 1, k)]
              /\ items' = SubSeq(items, k + 1, Len(items))

\* Items are only added at the end, and all of one call are the same.
Put(t) == /\ t \notin wanting
          /\ Len(items') >= Len(items)
          /\ SubSeq(items', 1, Len(items)) = items
          /\ \E item \in Item :
                \A i \in (Len(items) + 1)..Len(items') : items'[i] = item
          /\ given' = [given EXCEPT ![t] = <<>>]
          /\ UNCHANGED wanting

Insist(t) == /\ t \notin wanting
             /\ wanting' = wanting \cup {t}
             /\ UNCHANGED <<items, given>>

Satisfy(t) == t \in wanting /\ Give(t, 1) /\ wanting' = wanting \ {t}

Try(t) == /\ t \notin wanting
          /\ \E k \in 0..Len(items) : Give(t, k)
          /\ UNCHANGED wanting

Next == \E t \in Taker : Put(t) \/ Insist(t) \/ Satisfy(t) \/ Try(t)

Spec == Init /\ [][Next]_vars

FairSpec == Spec /\ WF_vars(\E t \in Taker : Satisfy(t))
=============================================================================

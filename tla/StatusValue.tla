----------------------------- MODULE StatusValue -----------------------------
(***************************************************************************)
(* What base::Status promises: a status is a value.  Copies share nothing, *)
(* and Update keeps the first error.                                       *)
(***************************************************************************)
CONSTANTS Status, Error, Ok, Gone

VARIABLES value,  \* of each status; Gone: no status lives there
          call    \* the last call: <<name, status, argument>>

vars == <<value, call>>

Init == value = [s \in Status |-> Gone] /\ call = <<"none">>

Lives(s) == value[s] # Gone

\* Called on s, whose value becomes v.
Call(fn, s, r, v) == call' = <<fn, s, r>> /\ value' = [value EXCEPT ![s] = v]

Make(s, e) == ~Lives(s) /\ Call("make", s, e, e)

Copy(s, r) == ~Lives(s) /\ Lives(r) /\ Call("copy", s, r, value[r])

Assign(s, r) == Lives(s) /\ Lives(r) /\ Call("assign", s, r, value[r])

Update(s, r) == /\ Lives(s) /\ Lives(r)
                /\ Call("update", s, r, IF value[s] = Ok THEN value[r] ELSE value[s])

Destroy(s) == Lives(s) /\ Call("destroy", s, s, Gone)

Next == \E s \in Status :
           \/ Destroy(s)
           \/ \E e \in Error \cup {Ok} : Make(s, e)
           \/ \E r \in Status : Copy(s, r) \/ Assign(s, r) \/ Update(s, r)

Spec == Init /\ [][Next]_vars
=============================================================================

-------------------------------- MODULE Status -------------------------------
(***************************************************************************)
(* base::Status (src/base/status.h, status.cc): a pointer to a State on    *)
(* the heap, null for OK.  Memory that is deleted has no value any more    *)
(* and may be handed out again.                                            *)
(***************************************************************************)
EXTENDS Naturals, FiniteSets

CONSTANTS Status,     \* the places where a Status can live
          Block,      \* memory for a State
          Error,      \* pairs of a code other than OK and a message
          Ok, Null, NoState, Gone

ASSUME StatusAssumption == /\ Null # Gone /\ {Null, Gone} \cap Block = {}
                           /\ Ok # NoState /\ Ok # Gone /\ NoState # Gone
                           /\ {Ok, NoState, Gone} \cap Error = {}

VARIABLES state_,   \* per place, the pointer; Gone if no Status lives there
          heap,     \* per block, the State in it; NoState if it is not allocated
          call      \* history: the last call

vars == <<state_, heap, call>>
memory == <<state_, heap>>

Lives(s) == state_[s] # Gone
ok(s) == state_[s] = Null

-----------------------------------------------------------------------------
\* new State(e): any block that is free.  The result is the heap and the pointer.
New(h, e) == {[heap |-> [h EXCEPT ![b] = e], ptr |-> b] : b \in {c \in Block : h[c] = NoState}}
Delete(h, p) == IF p = Null THEN h ELSE [h EXCEPT ![p] = NoState]
Copied(h, src) == IF src = Null THEN {[heap |-> h, ptr |-> Null]} ELSE New(h, h[src])

\* Status(code, msg); an assertion keeps OK out.
Construct(s, e) ==
    /\ ~Lives(s) /\ call' = <<"make", s, e>>
    /\ \E r \in New(heap, e) : heap' = r.heap /\ state_' = [state_ EXCEPT ![s] = r.ptr]

ConstructOk(s) == /\ ~Lives(s) /\ call' = <<"make", s, Ok>>
                  /\ state_' = [state_ EXCEPT ![s] = Null] /\ UNCHANGED heap

CopyConstruct(s, r) ==
    /\ ~Lives(s) /\ Lives(r) /\ call' = <<"copy", s, r>>
    /\ \E c \in Copied(heap, state_[r]) : heap' = c.heap /\ state_' = [state_ EXCEPT ![s] = c.ptr]

\* The old State is deleted, then the other's copied.
SlowCopyFrom(s, src) ==
    \E c \in Copied(Delete(heap, state_[s]), src) :
       heap' = c.heap /\ state_' = [state_ EXCEPT ![s] = c.ptr]

\* Variant: no test for an assignment to itself.
operator_assignAlways(s, r) == SlowCopyFrom(s, state_[r])
operator_assign(s, r) ==
    IF state_[s] # state_[r] THEN SlowCopyFrom(s, state_[r]) ELSE UNCHANGED memory

Assign(s, r) == /\ Lives(s) /\ Lives(r) /\ call' = <<"assign", s, r>>
                /\ operator_assign(s, r)

\* Variant: the last error is kept.
UpdateLast(s, r) == /\ Lives(s) /\ Lives(r) /\ call' = <<"update", s, r>>
                    /\ operator_assign(s, r)
Update(s, r) == /\ Lives(s) /\ Lives(r) /\ call' = <<"update", s, r>>
                /\ IF ok(s) THEN operator_assign(s, r) ELSE UNCHANGED memory

Destroy(s) == /\ Lives(s) /\ call' = <<"destroy", s, s>>
              /\ heap' = Delete(heap, state_[s]) /\ state_' = [state_ EXCEPT ![s] = Gone]

Init == state_ = [s \in Status |-> Gone] /\ heap = [b \in Block |-> NoState] /\ call = <<"none">>

Next == \E s \in Status :
           \/ ConstructOk(s) \/ Destroy(s)
           \/ \E e \in Error : Construct(s, e)
           \/ \E r \in Status : CopyConstruct(s, r) \/ Assign(s, r) \/ Update(s, r)

Spec == Init /\ [][Next]_vars

-----------------------------------------------------------------------------
\* Every State belongs to one status: none is shared, deleted while it is pointed to, or
\* left behind when its status is destroyed or assigned to.
StatesAreOwned ==
    \A b \in Block : Cardinality({s \in Status : state_[s] = b}) = IF heap[b] = NoState THEN 0 ELSE 1

\* A status behaves as a value, whatever was copied from it or assigned to it and in
\* whatever order the others die, and Update keeps the first error.
Abstract == INSTANCE StatusValue WITH
    value <- [s \in Status |-> IF state_[s] = Gone THEN Gone
                               ELSE IF state_[s] = Null THEN Ok ELSE heap[state_[s]]]
ImplementsValueInit == Abstract!Init
ImplementsValueStep == [Abstract!Next]_(Abstract!vars)
ImplementsValue == Abstract!Spec
=============================================================================

---------------------------- MODULE OwnershipProofs --------------------------
(***************************************************************************)
(* Status implements StatusValue, for any number of statuses and any heap. *)
(* The invariant is that pointers and States correspond one to one: only   *)
(* then does writing or deleting one State leave the value of every other  *)
(* status alone.                                                           *)
(*                                                                         *)
(* RefCounted is safe, for any number of threads, variables and objects.   *)
(* The invariant, RefInv, is stated in the module.  The operations all     *)
(* begin alike, and so do the steps go on alike: Opens... and Goes... say  *)
(* once what is then left to show of each.                                 *)
(*                                                                         *)
(* Callback is safe, for any number of variables, runners and frames.  The *)
(* invariant, ClosureInv, is in the module.  Three tallies go through all  *)
(* the steps: who holds a bind state (Counted), who runs it in place       *)
(* (Frames...), and the runs that runners owe (Owed...).                   *)
(*                                                                         *)
(* ScopedFile is safe, for any number of threads, scopers and descriptors. *)
(* The invariant, ScopedInv, is in the module: what is open is in one      *)
(* hand.  Hands... say which passings-on keep it so.                       *)
(***************************************************************************)
EXTENDS Status, RefCounted, Callback, ScopedFile, FiniteSetTheorems, SequenceTheorems, TLAPS

\* The values that module StatusValue sees.
Value == [s \in Status |-> IF state_[s] = Gone THEN Gone
                           ELSE IF state_[s] = Null THEN Ok ELSE heap[state_[s]]]

StatusTypeOK == /\ state_ \in [Status -> Block \cup {Null, Gone}]
                /\ heap \in [Block -> Error \cup {NoState}]

\* No two statuses have the same State, and a pointer is to a State that is there.
Unshared == \A s, r \in Status : state_[s] = state_[r] /\ state_[s] \in Block => s = r
NotDangling == \A s \in Status : state_[s] \in Block => heap[state_[s]] # NoState

\* Nothing is leaked.
Pointed == \A b \in Block : heap[b] # NoState => \E s \in Status : state_[s] = b

StatusInv == StatusTypeOK /\ Unshared /\ NotDangling /\ Pointed

-----------------------------------------------------------------------------
\* The heap after the State of s, if it has one, has been deleted.
Dropped(s) == IF state_[s] \in Block THEN [heap EXCEPT ![state_[s]] = NoState] ELSE heap

\* What an operation on s leaves: s has a new State, ...
Places(s, b, e) == /\ Dropped(s)[b] = NoState
                   /\ heap' = [Dropped(s) EXCEPT ![b] = e]
                   /\ state_' = [state_ EXCEPT ![s] = b]

\* ... or none.
Clears(s, p) == heap' = Dropped(s) /\ state_' = [state_ EXCEPT ![s] = p]

\* Deleting the State of s touches the State of no other status.
LEMMA DroppedOfOthers ==
  ASSUME StatusInv, NEW s \in Status
  PROVE  /\ Dropped(s) \in [Block -> Error \cup {NoState}]
         /\ \A r \in Status \ {s} :
               state_[r] \in Block => /\ Dropped(s)[state_[r]] = heap[state_[r]]
                                      /\ Dropped(s)[state_[r]] # NoState
         /\ \A b \in Block : Dropped(s)[b] # NoState => \E r \in Status \ {s} : state_[r] = b
<1>1. Dropped(s) \in [Block -> Error \cup {NoState}]
  BY DEF Dropped, StatusInv, StatusTypeOK
<1>2. ASSUME NEW r \in Status \ {s}, state_[r] \in Block
      PROVE  Dropped(s)[state_[r]] = heap[state_[r]] /\ Dropped(s)[state_[r]] # NoState
  BY <1>2 DEF Dropped, StatusInv, StatusTypeOK, Unshared, NotDangling
<1>3. ASSUME NEW b \in Block, Dropped(s)[b] # NoState
      PROVE  \E r \in Status \ {s} : state_[r] = b
  <2>1. heap[b] # NoState /\ state_[s] # b
    BY <1>3 DEF Dropped, StatusInv, StatusTypeOK
  <2>2. PICK r \in Status : state_[r] = b
    BY <2>1 DEF StatusInv, Pointed
  <2> QED
    BY <2>1, <2>2
<1> QED
  BY <1>1, <1>2, <1>3

\* A status gets a State of its own: no other value changes ...
LEMMA PlacesKeepsOthers ==
  ASSUME StatusInv, NEW s \in Status, NEW b \in Block, NEW e \in Error,
         Places(s, b, e)
  PROVE  StatusInv' /\ Value' = [Value EXCEPT ![s] = e]
<1>1. /\ state_ \in [Status -> Block \cup {Null, Gone}]
      /\ state_' = [state_ EXCEPT ![s] = b]
      /\ heap' = [Dropped(s) EXCEPT ![b] = e]
      /\ Dropped(s)[b] = NoState
  BY DEF StatusInv, StatusTypeOK, Places
<1>2. /\ Dropped(s) \in [Block -> Error \cup {NoState}]
      /\ \A r \in Status \ {s} :
            state_[r] \in Block => /\ Dropped(s)[state_[r]] = heap[state_[r]]
                                   /\ Dropped(s)[state_[r]] # NoState
      /\ \A c \in Block : Dropped(s)[c] # NoState => \E r \in Status \ {s} : state_[r] = c
  BY DroppedOfOthers
<1>3. e # NoState /\ b # Null /\ b # Gone
  BY StatusAssumption
<1>4. StatusTypeOK'
  BY <1>1, <1>2 DEF StatusTypeOK
<1>5. \A r \in Status \ {s} : state_'[r] = state_[r] /\ state_[r] # b
  BY <1>1, <1>2
<1>6. Unshared'
  BY <1>1, <1>5 DEF Unshared, StatusInv
<1>7. \A r \in Status \ {s} : state_[r] \in Block => heap'[state_[r]] = heap[state_[r]]
  BY <1>1, <1>2, <1>5
<1>8. NotDangling'
  BY <1>1, <1>2, <1>3, <1>5, <1>7 DEF NotDangling
<1>9. Pointed'
  <2> SUFFICES ASSUME NEW c \in Block, heap'[c] # NoState
               PROVE  \E r \in Status : state_'[r] = c
    BY DEF Pointed
  <2>1. CASE c = b
    BY <2>1, <1>1
  <2>2. CASE c # b
    <3>1. Dropped(s)[c] # NoState
      BY <2>2, <1>1, <1>2
    <3>2. PICK r \in Status \ {s} : state_[r] = c
      BY <3>1, <1>2
    <3> QED
      BY <3>2, <1>5
  <2> QED
    BY <2>1, <2>2
<1>10. Value' = [Value EXCEPT ![s] = e]
  <2> SUFFICES ASSUME NEW r \in Status
               PROVE  (IF state_'[r] = Gone THEN Gone
                       ELSE IF state_'[r] = Null THEN Ok ELSE heap'[state_'[r]])
                      = IF r = s THEN e ELSE Value[r]
    BY DEF Value
  <2>1. CASE r = s
    BY <2>1, <1>1, <1>2, <1>3
  <2>2. CASE r # s
    BY <2>2, <1>1, <1>5, <1>7 DEF Value
  <2> QED
    BY <2>1, <2>2
<1> QED
  BY <1>4, <1>6, <1>8, <1>9, <1>10 DEF StatusInv

\* ... and neither when it loses the one it had.
LEMMA ClearsKeepsOthers ==
  ASSUME StatusInv, NEW s \in Status, NEW p \in {Null, Gone}, Clears(s, p)
  PROVE  StatusInv' /\ Value' = [Value EXCEPT ![s] = IF p = Gone THEN Gone ELSE Ok]
<1>1. /\ state_ \in [Status -> Block \cup {Null, Gone}]
      /\ state_' = [state_ EXCEPT ![s] = p]
      /\ heap' = Dropped(s)
  BY DEF StatusInv, StatusTypeOK, Clears
<1>2. /\ Dropped(s) \in [Block -> Error \cup {NoState}]
      /\ \A r \in Status \ {s} :
            state_[r] \in Block => /\ Dropped(s)[state_[r]] = heap[state_[r]]
                                   /\ Dropped(s)[state_[r]] # NoState
      /\ \A c \in Block : Dropped(s)[c] # NoState => \E r \in Status \ {s} : state_[r] = c
  BY DroppedOfOthers
<1>3. p \notin Block /\ Null # Gone
  BY StatusAssumption
<1>4. StatusTypeOK'
  BY <1>1, <1>2 DEF StatusTypeOK
<1>5. \A r \in Status \ {s} : state_'[r] = state_[r]
  BY <1>1
<1>6. Unshared'
  BY <1>1, <1>3, <1>5 DEF Unshared, StatusInv
<1>7. NotDangling'
  BY <1>1, <1>2, <1>3, <1>5 DEF NotDangling
<1>8. Pointed'
  BY <1>1, <1>2, <1>5 DEF Pointed
<1>9. Value' = [Value EXCEPT ![s] = IF p = Gone THEN Gone ELSE Ok]
  <2> SUFFICES ASSUME NEW r \in Status
               PROVE  (IF state_'[r] = Gone THEN Gone
                       ELSE IF state_'[r] = Null THEN Ok ELSE heap'[state_'[r]])
                      = IF r = s THEN (IF p = Gone THEN Gone ELSE Ok) ELSE Value[r]
    BY DEF Value
  <2>1. CASE r = s
    BY <2>1, <1>1, <1>3
  <2>2. CASE r # s
    BY <2>2, <1>1, <1>2, <1>5 DEF Value
  <2> QED
    BY <2>1, <2>2
<1> QED
  BY <1>4, <1>6, <1>7, <1>8, <1>9 DEF StatusInv

-----------------------------------------------------------------------------
(* Every operation, as StatusValue has it.                                  *)

\* new takes a block that holds nothing.
LEMMA NewIsFree ==
  ASSUME NEW h, NEW e, NEW c \in New(h, e)
  PROVE  \E b \in Block : h[b] = NoState /\ c.heap = [h EXCEPT ![b] = e] /\ c.ptr = b
<1>1. PICK b \in {d \in Block : h[d] = NoState} : c = [heap |-> [h EXCEPT ![b] = e], ptr |-> b]
  BY DEF New
<1>2. c.heap = [h EXCEPT ![b] = e] /\ c.ptr = b
  BY <1>1
<1> QED
  BY <1>1, <1>2

\* Status(code, message).
LEMMA ConstructStep ==
  ASSUME StatusInv, NEW s \in Status, NEW e \in Error, Construct(s, e)
  PROVE  StatusInv' /\ Value[s] = Gone /\ Value' = [Value EXCEPT ![s] = e]
<1>1. /\ state_[s] = Gone
      /\ \E b \in Block : /\ heap[b] = NoState /\ heap' = [heap EXCEPT ![b] = e]
                          /\ state_' = [state_ EXCEPT ![s] = b]
  <2>1. PICK c \in New(heap, e) : heap' = c.heap /\ state_' = [state_ EXCEPT ![s] = c.ptr]
    BY DEF Construct
  <2>2. PICK b \in Block : heap[b] = NoState /\ c = [heap |-> [heap EXCEPT ![b] = e], ptr |-> b]
    BY DEF New
  <2> QED
    BY <2>1, <2>2 DEF Construct, Lives
<1>2. Dropped(s) = heap
  BY <1>1, StatusAssumption DEF Dropped
<1>3. PICK b \in Block : Places(s, b, e)
  BY <1>1, <1>2 DEF Places
<1> QED
  BY <1>1, <1>3, PlacesKeepsOthers DEF Value

\* Status().
LEMMA ConstructOkStep ==
  ASSUME StatusInv, NEW s \in Status, ConstructOk(s)
  PROVE  StatusInv' /\ Value[s] = Gone /\ Value' = [Value EXCEPT ![s] = Ok]
<1>1. state_[s] = Gone /\ state_' = [state_ EXCEPT ![s] = Null] /\ heap' = heap
  BY DEF ConstructOk, Lives
<1>2. Clears(s, Null) /\ Null # Gone
  BY <1>1, StatusAssumption DEF Clears, Dropped
<1> QED
  BY <1>1, <1>2, ClearsKeepsOthers DEF Value

\* SlowCopyFrom, and the copy constructor: s gets the value of another status.
LEMMA CopiedStep ==
  ASSUME StatusInv, NEW s \in Status, NEW r \in Status, s # r,
         state_[r] # Gone,
         \E c \in Copied(Dropped(s), state_[r]) :
            heap' = c.heap /\ state_' = [state_ EXCEPT ![s] = c.ptr]
  PROVE  StatusInv' /\ Value' = [Value EXCEPT ![s] = Value[r]]
<1>1. CASE state_[r] = Null
  <2>1. Clears(s, Null) /\ Null # Gone /\ Value[r] = Ok
    <3>1. PICK c \in {[heap |-> Dropped(s), ptr |-> Null]} :
              heap' = c.heap /\ state_' = [state_ EXCEPT ![s] = c.ptr]
      BY <1>1 DEF Copied
    <3>2. c.heap = Dropped(s) /\ c.ptr = Null
      BY <3>1
    <3> QED
      BY <1>1, <3>1, <3>2, StatusAssumption DEF Clears, Value
  <2> QED
    BY <2>1, ClearsKeepsOthers
<1>2. CASE state_[r] # Null
  <2>1. state_[r] \in Block
    BY <1>2 DEF StatusInv, StatusTypeOK
  <2>2. /\ Dropped(s)[state_[r]] = heap[state_[r]]
        /\ heap[state_[r]] # NoState
    BY <2>1, DroppedOfOthers
  <2>3. heap[state_[r]] \in Error /\ Value[r] = heap[state_[r]]
    BY <1>2, <2>1, <2>2 DEF StatusInv, StatusTypeOK, Value
  <2>4. PICK b \in Block : Places(s, b, heap[state_[r]])
    <3>1. PICK c \in New(Dropped(s), heap[state_[r]]) :
              heap' = c.heap /\ state_' = [state_ EXCEPT ![s] = c.ptr]
      BY <1>2, <2>2 DEF Copied
    <3>2. PICK b \in Block : /\ Dropped(s)[b] = NoState /\ c.ptr = b
                             /\ c.heap = [Dropped(s) EXCEPT ![b] = heap[state_[r]]]
      BY <3>1, NewIsFree
    <3> QED
      BY <3>1, <3>2 DEF Places
  <2> QED
    BY <2>3, <2>4, PlacesKeepsOthers
<1> QED
  BY <1>1, <1>2

\* Status(const Status&).
LEMMA CopyConstructStep ==
  ASSUME StatusInv, NEW s \in Status, NEW r \in Status, CopyConstruct(s, r)
  PROVE  /\ StatusInv' /\ Value[s] = Gone /\ Value[r] # Gone
         /\ Value' = [Value EXCEPT ![s] = Value[r]]
<1>1. /\ state_[s] = Gone /\ state_[r] # Gone
      /\ \E c \in Copied(heap, state_[r]) :
            heap' = c.heap /\ state_' = [state_ EXCEPT ![s] = c.ptr]
  BY DEF CopyConstruct, Lives
<1>2. Dropped(s) = heap /\ s # r
  BY <1>1, StatusAssumption DEF Dropped
<1>3. StatusInv' /\ Value' = [Value EXCEPT ![s] = Value[r]]
  BY <1>1, <1>2, CopiedStep
<1>4. Value[r] # Gone
  BY <1>1, StatusAssumption DEF Value, StatusInv, StatusTypeOK, NotDangling
<1> QED
  BY <1>1, <1>3, <1>4 DEF Value

\* Two statuses have the same pointer only if both are OK, or are the same.
LEMMA AssignStep ==
  ASSUME StatusInv, NEW s \in Status, NEW r \in Status,
         Lives(s), Lives(r), operator_assign(s, r)
  PROVE  StatusInv' /\ Value' = [Value EXCEPT ![s] = Value[r]]
<1>1. CASE state_[s] # state_[r]
  <2>1. Delete(heap, state_[s]) = Dropped(s)
    BY StatusAssumption DEF Delete, Dropped, Lives, StatusInv, StatusTypeOK
  <2> QED
    BY <1>1, <2>1, CopiedStep DEF operator_assign, SlowCopyFrom, Lives
<1>2. CASE state_[s] = state_[r]
  <2>1. state_' = state_ /\ heap' = heap
    BY <1>2 DEF operator_assign, memory
  <2>2. StatusInv'
    BY <2>1 DEF StatusInv, StatusTypeOK, Unshared, NotDangling, Pointed
  <2>3. Value' = Value /\ Value[s] = Value[r]
    BY <1>2, <2>1 DEF Value
  <2>4. Value = [Value EXCEPT ![s] = Value[r]]
    BY <2>3 DEF Value
  <2> QED
    BY <2>2, <2>3, <2>4
<1> QED
  BY <1>1, <1>2

\* ~Status.
LEMMA DestroyStep ==
  ASSUME StatusInv, NEW s \in Status, Destroy(s)
  PROVE  StatusInv' /\ Value' = [Value EXCEPT ![s] = Gone]
<1>1. Delete(heap, state_[s]) = Dropped(s)
  BY StatusAssumption DEF Delete, Dropped, Destroy, Lives, StatusInv, StatusTypeOK
<1>2. Clears(s, Gone)
  BY <1>1 DEF Destroy, Clears
<1> QED
  BY <1>2, ClearsKeepsOthers

\* A status that lives has a value.
LEMMA LivesHasValue ==
  ASSUME StatusInv, NEW s \in Status
  PROVE  /\ Lives(s) <=> Value[s] # Gone
         /\ Lives(s) => (ok(s) <=> Value[s] = Ok)
BY StatusAssumption DEF Lives, ok, Value, StatusInv, StatusTypeOK, NotDangling

-----------------------------------------------------------------------------
\* The refinement mapping is Value.
LEMMA ValueIsAbstract ==
  ASSUME StatusInv
  PROVE  /\ Abstract!vars = <<Value, call>>
         /\ \A s \in Status : Abstract!Lives(s) <=> Lives(s)
BY LivesHasValue DEF Abstract!vars, Abstract!Lives, Value

\* Every operation keeps the invariant, and is the assignment it stands for.
LEMMA StatusStep ==
  ASSUME StatusInv, Next
  PROVE  StatusInv' /\ Abstract!Next
<1>1. PICK s \in Status :
           \/ ConstructOk(s) \/ Destroy(s)
           \/ \E e \in Error : Construct(s, e)
           \/ \E r \in Status : CopyConstruct(s, r) \/ Assign(s, r) \/ Update(s, r)
  BY DEF Next
<1>2. CASE ConstructOk(s)
  <2>1. StatusInv' /\ Value[s] = Gone /\ Value' = [Value EXCEPT ![s] = Ok]
    BY <1>2, ConstructOkStep
  <2>2. Abstract!Make(s, Ok)
    BY <1>2, <2>1 DEF ConstructOk, Abstract!Make, Abstract!Lives, Abstract!Call, Value
  <2> QED
    BY <2>1, <2>2 DEF Abstract!Next
<1>3. CASE Destroy(s)
  <2>1. StatusInv' /\ Value' = [Value EXCEPT ![s] = Gone]
    BY <1>3, DestroyStep
  <2>2. Abstract!Lives(s)
    BY <1>3, ValueIsAbstract DEF Destroy
  <2>3. Abstract!Destroy(s)
    BY <1>3, <2>1, <2>2 DEF Destroy, Abstract!Destroy, Abstract!Call, Value
  <2> QED
    BY <2>1, <2>3 DEF Abstract!Next
<1>4. CASE \E e \in Error : Construct(s, e)
  <2>1. PICK e \in Error : Construct(s, e)
    BY <1>4
  <2>2. StatusInv' /\ Value[s] = Gone /\ Value' = [Value EXCEPT ![s] = e]
    BY <2>1, ConstructStep
  <2>3. Abstract!Make(s, e)
    BY <2>1, <2>2 DEF Construct, Abstract!Make, Abstract!Lives, Abstract!Call, Value
  <2> QED
    BY <2>2, <2>3 DEF Abstract!Next
<1>5. ASSUME NEW r \in Status, CopyConstruct(s, r)
      PROVE  StatusInv' /\ Abstract!Copy(s, r)
  <2>1. StatusInv' /\ Value' = [Value EXCEPT ![s] = Value[r]]
    BY <1>5, CopyConstructStep
  <2>2. ~Abstract!Lives(s) /\ Abstract!Lives(r)
    BY <1>5, ValueIsAbstract DEF CopyConstruct
  <2> QED
    BY <1>5, <2>1, <2>2 DEF CopyConstruct, Abstract!Copy, Abstract!Call, Value
<1>6. ASSUME NEW r \in Status, Assign(s, r)
      PROVE  StatusInv' /\ Abstract!Assign(s, r)
  <2>1. StatusInv' /\ Value' = [Value EXCEPT ![s] = Value[r]]
    BY <1>6, AssignStep DEF Assign
  <2>2. Abstract!Lives(s) /\ Abstract!Lives(r)
    BY <1>6, ValueIsAbstract DEF Assign
  <2> QED
    BY <1>6, <2>1, <2>2 DEF Assign, Abstract!Assign, Abstract!Call, Value
<1>7. ASSUME NEW r \in Status, Update(s, r)
      PROVE  StatusInv' /\ Abstract!Update(s, r)
  <2>1. /\ StatusInv'
        /\ Value' = [Value EXCEPT ![s] = IF Value[s] = Ok THEN Value[r] ELSE Value[s]]
    <3>1. CASE ok(s)
      BY <1>7, <3>1, AssignStep, LivesHasValue DEF Update
    <3>2. CASE ~ok(s)
      <4>1. state_' = state_ /\ heap' = heap /\ Value[s] # Ok
        BY <1>7, <3>2, LivesHasValue DEF Update, memory
      <4>2. StatusInv' /\ Value' = Value
        BY <4>1 DEF StatusInv, StatusTypeOK, Unshared, NotDangling, Pointed, Value
      <4> QED
        BY <4>1, <4>2 DEF Value
    <3> QED
      BY <3>1, <3>2
  <2>2. Abstract!Lives(s) /\ Abstract!Lives(r)
    BY <1>7, ValueIsAbstract DEF Update
  <2> QED
    BY <1>7, <2>1, <2>2 DEF Update, Abstract!Update, Abstract!Call, Value
<1> QED
  BY <1>1, <1>2, <1>3, <1>4, <1>5, <1>6, <1>7 DEF Abstract!Next

\* Before there is a status, nothing is on the heap.
LEMMA StatusInit == Init => StatusInv /\ Abstract!Init
<1> SUFFICES ASSUME Init PROVE StatusInv /\ Abstract!Init
  OBVIOUS
<1>1. StatusInv
  BY StatusAssumption DEF Init, StatusInv, StatusTypeOK, Unshared, NotDangling, Pointed
<1>2. Abstract!Init
  BY DEF Init, Abstract!Init
<1> QED
  BY <1>1, <1>2
-----------------------------------------------------------------------------
\* Pointers and States correspond one to one in every reachable state: nothing
\* that copies, assigns or destroys a status (status.h, status.cc) shares a State,
\* leaves one behind or keeps a pointer to one that was deleted.
THEOREM StatusInvHolds == Spec => []StatusInv
<1>1. StatusInv /\ UNCHANGED vars => StatusInv'
  BY DEF StatusInv, StatusTypeOK, Unshared, NotDangling, Pointed, vars
<1> QED
  BY <1>1, StatusInit, StatusStep, PTL DEF Spec

\* Every State belongs to exactly one status, and memory that is no State to
\* none (status.cc: new State and delete).
THEOREM StatusStatesAreOwned == Spec => []StatesAreOwned
<1>1. ASSUME StatusInv PROVE StatesAreOwned
  <2> SUFFICES ASSUME NEW b \in Block
               PROVE  Cardinality({s \in Status : state_[s] = b})
                         = IF heap[b] = NoState THEN 0 ELSE 1
    BY DEF StatesAreOwned
  <2>1. CASE heap[b] = NoState
    <3>1. {s \in Status : state_[s] = b} = {}
      BY <1>1, <2>1 DEF StatusInv, NotDangling
    <3> QED
      BY <2>1, <3>1, FS_EmptySet
  <2>2. CASE heap[b] # NoState
    <3>1. PICK s \in Status : state_[s] = b
      BY <1>1, <2>2 DEF StatusInv, Pointed
    <3>2. {r \in Status : state_[r] = b} = {s}
      BY <1>1, <3>1 DEF StatusInv, Unshared
    <3> QED
      BY <2>2, <3>2, FS_Singleton
  <2> QED
    BY <2>1, <2>2
<1> QED
  BY <1>1, StatusInvHolds, PTL

\* A status is a value: whatever is copied, assigned, updated or destroyed, the
\* others keep theirs, and Update keeps the first error (status.cc:15-28).
THEOREM StatusImplementsValue == Spec => ImplementsValue
<1>1. StatusInv /\ [Next]_vars => [Abstract!Next]_(Abstract!vars)
  <2> SUFFICES ASSUME StatusInv, [Next]_vars PROVE [Abstract!Next]_(Abstract!vars)
    OBVIOUS
  <2>1. CASE Next
    BY <2>1, StatusStep
  <2>2. CASE UNCHANGED vars
    BY <2>2 DEF vars, Abstract!vars
  <2> QED
    BY <2>1, <2>2
<1> QED
  BY <1>1, StatusInit, StatusInvHolds, PTL DEF Spec, ImplementsValue, Abstract!Spec

-----------------------------------------------------------------------------
(* RefCounted.  First, what the plans do.                                    *)

\* An operation with no steps left does nothing.
LEMMA EmptyPlan ==
  /\ \A s : ~Stores(<<>>, s)
  /\ \A o : ~Releases(<<>>, o) /\ ~StoresFirst(<<>>, o)
  /\ ~OnlyCounts(<<>>)
BY DEF Stores, Releases, StoresFirst, OnlyCounts

\* The plan of a constructor, which has pointed its variable to the object.
LEMMA CountPlan ==
  ASSUME NEW o, NEW q, q = <<AddRef(o)>>
  PROVE  /\ q # <<>> /\ Len(q) = 1 /\ Head(q) = AddRef(o) /\ Tail(q) = <<>> /\ OnlyCounts(q)
         /\ Head(q).do = "addref" /\ Head(q).obj = o
         /\ \A s : ~Stores(q, s)
         /\ \A x : ~Releases(q, x) /\ ~StoresFirst(q, x) /\ q # <<Destruction(x)>>
BY DEF Stores, Releases, StoresFirst, OnlyCounts, AddRef, Do, Destruction

\* The plan that is left when a reference has been given up.
LEMMA ReleasePlan ==
  ASSUME NEW o, NEW q, q = <<Release(o)>>
  PROVE  /\ q # <<>> /\ Len(q) = 1 /\ Head(q) = Release(o) /\ Tail(q) = <<>> /\ ~OnlyCounts(q)
         /\ Head(q).do = "release" /\ Head(q).obj = o
         /\ \A s : ~Stores(q, s)
         /\ \A x : Releases(q, x) <=> x = o
         /\ \A x : ~StoresFirst(q, x) /\ q # <<Destruction(x)>>
BY DEF Stores, Releases, StoresFirst, OnlyCounts, AddRef, Release, Do, Destruction

\* The plan of who has read zero.
LEMMA DestructionPlan ==
  ASSUME NEW o, NEW q, q = <<Destruction(o)>>
  PROVE  /\ q # <<>> /\ Len(q) = 1 /\ Head(q) = Destruction(o) /\ Tail(q) = <<>> /\ ~OnlyCounts(q)
         /\ Head(q).do = "delete" /\ Head(q).obj = o
         /\ \A s : ~Stores(q, s)
         /\ \A x : ~Releases(q, x) /\ ~StoresFirst(q, x) /\ (q = <<Destruction(x)>> <=> x = o)
BY DEF Stores, Releases, StoresFirst, OnlyCounts, AddRef, Destruction, Do

\* Concatenations of one step with one and with two.
LEMMA Concat1 == ASSUME NEW a, NEW b PROVE <<a>> \o <<b>> = <<a, b>>
<1> DEFINE S == {a, b}
<1>1. /\ <<a>> \in Seq(S) /\ <<b>> \in Seq(S) /\ <<a, b>> \in Seq(S)
      /\ Len(<<a>>) = 1 /\ Len(<<b>>) = 1 /\ Len(<<a, b>>) = 2
  OBVIOUS
<1> HIDE DEF S
<1>2. <<a>> \o <<b>> \in Seq(S) /\ Len(<<a>> \o <<b>>) = 2
      /\ (<<a>> \o <<b>>)[1] = a /\ (<<a>> \o <<b>>)[2] = b
  BY <1>1, ConcatProperties
<1>3. \A i \in 1..2 : (<<a>> \o <<b>>)[i] = <<a, b>>[i]
  BY <1>2
<1>4. QED
  BY <1>1, <1>2, <1>3, SeqEqual
\* ... and of one with two.
LEMMA Concat2 == ASSUME NEW a, NEW b, NEW c PROVE <<a>> \o <<b, c>> = <<a, b, c>>
<1> DEFINE S == {a, b, c}
<1>1. /\ <<a>> \in Seq(S) /\ <<b, c>> \in Seq(S) /\ <<a, b, c>> \in Seq(S)
      /\ Len(<<a>>) = 1 /\ Len(<<b, c>>) = 2 /\ Len(<<a, b, c>>) = 3
  OBVIOUS
<1> HIDE DEF S
<1>2. <<a>> \o <<b, c>> \in Seq(S) /\ Len(<<a>> \o <<b, c>>) = 3
      /\ (<<a>> \o <<b, c>>)[1] = a /\ (<<a>> \o <<b, c>>)[2] = b /\ (<<a>> \o <<b, c>>)[3] = c
  BY <1>1, ConcatProperties
<1>3. \A i \in 1..3 : (<<a>> \o <<b, c>>)[i] = <<a, b, c>>[i]
  BY <1>2
<1>4. QED
  BY <1>1, <1>2, <1>3, SeqEqual

\* The plans of an assignment, written out.
LEMMA ExplicitPlans ==
  ASSUME NEW s, NEW p
  PROVE  /\ ptr[s] = Nil => StoreSteps(s, p) = <<Do("store", p, s)>>
         /\ ptr[s] # Nil => StoreSteps(s, p) = <<Do("store", p, s), Release(ptr[s])>>
         /\ p # Nil /\ ptr[s] = Nil => AssignSteps(s, p) = <<AddRef(p), Do("store", p, s)>>
         /\ p # Nil /\ ptr[s] # Nil =>
              AssignSteps(s, p) = <<AddRef(p), Do("store", p, s), Release(ptr[s])>>
         /\ p = Nil => AssignSteps(s, p) = StoreSteps(s, p)
<1>1. <<Do("store", p, s)>> \o <<>> = <<Do("store", p, s)>>
  OBVIOUS
<1>2. ptr[s] = Nil => StoreSteps(s, p) = <<Do("store", p, s)>>
  BY <1>1 DEF StoreSteps, ReleaseIf
<1>3. ptr[s] # Nil => StoreSteps(s, p) = <<Do("store", p, s), Release(ptr[s])>>
  BY Concat1 DEF StoreSteps, ReleaseIf
<1>4. p # Nil => AssignSteps(s, p) = <<AddRef(p)>> \o StoreSteps(s, p)
  BY DEF AssignSteps, AddRefIf
<1>5. p = Nil => AssignSteps(s, p) = StoreSteps(s, p)
  <2>1. CASE ptr[s] = Nil
    BY <1>2, <2>1 DEF AssignSteps, AddRefIf
  <2>2. CASE ptr[s] # Nil
    BY <1>3, <2>2 DEF AssignSteps, AddRefIf
  <2>3. QED
    BY <2>1, <2>2
<1>6. p # Nil /\ ptr[s] = Nil => AssignSteps(s, p) = <<AddRef(p), Do("store", p, s)>>
  BY <1>2, <1>4, Concat1
<1>7. p # Nil /\ ptr[s] # Nil =>
         AssignSteps(s, p) = <<AddRef(p), Do("store", p, s), Release(ptr[s])>>
  BY <1>3, <1>4, Concat2
<1>8. QED
  BY <1>2, <1>3, <1>5, <1>6, <1>7

\* The parts of plans of one to three steps.
LEMMA Parts ==
  ASSUME NEW a, NEW b, NEW c
  PROVE  /\ DOMAIN <<a>> = {1} /\ <<a>>[1] = a /\ Head(<<a>>) = a /\ Tail(<<a>>) = <<>>
         /\ DOMAIN <<a, b>> = {1, 2} /\ <<a, b>>[1] = a /\ <<a, b>>[2] = b
         /\ Head(<<a, b>>) = a /\ Tail(<<a, b>>) = <<b>>
         /\ DOMAIN <<a, b, c>> = {1, 2, 3} /\ <<a, b, c>>[1] = a /\ <<a, b, c>>[2] = b
         /\ <<a, b, c>>[3] = c /\ Head(<<a, b, c>>) = a /\ Tail(<<a, b, c>>) = <<b, c>>
         /\ <<a>> # <<>> /\ <<a, b>> # <<>> /\ <<a, b, c>> # <<>>
         /\ \A x : <<a, b>> # <<x>> /\ <<a, b, c>> # <<x>> /\ (<<a>> = <<x>> <=> a = x)
OBVIOUS

\* What is left of an assignment after it has counted.
LEMMA StorePlan ==
  ASSUME NEW s, NEW p, NEW q, q = StoreSteps(s, p)
  PROVE  /\ q # <<>> /\ Head(q) = Do("store", p, s) /\ ~OnlyCounts(q)
         /\ Head(q).do = "store" /\ Head(q).obj = p /\ Head(q).slot = s
         /\ Tail(q) = ReleaseIf(ptr[s])
         /\ \A x : Stores(q, x) <=> x = s
         /\ \A x : Releases(q, x) <=> x = ptr[s] /\ ptr[s] # Nil
         /\ \A x : (StoresFirst(q, x) <=> x = p) /\ q # <<Destruction(x)>>
<1>1. CASE ptr[s] = Nil
  <2>1. q = <<Do("store", p, s)>>
    BY <1>1, ExplicitPlans
  <2>2. DOMAIN q = {1} /\ q[1] = Do("store", p, s) /\ Head(q) = Do("store", p, s)
        /\ Tail(q) = <<>> /\ q # <<>>
    BY <2>1, Parts
  <2>3. QED
    BY <1>1, <2>1, <2>2, Parts
       DEF Stores, Releases, StoresFirst, OnlyCounts, AddRef, Release, Destruction, Do, ReleaseIf
<1>2. CASE ptr[s] # Nil
  <2>1. q = <<Do("store", p, s), Release(ptr[s])>>
    BY <1>2, ExplicitPlans
  <2>2. /\ DOMAIN q = {1, 2} /\ q[1] = Do("store", p, s) /\ q[2] = Release(ptr[s])
        /\ Head(q) = Do("store", p, s) /\ Tail(q) = <<Release(ptr[s])>> /\ q # <<>>
        /\ \A x : q # <<x>>
    BY <2>1, Parts
  <2>3. QED
    BY <1>2, <2>2
       DEF Stores, Releases, StoresFirst, OnlyCounts, AddRef, Release, Destruction, Do, ReleaseIf
<1>3. QED
  BY <1>1, <1>2

\* An assignment of a pointer that is not null.
LEMMA AssignPlan ==
  ASSUME NEW s, NEW p, p # Nil, NEW q, q = AssignSteps(s, p)
  PROVE  /\ q # <<>> /\ Head(q) = AddRef(p) /\ ~OnlyCounts(q)
         /\ Head(q).do = "addref" /\ Head(q).obj = p
         /\ Tail(q) = StoreSteps(s, p)
         /\ \A x : Stores(q, x) <=> x = s
         /\ \A x : Releases(q, x) <=> x = ptr[s] /\ ptr[s] # Nil
         /\ \A x : ~StoresFirst(q, x) /\ q # <<Destruction(x)>>
<1>1. CASE ptr[s] = Nil
  <2>1. q = <<AddRef(p), Do("store", p, s)>> /\ StoreSteps(s, p) = <<Do("store", p, s)>>
    BY <1>1, ExplicitPlans
  <2>2. /\ DOMAIN q = {1, 2} /\ q[1] = AddRef(p) /\ q[2] = Do("store", p, s)
        /\ Head(q) = AddRef(p) /\ Tail(q) = StoreSteps(s, p) /\ q # <<>>
        /\ \A x : q # <<x>>
    BY <2>1, Parts
  <2>3. QED
    BY <1>1, <2>2
       DEF Stores, Releases, StoresFirst, OnlyCounts, AddRef, Release, Destruction, Do
<1>2. CASE ptr[s] # Nil
  <2>1. /\ q = <<AddRef(p), Do("store", p, s), Release(ptr[s])>>
        /\ StoreSteps(s, p) = <<Do("store", p, s), Release(ptr[s])>>
    BY <1>2, ExplicitPlans
  <2>2. /\ DOMAIN q = {1, 2, 3} /\ q[1] = AddRef(p) /\ q[2] = Do("store", p, s)
        /\ q[3] = Release(ptr[s])
        /\ Head(q) = AddRef(p) /\ Tail(q) = StoreSteps(s, p) /\ q # <<>>
        /\ \A x : q # <<x>>
    BY <2>1, Parts
  <2>3. QED
    BY <1>2, <2>2
       DEF Stores, Releases, StoresFirst, OnlyCounts, AddRef, Release, Destruction, Do
<1>3. QED
  BY <1>1, <1>2

-----------------------------------------------------------------------------
\* What the plan of a thread disturbs is in its hands.
LEMMA PlanFacts ==
  ASSUME RefTypeOK, NEW t \in Thread, PlanKnown(t)
  PROVE  /\ \A s : Disturbs(t, s) => s \in using[t]
         /\ todo[t] # <<>> => using[t] # {}
         /\ OnlyCounts(todo[t]) => /\ FreshSlot(t) \in using[t]
                                   /\ ptr[FreshSlot(t)] = Head(todo[t]).obj
<1>1. CASE todo[t] = <<>>
  BY <1>1, EmptyPlan DEF Disturbs
<1>2. ASSUME NEW o \in Object, todo[t] = <<AddRef(o)>>, NEW x \in using[t], ptr[x] = o
      PROVE  /\ \A s : Disturbs(t, s) => s \in using[t]
             /\ FreshSlot(t) \in using[t] /\ ptr[FreshSlot(t)] = Head(todo[t]).obj
  <2>1. Head(todo[t]).obj = o /\ \A s : ~Stores(todo[t], s)
    BY <1>2, CountPlan
  <2>2. x \in Candidates(t)
    BY <1>2, <2>1 DEF Candidates
  <2>3. FreshSlot(t) \in Candidates(t)
    BY <2>2 DEF FreshSlot
  <2>4. QED
    BY <2>1, <2>3 DEF Candidates, Disturbs
<1>3. ASSUME NEW o \in Object, todo[t] = <<AddRef(o)>>
      PROVE  \E x \in using[t] : ptr[x] = o
  <2>1. Head(todo[t]).obj = o /\ Head(todo[t]).do = "addref"
    BY <1>3, CountPlan
  <2>2. todo[t] # <<>> /\ \A x \in Object : todo[t] = <<AddRef(x)>> => x = o
    BY <1>3, <2>1, CountPlan
  <2>3. \A x \in Object : todo[t] # <<Release(x)>> /\ todo[t] # <<Destruction(x)>>
    BY <2>1, ReleasePlan, DestructionPlan
  <2>4. \A s, p : todo[t] # StoreSteps(s, p)
    BY <2>1, StorePlan
  <2>5. \A s, p : todo[t] # AssignSteps(s, p)
    <3>1. \A s, p : p # Nil => ~OnlyCounts(AssignSteps(s, p))
      BY AssignPlan
    <3>2. OnlyCounts(todo[t])
      BY <1>3, CountPlan
    <3>3. QED
      BY <2>4, <3>1, <3>2, ExplicitPlans
  <2>6. \/ \E x, y \in using[t] : x # y /\ ptr[x] = o /\ ptr[y] = o
        \/ count[o] = 0 /\ \E x \in using[t] : ptr[x] = o
    BY <2>2, <2>3, <2>4, <2>5 DEF PlanKnown
  <2>7. QED
    BY <2>6
<1>4. ASSUME NEW o \in Object, todo[t] = <<Release(o)>> \/ todo[t] = <<Destruction(o)>>, using[t] # {}
      PROVE  (\A s : ~Disturbs(t, s)) /\ ~OnlyCounts(todo[t])
  <2>1. CASE todo[t] = <<Release(o)>>
    BY <2>1, ReleasePlan DEF Disturbs
  <2>2. CASE todo[t] = <<Destruction(o)>>
    BY <2>2, DestructionPlan DEF Disturbs
  <2>3. QED
    BY <1>4, <2>1, <2>2
<1>5. ASSUME NEW s \in using[t], NEW p \in Pointer,
             todo[t] = StoreSteps(s, p) \/ todo[t] = AssignSteps(s, p)
      PROVE  (\A x : Disturbs(t, x) => x = s) /\ ~OnlyCounts(todo[t])
  BY <1>5, StorePlan, AssignPlan, ExplicitPlans DEF Disturbs
<1>6. QED
  BY <1>1, <1>2, <1>3, <1>4, <1>5 DEF PlanKnown

\* The first step of a plan and those after it.
LEMMA NextKinds ==
  ASSUME RefTypeOK, NEW t \in Thread, todo[t] # <<>>
  PROVE  /\ todo[t] \in Seq(Micro) /\ Head(todo[t]) \in Micro /\ Tail(todo[t]) \in Seq(Micro)
         /\ Head(todo[t]).do \in {"addref", "release", "store", "delete"}
<1>1. todo[t] \in Seq(Micro)
  BY DEF RefTypeOK
<1>2. Head(todo[t]) \in Micro /\ Tail(todo[t]) \in Seq(Micro)
  BY <1>1, HeadTailProperties
<1>3. QED
  BY <1>1, <1>2 DEF Micro

\* The next step tells the plan.
LEMMA PlanCases ==
  ASSUME NEW t \in Thread, PlanKnown(t)
  PROVE  /\ NextIs(t, "addref") =>
              \/ \E o \in Object :
                    /\ todo[t] = <<AddRef(o)>>
                    /\ \/ \E x, y \in using[t] : x # y /\ ptr[x] = o /\ ptr[y] = o
                       \/ /\ count[o] = 0 /\ \E x \in using[t] : ptr[x] = o
                          /\ \A u \in Thread \ {t} : todo[u] # <<AddRef(o)>>
              \/ \E s \in using[t], p \in Object :
                    /\ p # Nil /\ todo[t] = AssignSteps(s, p) /\ \E r \in using[t] : ptr[r] = p
         /\ NextIs(t, "store") => \E s \in using[t], p \in Pointer : todo[t] = StoreSteps(s, p)
         /\ NextIs(t, "release") => \E o \in Object : todo[t] = <<Release(o)>>
         /\ NextIs(t, "delete") => \E o \in Object : todo[t] = <<Destruction(o)>>
<1>1. \A o : todo[t] = <<AddRef(o)>> => Head(todo[t]).do = "addref"
  BY CountPlan
<1>2. \A o : todo[t] = <<Release(o)>> => Head(todo[t]).do = "release"
  BY ReleasePlan
<1>3. \A o : todo[t] = <<Destruction(o)>> => Head(todo[t]).do = "delete"
  BY DestructionPlan
<1>4. \A s, p : todo[t] = StoreSteps(s, p) => Head(todo[t]).do = "store"
  BY StorePlan
<1>5. \A s, p : todo[t] = AssignSteps(s, p) /\ p # Nil => Head(todo[t]).do = "addref"
  BY AssignPlan
<1>6. \A s : AssignSteps(s, Nil) = StoreSteps(s, Nil)
  BY ExplicitPlans
<1>7. ASSUME NextIs(t, "addref") PROVE
              \/ \E o \in Object :
                    /\ todo[t] = <<AddRef(o)>>
                    /\ \/ \E x, y \in using[t] : x # y /\ ptr[x] = o /\ ptr[y] = o
                       \/ /\ count[o] = 0 /\ \E x \in using[t] : ptr[x] = o
                          /\ \A u \in Thread \ {t} : todo[u] # <<AddRef(o)>>
              \/ \E s \in using[t], p \in Object :
                    /\ p # Nil /\ todo[t] = AssignSteps(s, p) /\ \E r \in using[t] : ptr[r] = p
  <2>1. todo[t] # <<>> /\ Head(todo[t]).do = "addref"
    BY <1>7 DEF NextIs
  <2>2. \A o : todo[t] # <<Release(o)>> /\ todo[t] # <<Destruction(o)>>
    BY <1>2, <1>3, <2>1
  <2>3. \A s, p : todo[t] # StoreSteps(s, p)
    BY <1>4, <2>1
  <2>4. \A s, p : todo[t] = AssignSteps(s, p) => p # Nil
    BY <1>6, <2>3
  <2>5. QED
    BY <2>1, <2>2, <2>3, <2>4 DEF PlanKnown, Pointer
<1>8. ASSUME NextIs(t, "store") PROVE \E s \in using[t], p \in Pointer : todo[t] = StoreSteps(s, p)
  <2>1. todo[t] # <<>> /\ Head(todo[t]).do = "store"
    BY <1>8 DEF NextIs
  <2>2. \A o : todo[t] # <<AddRef(o)>> /\ todo[t] # <<Release(o)>> /\ todo[t] # <<Destruction(o)>>
    BY <1>1, <1>2, <1>3, <2>1
  <2>3. \A s, p : todo[t] = AssignSteps(s, p) => p = Nil /\ todo[t] = StoreSteps(s, p)
    BY <1>5, <1>6, <2>1
  <2>4. QED
    BY <2>1, <2>2, <2>3 DEF PlanKnown
<1>9. ASSUME NextIs(t, "release") PROVE \E o \in Object : todo[t] = <<Release(o)>>
  <2>1. todo[t] # <<>> /\ Head(todo[t]).do = "release"
    BY <1>9 DEF NextIs
  <2>2. \A o : todo[t] # <<AddRef(o)>> /\ todo[t] # <<Destruction(o)>>
    BY <1>1, <1>3, <2>1
  <2>3. \A s, p : todo[t] # AssignSteps(s, p) /\ todo[t] # StoreSteps(s, p)
    BY <1>4, <1>5, <1>6, <2>1
  <2>4. QED
    BY <2>1, <2>2, <2>3 DEF PlanKnown
<1>10. ASSUME NextIs(t, "delete") PROVE \E o \in Object : todo[t] = <<Destruction(o)>>
  <2>1. todo[t] # <<>> /\ Head(todo[t]).do = "delete"
    BY <1>10 DEF NextIs
  <2>2. \A o : todo[t] # <<AddRef(o)>> /\ todo[t] # <<Release(o)>>
    BY <1>1, <1>2, <2>1
  <2>3. \A s, p : todo[t] # AssignSteps(s, p) /\ todo[t] # StoreSteps(s, p)
    BY <1>4, <1>5, <1>6, <2>1
  <2>4. QED
    BY <2>1, <2>2, <2>3 DEF PlanKnown
<1>11. QED
  BY <1>7, <1>8, <1>9, <1>10

-----------------------------------------------------------------------------
(* A step of thread t, seen by the others: their plans stay, and so do the   *)
(* slots in their hands while they have a plan.                              *)
OthersKeep(t) ==
    \A u \in Thread \ {t} :
       /\ todo'[u] = todo[u] /\ using'[u] = using[u]
       /\ todo[u] # <<>> => \A x \in using[u] : ptr'[x] = ptr[x]

\* What another thread disturbs does not depend on what t does.
LEMMA OthersDisturb ==
  ASSUME RefTypeOK, PlansKnown, NEW t \in Thread, OthersKeep(t), NEW u \in Thread \ {t}
  PROVE  /\ \A s : Disturbs(u, s)' <=> Disturbs(u, s)
         /\ OnlyCounts(todo[u]) => FreshSlot(u)' = FreshSlot(u)
<1>1. /\ todo'[u] = todo[u] /\ using'[u] = using[u]
      /\ todo[u] # <<>> => \A x \in using[u] : ptr'[x] = ptr[x]
  BY DEF OthersKeep
<1>2. todo[u] # <<>> => Candidates(u)' = Candidates(u)
  BY <1>1 DEF Candidates
<1>3. OnlyCounts(todo[u]) => FreshSlot(u)' = FreshSlot(u)
  BY <1>2 DEF FreshSlot, OnlyCounts
<1>4. \A s : Stores(todo[u], s)' <=> Stores(todo[u], s)
  BY <1>1 DEF Stores
<1>5. OnlyCounts(todo[u])' <=> OnlyCounts(todo[u])
  BY <1>1 DEF OnlyCounts, AddRef, Do
<1>6. QED
  BY <1>3, <1>4, <1>5 DEF Disturbs

\* The holders after a step of t.
LEMMA HoldersAfter ==
  ASSUME RefTypeOK, PlansKnown, NEW t \in Thread, OthersKeep(t), NEW o
  PROVE  /\ \A s \in Slot : s \in SlotHolders(o)' <=>
                              /\ ptr'[s] = o /\ ~Disturbs(t, s)'
                              /\ \A u \in Thread \ {t} : ~Disturbs(u, s)
         /\ \A s \in Slot : s \in SlotHolders(o) <=>
                              /\ ptr[s] = o /\ ~Disturbs(t, s)
                              /\ \A u \in Thread \ {t} : ~Disturbs(u, s)
         /\ \A u \in Thread \ {t} : /\ u \in StoreHolders(o)' <=> u \in StoreHolders(o)
                                    /\ u \in ReleaseHolders(o)' <=> u \in ReleaseHolders(o)
<1>1. \A u \in Thread \ {t} : \A s : Disturbs(u, s)' <=> Disturbs(u, s)
  BY OthersDisturb
<1>2. \A s \in Slot : s \in SlotHolders(o)' <=>
                        /\ ptr'[s] = o /\ ~Disturbs(t, s)'
                        /\ \A u \in Thread \ {t} : ~Disturbs(u, s)
  BY <1>1 DEF SlotHolders
<1>3. \A s \in Slot : s \in SlotHolders(o) <=>
                        /\ ptr[s] = o /\ ~Disturbs(t, s)
                        /\ \A u \in Thread \ {t} : ~Disturbs(u, s)
  BY DEF SlotHolders
<1>4. \A u \in Thread \ {t} : todo'[u] = todo[u]
  BY DEF OthersKeep
<1>5. QED
  BY <1>2, <1>3, <1>4 DEF StoreHolders, ReleaseHolders, StoresFirst, Releases

\* The three sets of holders are finite.
LEMMA HoldersFinite ==
  ASSUME RefCountedAssumption, NEW o
  PROVE  /\ IsFiniteSet(Slot) /\ IsFiniteSet(Thread)
         /\ SlotHolders(o) \subseteq Slot /\ StoreHolders(o) \subseteq Thread
         /\ ReleaseHolders(o) \subseteq Thread
         /\ IsFiniteSet(SlotHolders(o)) /\ IsFiniteSet(StoreHolders(o))
         /\ IsFiniteSet(ReleaseHolders(o))
         /\ Cardinality(SlotHolders(o)) \in Nat /\ Cardinality(StoreHolders(o)) \in Nat
         /\ Cardinality(ReleaseHolders(o)) \in Nat
<1>1. IsFiniteSet(Slot) /\ IsFiniteSet(Thread)
  BY FS_Union DEF RefCountedAssumption, Slot
<1>2. /\ SlotHolders(o) \subseteq Slot /\ StoreHolders(o) \subseteq Thread
      /\ ReleaseHolders(o) \subseteq Thread
  BY DEF SlotHolders, StoreHolders, ReleaseHolders
<1>3. /\ IsFiniteSet(SlotHolders(o)) /\ IsFiniteSet(StoreHolders(o))
      /\ IsFiniteSet(ReleaseHolders(o))
  BY <1>1, <1>2, FS_Subset
<1>4. QED
  BY <1>1, <1>2, <1>3, FS_CardinalityType

\* The same after a step.
LEMMA HoldersFiniteAfter ==
  ASSUME RefCountedAssumption, NEW o
  PROVE  /\ SlotHolders(o)' \subseteq Slot /\ StoreHolders(o)' \subseteq Thread
         /\ ReleaseHolders(o)' \subseteq Thread
         /\ IsFiniteSet(SlotHolders(o)') /\ IsFiniteSet(StoreHolders(o)')
         /\ IsFiniteSet(ReleaseHolders(o)')
         /\ Cardinality(SlotHolders(o)') \in Nat /\ Cardinality(StoreHolders(o)') \in Nat
         /\ Cardinality(ReleaseHolders(o)') \in Nat
<1>1. IsFiniteSet(Slot) /\ IsFiniteSet(Thread)
  BY HoldersFinite
<1>2. /\ SlotHolders(o)' \subseteq Slot /\ StoreHolders(o)' \subseteq Thread
      /\ ReleaseHolders(o)' \subseteq Thread
  BY DEF SlotHolders, StoreHolders, ReleaseHolders, Slot
<1>3. /\ IsFiniteSet(SlotHolders(o)') /\ IsFiniteSet(StoreHolders(o)')
      /\ IsFiniteSet(ReleaseHolders(o)')
  BY <1>1, <1>2, FS_Subset
<1>4. QED
  BY <1>2, <1>3, FS_CardinalityType

\* Two sets that differ in one element at most.
LEMMA ChangeOne ==
  ASSUME NEW S, NEW T, NEW x, IsFiniteSet(S), \A y : y # x => (y \in S <=> y \in T)
  PROVE  /\ IsFiniteSet(T) /\ Cardinality(S) \in Nat /\ Cardinality(T) \in Nat
         /\ Cardinality(T) + (IF x \in S THEN 1 ELSE 0) = Cardinality(S) + (IF x \in T THEN 1 ELSE 0)
<1>1. CASE (x \in S) <=> (x \in T)
  <2>1. S = T
    BY <1>1
  <2>2. QED
    BY <2>1, FS_CardinalityType
<1>2. CASE x \in S /\ x \notin T
  <2>1. T = S \ {x}
    BY <1>2
  <2>2. IsFiniteSet(T) /\ Cardinality(T) = Cardinality(S) - 1
    BY <1>2, <2>1, FS_RemoveElement
  <2>3. Cardinality(S) \in Nat /\ Cardinality(T) \in Nat
    BY <2>2, FS_CardinalityType
  <2>4. QED
    BY <1>2, <2>2, <2>3
<1>3. CASE x \notin S /\ x \in T
  <2>1. T = S \cup {x}
    BY <1>3
  <2>2. IsFiniteSet(T) /\ Cardinality(T) = Cardinality(S) + 1
    BY <1>3, <2>1, FS_AddElement
  <2>3. Cardinality(S) \in Nat /\ Cardinality(T) \in Nat
    BY <2>2, FS_CardinalityType
  <2>4. QED
    BY <1>3, <2>2, <2>3
<1>4. QED
  BY <1>1, <1>2, <1>3

\* ... in two.
LEMMA ChangeTwo ==
  ASSUME NEW S, NEW T, NEW x, NEW z, x # z, IsFiniteSet(S),
         \A y : y # x /\ y # z => (y \in S <=> y \in T)
  PROVE  /\ IsFiniteSet(T) /\ Cardinality(S) \in Nat /\ Cardinality(T) \in Nat
         /\ Cardinality(T) + (IF x \in S THEN 1 ELSE 0) + (IF z \in S THEN 1 ELSE 0)
              = Cardinality(S) + (IF x \in T THEN 1 ELSE 0) + (IF z \in T THEN 1 ELSE 0)
<1> DEFINE M == (S \ {x}) \cup (T \cap {x})
<1>1. /\ \A y : y # x => (y \in S <=> y \in M)
      /\ \A y : y # z => (y \in M <=> y \in T)
      /\ x \in M <=> x \in T
      /\ z \in M <=> z \in S
  OBVIOUS
<1> HIDE DEF M
<1>2. /\ IsFiniteSet(M) /\ Cardinality(S) \in Nat /\ Cardinality(M) \in Nat
      /\ Cardinality(M) + (IF x \in S THEN 1 ELSE 0) = Cardinality(S) + (IF x \in M THEN 1 ELSE 0)
  BY <1>1, ChangeOne
<1>3. /\ IsFiniteSet(T) /\ Cardinality(T) \in Nat
      /\ Cardinality(T) + (IF z \in M THEN 1 ELSE 0) = Cardinality(M) + (IF z \in T THEN 1 ELSE 0)
  BY <1>1, <1>2, ChangeOne
<1>4. QED
  BY <1>1, <1>2, <1>3

\* What a step of t does to the holders who are threads.
LEMMA ThreadHoldersAfter ==
  ASSUME RefCountedAssumption, RefTypeOK, PlansKnown, NEW t \in Thread, OthersKeep(t), NEW o
  PROVE  /\ Cardinality(StoreHolders(o)') + (IF StoresFirst(todo[t], o) THEN 1 ELSE 0)
              = Cardinality(StoreHolders(o)) + (IF StoresFirst(todo'[t], o) THEN 1 ELSE 0)
         /\ Cardinality(ReleaseHolders(o)') + (IF Releases(todo[t], o) THEN 1 ELSE 0)
              = Cardinality(ReleaseHolders(o)) + (IF Releases(todo'[t], o) THEN 1 ELSE 0)
<1>1. \A u : u # t => (u \in StoreHolders(o) <=> u \in StoreHolders(o)')
  <2>1. \A u \in Thread \ {t} : u \in StoreHolders(o) <=> u \in StoreHolders(o)'
    BY HoldersAfter
  <2>2. QED
    BY <2>1, HoldersFinite, HoldersFiniteAfter
<1>2. \A u : u # t => (u \in ReleaseHolders(o) <=> u \in ReleaseHolders(o)')
  <2>1. \A u \in Thread \ {t} : u \in ReleaseHolders(o) <=> u \in ReleaseHolders(o)'
    BY HoldersAfter
  <2>2. QED
    BY <2>1, HoldersFinite, HoldersFiniteAfter
<1>3. /\ t \in StoreHolders(o) <=> StoresFirst(todo[t], o)
      /\ t \in StoreHolders(o)' <=> StoresFirst(todo'[t], o)
      /\ t \in ReleaseHolders(o) <=> Releases(todo[t], o)
      /\ t \in ReleaseHolders(o)' <=> Releases(todo'[t], o)
  BY DEF StoreHolders, ReleaseHolders, StoresFirst, Releases
<1>4. IsFiniteSet(StoreHolders(o)) /\ IsFiniteSet(ReleaseHolders(o))
  BY HoldersFinite
<1>5. QED
  BY <1>1, <1>2, <1>3, <1>4, ChangeOne

-----------------------------------------------------------------------------
(* The beginning of an operation of t on the slots U with the plan q.  What  *)
(* the operations have in common is that they keep the number of holders.    *)
Opens(t, U, q) ==
    /\ Idle(t) /\ U \subseteq Slot /\ U # {} /\ U \cap Held(t) = {}
    /\ q \in Seq(Micro) /\ todo' = [todo EXCEPT ![t] = q]
    /\ using' = [using EXCEPT ![t] = U]
    /\ view' = [view EXCEPT ![t] = @ \cup UNION {handed[s] : s \in U}]
    /\ UNCHANGED <<count, released, handed, uses>>
    /\ ptr' \in [Slot -> Pointer] /\ \A x \in Slot \ U : ptr'[x] = ptr[x]
    /\ state' \in [Object -> {"unborn", "live", "deleted"}]
    /\ \A o \in Object : \/ state'[o] = state[o]
                         \/ state[o] = "unborn" /\ state'[o] = "live" /\ o \notin U

\* The references that an operation takes out of slots are those that it has to give up.
Balanced(q) ==
    \A o \in Object :
       Cardinality(SlotHolders(o)') + (IF StoresFirst(q, o) THEN 1 ELSE 0)
          + (IF Releases(q, o) THEN 1 ELSE 0) = Cardinality(SlotHolders(o))

\* An object whose member is used is pointed to by a variable that is used.
Pinned(U) == \A x \in U \cap Object : \E w \in U : ptr[w] = x

\* An operation begins on slots that nobody else uses.
LEMMA OpensOthers ==
  ASSUME RefInv, NEW t \in Thread, NEW U, NEW q, Opens(t, U, q)
  PROVE  /\ OthersKeep(t) /\ UsingKnown'
         /\ todo[t] = <<>> /\ todo'[t] = q /\ using'[t] = U
         /\ view'[t] = view[t] \cup UNION {handed[s] : s \in U}
         /\ \A u \in Thread \ {t} : /\ todo'[u] = todo[u] /\ using'[u] = using[u]
                                    /\ view'[u] = view[u] /\ using[u] \cap U = {}
<1>1. /\ DOMAIN todo = Thread /\ using \in [Thread -> SUBSET Slot] /\ DOMAIN view = Thread
      /\ UsingKnown
  BY DEF RefInv, RefTypeOK
<1>2. /\ todo[t] = <<>> /\ todo'[t] = q /\ using'[t] = U
      /\ view'[t] = view[t] \cup UNION {handed[s] : s \in U}
      /\ \A u \in Thread \ {t} : todo'[u] = todo[u] /\ using'[u] = using[u] /\ view'[u] = view[u]
  BY <1>1 DEF Opens, Idle
<1>3. \A u \in Thread \ {t} : using[u] \cap U = {}
  BY DEF Opens, Held
<1>4. ASSUME NEW u \in Thread \ {t} PROVE \A x \in using[u] : ptr'[x] = ptr[x]
  BY <1>1, <1>3, <1>4 DEF Opens
<1>5. UsingKnown'
  BY <1>1, <1>2, <1>3 DEF UsingKnown
<1>6. QED
  BY <1>2, <1>3, <1>4, <1>5 DEF OthersKeep

\* Where references are in slots, after an operation has begun.
LEMMA OpensSlots ==
  ASSUME RefInv, NEW t \in Thread, NEW U, NEW q, Opens(t, U, q),
         \A s : Disturbs(t, s)' => s \in U, NEW o
  PROVE  /\ \A x \in U : /\ x \in SlotHolders(o) <=> ptr[x] = o
                         /\ x \in SlotHolders(o)' <=> ptr'[x] = o /\ ~Disturbs(t, x)'
         /\ \A x \in Slot \ U : x \in SlotHolders(o)' <=> x \in SlotHolders(o)
<1>1. RefTypeOK /\ PlansKnown /\ OthersKeep(t) /\ U \subseteq Slot
  BY OpensOthers DEF RefInv, Opens
<1>2. \A u \in Thread \ {t} : \A x \in U : ~Disturbs(u, x)
  BY <1>1, OpensOthers, PlanFacts DEF PlansKnown
<1>3. \A x : ~Disturbs(t, x)
  BY OpensOthers, EmptyPlan DEF Disturbs
<1>4. \A x \in Slot \ U : ptr'[x] = ptr[x]
  BY DEF Opens
<1>5. /\ \A s \in Slot : s \in SlotHolders(o)' <=>
                           /\ ptr'[s] = o /\ ~Disturbs(t, s)'
                           /\ \A u \in Thread \ {t} : ~Disturbs(u, s)
      /\ \A s \in Slot : s \in SlotHolders(o) <=>
                           /\ ptr[s] = o /\ ~Disturbs(t, s)
                           /\ \A u \in Thread \ {t} : ~Disturbs(u, s)
  BY <1>1, HoldersAfter
<1>6. QED
  BY <1>1, <1>2, <1>3, <1>4, <1>5

\* What was within reach of t before is held by t afterwards.
LEMMA OpensHolds ==
  ASSUME RefCountedAssumption, RefInv, NEW t \in Thread, NEW U, NEW q, Opens(t, U, q),
         \A s : Disturbs(t, s)' => s \in U, Balanced(q), NEW o \in Object,
         NEW x \in U, ptr[x] = o
  PROVE  Holds(t, o)'
<1>1. CASE StoresFirst(q, o) \/ Releases(q, o)
  BY <1>1, OpensOthers DEF Holds, StoresFirst, Releases
<1>2. CASE ~StoresFirst(q, o) /\ ~Releases(q, o)
  <2>1. Cardinality(SlotHolders(o)') = Cardinality(SlotHolders(o))
    BY <1>2, HoldersFinite, HoldersFiniteAfter DEF Balanced
  <2>2. SUFFICES ASSUME \A z \in U : z \notin SlotHolders(o)' PROVE FALSE
    BY OpensOthers DEF Holds
  <2>3. SlotHolders(o)' \subseteq SlotHolders(o)
    BY <2>2, OpensSlots, HoldersFiniteAfter
  <2>4. SlotHolders(o)' = SlotHolders(o)
    BY <2>1, <2>3, HoldersFinite, FS_Subset
  <2>5. x \in SlotHolders(o)
    BY OpensSlots
  <2>6. QED
    BY <2>2, <2>4, <2>5
<1>3. QED
  BY <1>1, <1>2

\* What is left to show of an operation.
OpensWell(t, U, q) ==
    /\ Opens(t, U, q) /\ Balanced(q) /\ Pinned(U)
    /\ \A s : Disturbs(t, s)' => s \in U
    /\ PlanKnown(t)' /\ LiveKnown'
    /\ \A o \in Object :
          /\ q # <<Destruction(o)>>
          /\ q = <<AddRef(o)>> => (\E x \in U : ptr[x] = o) \/ state[o] = "unborn"

\* The beginning of an operation keeps CountKnown ...
LEMMA OpensCount ==
  ASSUME RefCountedAssumption, RefInv, NEW t \in Thread, NEW U, NEW q, OpensWell(t, U, q)
  PROVE  CountKnown'
<1>1. ASSUME NEW o \in Object
      PROVE  count'[o] = Cardinality(SlotHolders(o)') + Cardinality(StoreHolders(o)')
                                     + Cardinality(ReleaseHolders(o)')
  <2>1. /\ Cardinality(StoreHolders(o)')
             = Cardinality(StoreHolders(o)) + (IF StoresFirst(q, o) THEN 1 ELSE 0)
        /\ Cardinality(ReleaseHolders(o)')
             = Cardinality(ReleaseHolders(o)) + (IF Releases(q, o) THEN 1 ELSE 0)
    BY ThreadHoldersAfter, OpensOthers, EmptyPlan, HoldersFinite, HoldersFiniteAfter
       DEF OpensWell, RefInv
  <2>2. count[o] = Cardinality(SlotHolders(o)) + Cardinality(StoreHolders(o))
                     + Cardinality(ReleaseHolders(o))
    BY DEF RefInv, CountKnown
  <2>3. Cardinality(SlotHolders(o)') + (IF StoresFirst(q, o) THEN 1 ELSE 0)
          + (IF Releases(q, o) THEN 1 ELSE 0) = Cardinality(SlotHolders(o))
    BY DEF OpensWell, Balanced
  <2>4. count' = count
    BY DEF OpensWell, Opens
  <2>5. QED
    BY <2>1, <2>2, <2>3, <2>4, HoldersFinite, HoldersFiniteAfter
<1>2. QED
  BY <1>1 DEF CountKnown

\* A count of zero: nobody holds the object.
LEMMA ZeroMeansNobody ==
  ASSUME RefCountedAssumption, CountKnown, NEW o \in Object, count[o] = 0
  PROVE  SlotHolders(o) = {} /\ StoreHolders(o) = {} /\ ReleaseHolders(o) = {}
<1>1. count[o] = Cardinality(SlotHolders(o)) + Cardinality(StoreHolders(o))
                   + Cardinality(ReleaseHolders(o))
  BY DEF CountKnown
<1>2. /\ Cardinality(SlotHolders(o)) = 0 /\ Cardinality(StoreHolders(o)) = 0
      /\ Cardinality(ReleaseHolders(o)) = 0
  BY <1>1, HoldersFinite
<1>3. QED
  BY <1>2, HoldersFinite, FS_EmptySet

\* Nobody has still to count an object that is not alive.
LEMMA CountersSeeObject ==
  ASSUME RefCountedAssumption, RefInv, NEW u \in Thread, NEW o \in Object,
         todo[u] = <<AddRef(o)>>
  PROVE  state[o] = "live" /\ \E x \in using[u] : x \in Slot /\ ptr[x] = o
<1>1. RefTypeOK /\ PlanKnown(u) /\ LiveKnown /\ Nil \notin Object
  BY DEF RefInv, PlansKnown, RefCountedAssumption
<1>2. /\ OnlyCounts(todo[u]) /\ Head(todo[u]).obj = o
  BY CountPlan
<1>3. FreshSlot(u) \in using[u] /\ ptr[FreshSlot(u)] = o
  BY <1>1, <1>2, PlanFacts
<1>4. FreshSlot(u) \in Slot
  BY <1>1, <1>3 DEF RefTypeOK
<1>5. QED
  BY <1>1, <1>3, <1>4 DEF LiveKnown

\* The plan of a thread stays a plan, whatever another one does.
LEMMA OthersPlans ==
  ASSUME RefCountedAssumption, RefInv, NEW t \in Thread, OthersKeep(t), NEW u \in Thread \ {t},
         \A o \in Object : todo[u] = <<AddRef(o)>> /\ count[o] = 0
                            => count'[o] = 0 /\ todo'[t] # <<AddRef(o)>>
  PROVE  PlanKnown(u)'
<1>1. /\ todo'[u] = todo[u] /\ using'[u] = using[u]
      /\ todo[u] # <<>> => \A x \in using[u] : ptr'[x] = ptr[x]
      /\ \A w \in Thread \ {t} : todo'[w] = todo[w]
  BY DEF OthersKeep
<1>2. PlanKnown(u)
  BY DEF RefInv, PlansKnown
<1>3. CASE todo[u] = <<>>
  BY <1>1, <1>3 DEF PlanKnown
<1>4. CASE NextIs(u, "release") \/ NextIs(u, "delete")
  <2>1. PICK o \in Object : todo[u] = <<Release(o)>> \/ todo[u] = <<Destruction(o)>>
    BY <1>2, <1>4, PlanCases
  <2>2. using[u] # {}
    BY <1>2, <1>4, PlanFacts DEF RefInv, NextIs
  <2>3. QED
    BY <1>1, <2>1, <2>2 DEF PlanKnown, Release, Destruction, Do
<1>5. CASE NextIs(u, "store")
  <2>1. PICK s \in using[u], p \in Pointer : todo[u] = StoreSteps(s, p)
    BY <1>2, <1>5, PlanCases
  <2>2. ptr'[s] = ptr[s]
    BY <1>1, <1>5 DEF NextIs
  <2>3. todo'[u] = StoreSteps(s, p)'
    BY <1>1, <2>1, <2>2 DEF StoreSteps, ReleaseIf, Release, Do
  <2>4. QED
    BY <1>1, <2>3 DEF PlanKnown
<1>6. ASSUME NEW s \in using[u], NEW p \in Object, p # Nil, todo[u] = AssignSteps(s, p),
             NEW r \in using[u], ptr[r] = p
      PROVE  PlanKnown(u)'
  <2>1. ptr'[s] = ptr[s] /\ ptr'[r] = p
    BY <1>1, <1>6, AssignPlan
  <2>2. todo'[u] = AssignSteps(s, p)'
    BY <1>1, <1>6, <2>1 DEF AssignSteps, AddRefIf, AddRef, StoreSteps, ReleaseIf, Release, Do
  <2>3. QED
    BY <1>1, <2>1, <2>2 DEF PlanKnown, Pointer
<1>7. ASSUME NEW o \in Object, todo[u] = <<AddRef(o)>>,
             \/ \E x, y \in using[u] : x # y /\ ptr[x] = o /\ ptr[y] = o
             \/ /\ count[o] = 0 /\ \E x \in using[u] : ptr[x] = o
                /\ \A w \in Thread \ {u} : todo[w] # <<AddRef(o)>>
      PROVE  PlanKnown(u)'
  <2>1. todo'[u] = <<AddRef(o)>>' /\ todo[u] # <<>>
    BY <1>1, <1>7, CountPlan DEF AddRef, Do
  <2>2. CASE \E x, y \in using[u] : x # y /\ ptr[x] = o /\ ptr[y] = o
    BY <1>1, <2>1, <2>2 DEF PlanKnown
  <2>3. CASE /\ count[o] = 0 /\ \E x \in using[u] : ptr[x] = o
             /\ \A w \in Thread \ {u} : todo[w] # <<AddRef(o)>>
    <3>1. count'[o] = 0 /\ todo'[t] # <<AddRef(o)>>
      BY <1>7, <2>3
    <3>2. ASSUME NEW w \in Thread \ {u} PROVE todo'[w] # <<AddRef(o)>>
      <4>1. CASE w = t
        BY <3>1, <4>1
      <4>2. CASE w # t
        BY <1>1, <2>3, <4>2
      <4>3. QED
        BY <4>1, <4>2
    <3>3. PICK x \in using'[u] : ptr'[x] = o
      BY <1>1, <2>1, <2>3
    <3>4. AddRef(o)' = AddRef(o)
      BY DEF AddRef, Do
    <3>5. /\ todo'[u] = <<AddRef(o)'>>
          /\ \A w \in Thread \ {u} : todo'[w] # <<AddRef(o)'>>
      BY <2>1, <3>2, <3>4
    <3>6. QED
      BY <3>1, <3>3, <3>5 DEF PlanKnown
  <2>4. QED
    BY <1>7, <2>2, <2>3
<1>8. CASE NextIs(u, "addref")
  BY <1>2, <1>6, <1>7, <1>8, PlanCases
<1>9. todo[u] # <<>> => Head(todo[u]).do \in {"addref", "release", "store", "delete"}
  BY NextKinds DEF RefInv
<1>10. QED
  BY <1>3, <1>4, <1>5, <1>8, <1>9 DEF NextIs

\* ... and PlansKnown ...
LEMMA OpensPlans ==
  ASSUME RefCountedAssumption, RefInv, NEW t \in Thread, NEW U, NEW q, OpensWell(t, U, q)
  PROVE  PlansKnown'
<1>1. Opens(t, U, q) /\ OthersKeep(t) /\ todo'[t] = q /\ count' = count
  <2>1. Opens(t, U, q)
    BY DEF OpensWell
  <2>2. count' = count
    BY <2>1 DEF Opens
  <2>3. QED
    BY <2>1, <2>2, OpensOthers
<1>2. ASSUME NEW u \in Thread \ {t}, NEW o \in Object, todo[u] = <<AddRef(o)>>, count[o] = 0
      PROVE  q # <<AddRef(o)>>
  <2>1. SUFFICES ASSUME q = <<AddRef(o)>> PROVE FALSE
    OBVIOUS
  <2>2. state[o] = "live"
    BY <1>2, CountersSeeObject
  <2>3. PICK x \in U : ptr[x] = o
    BY <2>1, <2>2 DEF OpensWell
  <2>4. x \in SlotHolders(o)
    BY <1>1, <2>3, OpensSlots DEF OpensWell
  <2>5. QED
    BY <1>2, <2>4, ZeroMeansNobody DEF RefInv
<1>3. ASSUME NEW u \in Thread \ {t} PROVE PlanKnown(u)'
  BY <1>1, <1>2, OthersPlans
<1>4. QED
  BY <1>3 DEF PlansKnown, OpensWell

-----------------------------------------------------------------------------
(* The facts about plans, for the next state.                                *)
LEMMA PlanFactsAfter ==
  ASSUME NEW t \in Thread
  PROVE  (RefTypeOK /\ PlanKnown(t)
           => /\ \A s : Disturbs(t, s) => s \in using[t]
              /\ todo[t] # <<>> => using[t] # {}
              /\ OnlyCounts(todo[t]) => /\ FreshSlot(t) \in using[t]
                                        /\ ptr[FreshSlot(t)] = Head(todo[t]).obj)'
<1>1. RefTypeOK /\ PlanKnown(t)
        => /\ \A s : Disturbs(t, s) => s \in using[t]
           /\ todo[t] # <<>> => using[t] # {}
           /\ OnlyCounts(todo[t]) => /\ FreshSlot(t) \in using[t]
                                     /\ ptr[FreshSlot(t)] = Head(todo[t]).obj
  BY PlanFacts
<1>2. QED
  BY <1>1, PTL

\* What a plan stores and releases, after a step.
LEMMA StorePlanAfter ==
  ASSUME NEW s, NEW p, NEW q
  PROVE  (q = StoreSteps(s, p) => /\ \A x : Stores(q, x) <=> x = s
                                  /\ \A x : Releases(q, x) <=> x = ptr[s] /\ ptr[s] # Nil)'
<1>1. q = StoreSteps(s, p) => /\ \A x : Stores(q, x) <=> x = s
                              /\ \A x : Releases(q, x) <=> x = ptr[s] /\ ptr[s] # Nil
  BY StorePlan
<1>2. QED
  BY <1>1, PTL

\* The same of an assignment that has still to count.
LEMMA AssignPlanAfter ==
  ASSUME NEW s, NEW p, NEW q
  PROVE  (q = AssignSteps(s, p) => /\ \A x : Stores(q, x) <=> x = s
                                   /\ \A x : Releases(q, x) <=> x = ptr[s] /\ ptr[s] # Nil)'
<1>1. q = AssignSteps(s, p) => /\ \A x : Stores(q, x) <=> x = s
                               /\ \A x : Releases(q, x) <=> x = ptr[s] /\ ptr[s] # Nil
  BY AssignPlan, StorePlan, ExplicitPlans
<1>2. QED
  BY <1>1, PTL

\* A thread that holds a reference knows no more than all who hold one.
LEMMA HoldsMeansKnown ==
  ASSUME RefTypeOK, NEW t \in Thread, NEW o \in Object, Holds(t, o)
  PROVE  view[t] \subseteq Known(o)
<1>1. view[t] \subseteq 1..MaxUses
  BY DEF RefTypeOK
<1>2. CASE StoresFirst(todo[t], o) \/ Releases(todo[t], o)
  BY <1>1, <1>2 DEF Known, StoreHolders, ReleaseHolders
<1>3. ASSUME NEW s \in using[t], s \in SlotHolders(o) PROVE view[t] \subseteq Known(o)
  <2>1. view[t] \subseteq KnownAt(s)
    BY <1>3 DEF KnownAt
  <2>2. QED
    BY <1>1, <1>3, <2>1 DEF Known
<1>4. QED
  BY <1>2, <1>3 DEF Holds

\* The same after a step.
LEMMA HoldsMeansKnownAfter ==
  ASSUME RefTypeOK', NEW t \in Thread, NEW o \in Object, Holds(t, o)'
  PROVE  view'[t] \subseteq Known(o)'
<1>1. view'[t] \subseteq 1..MaxUses
  BY DEF RefTypeOK
<1>2. CASE StoresFirst(todo[t], o)' \/ Releases(todo[t], o)'
  BY <1>1, <1>2 DEF Known, StoreHolders, ReleaseHolders
<1>3. ASSUME NEW s \in using'[t], s \in SlotHolders(o)' PROVE view'[t] \subseteq Known(o)'
  <2>1. view'[t] \subseteq KnownAt(s)'
    BY <1>3 DEF KnownAt
  <2>2. QED
    BY <1>1, <1>3, <2>1 DEF Known
<1>4. QED
  BY <1>2, <1>3 DEF Holds

\* A thread with a plan keeps hold of what it holds, whatever the others do.
LEMMA OthersHold ==
  ASSUME RefTypeOK, PlansKnown, UsingKnown, NEW t \in Thread, OthersKeep(t),
         NEW u \in Thread \ {t}, todo[u] # <<>>,
         \A s \in using[u] : ~Disturbs(t, s)', NEW o, Holds(u, o)
  PROVE  Holds(u, o)'
<1>1. /\ todo'[u] = todo[u] /\ using'[u] = using[u]
      /\ \A x \in using[u] : ptr'[x] = ptr[x]
  BY DEF OthersKeep
<1>2. CASE StoresFirst(todo[u], o) \/ Releases(todo[u], o)
  BY <1>1, <1>2 DEF Holds, StoresFirst, Releases
<1>3. ASSUME NEW s \in using[u], s \in SlotHolders(o) PROVE s \in SlotHolders(o)'
  <2>1. s \in Slot
    BY DEF RefTypeOK
  <2>2. QED
    BY <1>1, <1>3, <2>1, HoldersAfter
<1>4. QED
  BY <1>1, <1>2, <1>3 DEF Holds

\* ... so that what HoldsKnown says of that thread stays true.
LEMMA OthersHoldKnown ==
  ASSUME RefInv, NEW t \in Thread, OthersKeep(t), NEW u \in Thread \ {t}, todo[u] # <<>>,
         NEW x \in using[u] \cap Object, \A s \in using[u] : ~Disturbs(t, s)',
         state'[x] = "live" => state[x] = "live"
  PROVE  \/ Holds(u, x)'
         \/ /\ Head(todo[u]).do \in {"release", "delete"}
            /\ state'[x] = "live" => todo[u] = <<Destruction(x)>>
<1>1. CASE Holds(u, x)
  BY <1>1, OthersHold DEF RefInv
<1>2. CASE ~Holds(u, x)
  BY <1>2 DEF RefInv, HoldsKnown
<1>3. QED
  BY <1>1, <1>2

\* ... and HoldsKnown ...
LEMMA OpensHoldsKnown ==
  ASSUME RefCountedAssumption, RefInv, NEW t \in Thread, NEW U, NEW q, OpensWell(t, U, q)
  PROVE  HoldsKnown'
<1>1. /\ Opens(t, U, q) /\ OthersKeep(t) /\ todo'[t] = q /\ using'[t] = U
      /\ \A u \in Thread \ {t} : todo'[u] = todo[u] /\ using'[u] = using[u] /\ using[u] \cap U = {}
  BY OpensOthers DEF OpensWell
<1>2. ASSUME NEW x \in U \cap Object PROVE Holds(t, x)'
  BY <1>2, OpensHolds DEF OpensWell, Pinned
<1>3. ASSUME NEW u \in Thread \ {t}, NEW x \in using[u] \cap Object, todo[u] # <<>>
      PROVE  \/ Holds(u, x)'
             \/ /\ Head(todo[u]).do \in {"release", "delete"}
                /\ state'[x] = "live" => todo[u] = <<Destruction(x)>>
  <2>1. \A s \in using[u] : ~Disturbs(t, s)'
    BY <1>1 DEF OpensWell
  <2>2. state[x] # "unborn"
    BY DEF RefInv, MemoryKnown
  <2>3. state'[x] = "live" => state[x] = "live"
    BY <1>1, <2>2 DEF Opens
  <2>4. QED
    BY <1>1, <1>3, <2>1, <2>3, OthersHoldKnown
<1>4. QED
  BY <1>1, <1>2, <1>3 DEF HoldsKnown, Destruction, Do

\* ... and the types ...
LEMMA OpensTypes ==
  ASSUME RefInv, NEW t \in Thread, NEW U, NEW q, Opens(t, U, q)
  PROVE  RefTypeOK'
<1>1. RefTypeOK
  BY DEF RefInv
<1>2. view' \in [Thread -> SUBSET (1..MaxUses)]
  <2>1. UNION {handed[s] : s \in U} \subseteq 1..MaxUses
    BY <1>1 DEF RefTypeOK, Opens
  <2>2. QED
    BY <1>1, <2>1 DEF RefTypeOK, Opens
<1>3. using' \in [Thread -> SUBSET Slot]
  BY <1>1 DEF RefTypeOK, Opens
<1>4. DOMAIN todo' = Thread /\ \A u \in Thread : todo'[u] \in Seq(Micro)
  BY <1>1 DEF RefTypeOK, Opens
<1>5. QED
  BY <1>1, <1>2, <1>3, <1>4 DEF RefTypeOK, Opens, Slot, Pointer, Micro

\* ... and DestructionKnown ...
LEMMA OpensDestruction ==
  ASSUME RefCountedAssumption, RefInv, NEW t \in Thread, NEW U, NEW q, OpensWell(t, U, q)
  PROVE  DestructionKnown'
<1>1. /\ Opens(t, U, q) /\ OthersKeep(t) /\ todo'[t] = q /\ using'[t] = U
      /\ \A u \in Thread \ {t} : todo'[u] = todo[u] /\ view'[u] = view[u]
  BY OpensOthers DEF OpensWell
<1>2. ASSUME NEW u \in Thread, NEW o \in Object, todo'[u] = <<Destruction(o)>>
      PROVE  /\ state'[o] = "live" /\ count'[o] = 0
             /\ \A s \in Slot : ptr'[s] # o
             /\ \A w \in Thread \ {u} : todo'[w] # <<Destruction(o)>>
             /\ released'[o] \subseteq view'[u]
  <2>1. u # t /\ todo[u] = <<Destruction(o)>>
    BY <1>1, <1>2 DEF OpensWell
  <2>2. /\ state[o] = "live" /\ count[o] = 0
        /\ \A s \in Slot : ptr[s] # o
        /\ \A w \in Thread \ {u} : todo[w] # <<Destruction(o)>>
        /\ released[o] \subseteq view[u]
    BY <2>1 DEF RefInv, DestructionKnown
  <2>3. state'[o] = "live" /\ count'[o] = 0 /\ released'[o] = released[o]
    BY <1>1, <2>2 DEF Opens
  <2>4. ASSUME NEW s \in U, ptr'[s] = o PROVE FALSE
    <3>1. SlotHolders(o) = {} /\ Cardinality(SlotHolders(o)) = 0
      BY <2>2, ZeroMeansNobody, FS_EmptySet DEF RefInv
    <3>2. /\ ~StoresFirst(q, o) /\ ~Releases(q, o) /\ Cardinality(SlotHolders(o)') = 0
      BY <3>1, HoldersFiniteAfter DEF OpensWell, Balanced
    <3>3. SlotHolders(o)' = {}
      BY <3>2, HoldersFiniteAfter, FS_EmptySet
    <3>4. \A x \in U : ptr'[x] = o => Disturbs(t, x)'
      BY <3>3, OpensSlots DEF OpensWell
    <3>5. o # Nil /\ \A x \in U : x \in Slot
      BY <1>1 DEF RefCountedAssumption, Opens
    <3>6. CASE Stores(q, s)
      <4>1. /\ \A p : q # <<AddRef(p)>> /\ q # <<Release(p)>>
        BY <3>6, CountPlan, ReleasePlan
      <4>2. q # <<>>
        BY <3>6, EmptyPlan
      <4>3. \/ \E r \in U, p \in Pointer : q = StoreSteps(r, p)'
            \/ \E r \in U, p \in Pointer : q = AssignSteps(r, p)'
        BY <1>1, <4>1, <4>2 DEF OpensWell, PlanKnown, AddRef, Release, Do
      <4>4. QED
        BY <3>2, <3>5, <3>6, <4>3, <2>4, StorePlanAfter, AssignPlanAfter
    <3>7. CASE ~Stores(q, s)
      <4>1. OnlyCounts(q) /\ s = FreshSlot(t)'
        BY <1>1, <2>4, <3>4, <3>7 DEF Disturbs, Stores, OnlyCounts, AddRef, Do
      <4>2. q = <<AddRef(o)>>
        <5>1. RefTypeOK'
          BY OpensTypes DEF OpensWell
        <5>2. ptr'[FreshSlot(t)'] = Head(q).obj
          BY <1>1, <4>1, <5>1, PlanFactsAfter DEF OpensWell, OnlyCounts, AddRef, Do
        <5>3. QED
          BY <2>4, <4>1, <5>2 DEF OnlyCounts
      <4>3. PICK x \in U : ptr[x] = o
        BY <2>2, <4>2 DEF OpensWell
      <4>4. QED
        BY <2>2, <3>5, <4>3
    <3>8. QED
      BY <3>6, <3>7
  <2>5. \A s \in Slot : ptr'[s] # o
    BY <1>1, <2>2, <2>4 DEF Opens
  <2>6. \A w \in Thread \ {u} : todo'[w] # <<Destruction(o)>>
    BY <1>1, <2>2 DEF OpensWell
  <2>7. QED
    BY <1>1, <2>1, <2>2, <2>3, <2>5, <2>6
<1>3. QED
  BY <1>2 DEF DestructionKnown, Destruction, Do

\* What is known of an object stays known.
LEMMA OpensKnown ==
  ASSUME RefCountedAssumption, RefInv, NEW t \in Thread, NEW U, NEW q, OpensWell(t, U, q),
         NEW o \in Object
  PROVE  Known(o) \subseteq Known(o)'
<1>1. /\ Opens(t, U, q) /\ OthersKeep(t) /\ todo[t] = <<>> /\ todo'[t] = q /\ using'[t] = U
      /\ view'[t] = view[t] \cup UNION {handed[s] : s \in U}
      /\ \A u \in Thread \ {t} : /\ todo'[u] = todo[u] /\ using'[u] = using[u]
                                 /\ view'[u] = view[u] /\ using[u] \cap U = {}
  BY OpensOthers DEF OpensWell
<1>2. RefTypeOK /\ RefTypeOK' /\ PlansKnown /\ handed' = handed /\ released' = released
      /\ using[t] = {}
  BY <1>1, OpensTypes DEF RefInv, Opens, Idle
<1>3. ASSUME NEW n \in 1..MaxUses, NEW s \in SlotHolders(o), n \in KnownAt(s)
      PROVE  n \in Known(o)'
  <2>1. s \in Slot /\ ptr[s] = o
    BY <1>3 DEF SlotHolders
  <2>2. CASE s \in U
    <3>1. Holds(t, o)'
      BY <2>1, <2>2, OpensHolds DEF OpensWell
    <3>2. view'[t] \subseteq Known(o)'
      BY <1>2, <3>1, HoldsMeansKnownAfter
    <3>3. \A u \in Thread : s \notin using[u]
      BY <1>1, <1>2, <2>2
    <3>4. n \in handed[s]
      BY <1>3, <3>3 DEF KnownAt
    <3>5. n \in view'[t]
      BY <1>1, <2>2, <3>4
    <3>6. QED
      BY <3>2, <3>5
  <2>3. CASE s \notin U
    <3>1. s \in SlotHolders(o)'
      BY <1>1, <1>3, <2>1, <2>3, OpensSlots DEF OpensWell
    <3>2. n \in KnownAt(s)'
      <4>1. CASE n \in handed[s]
        BY <1>2, <4>1 DEF KnownAt
      <4>2. ASSUME NEW u \in Thread, s \in using[u], n \in view[u] PROVE n \in KnownAt(s)'
        <5>1. u # t
          BY <1>2, <4>2
        <5>2. QED
          BY <1>1, <4>2, <5>1 DEF KnownAt
      <4>3. QED
        BY <1>3, <4>1, <4>2 DEF KnownAt
    <3>3. QED
      BY <3>1, <3>2 DEF Known
  <2>4. QED
    BY <2>2, <2>3
<1>4. ASSUME NEW n \in 1..MaxUses, NEW u \in StoreHolders(o) \cup ReleaseHolders(o), n \in view[u]
      PROVE  n \in Known(o)'
  <2>1. u \in Thread /\ u # t
    BY <1>1, <1>4, EmptyPlan DEF StoreHolders, ReleaseHolders
  <2>2. u \in StoreHolders(o)' \cup ReleaseHolders(o)'
    BY <1>1, <1>2, <1>4, <2>1, HoldersAfter
  <2>3. QED
    BY <1>1, <1>4, <2>1, <2>2 DEF Known
<1>5. QED
  BY <1>2, <1>3, <1>4 DEF Known

\* ... and MemoryKnown ...
LEMMA OpensMemory ==
  ASSUME RefCountedAssumption, RefInv, NEW t \in Thread, NEW U, NEW q, OpensWell(t, U, q)
  PROVE  MemoryKnown'
<1>1. /\ Opens(t, U, q) /\ using'[t] = U
      /\ \A u \in Thread \ {t} : using'[u] = using[u] /\ view'[u] = view[u]
  BY OpensOthers DEF OpensWell
<1>2. RefTypeOK' /\ handed' = handed /\ uses' = uses
  BY <1>1, OpensTypes DEF Opens
<1>3. ASSUME NEW o \in Object, state'[o] = "unborn"
      PROVE  uses'[o] = {} /\ handed'[o] = {} /\ \A u \in Thread : o \notin using'[u]
  <2>1. state[o] = "unborn"
    BY <1>1, <1>3 DEF Opens
  <2>2. uses[o] = {} /\ handed[o] = {} /\ \A u \in Thread : o \notin using[u]
    BY <2>1 DEF RefInv, MemoryKnown
  <2>3. o \notin U
    <3>1. \A w \in U : w \in Slot
      BY <1>1 DEF Opens
    <3>2. \A w \in U : ptr[w] # o
      BY <2>1, <3>1 DEF RefInv, LiveKnown, RefCountedAssumption, Slot
    <3>3. QED
      BY <3>2 DEF OpensWell, Pinned
  <2>4. QED
    BY <1>1, <1>2, <2>2, <2>3
<1>4. ASSUME NEW o \in Object, state'[o] = "live"
      PROVE  /\ uses'[o] \subseteq Known(o)' /\ handed'[o] \subseteq Known(o)'
             /\ \A u \in Thread : o \in using'[u] => view'[u] \subseteq Known(o)'
  <2>1. CASE state[o] = "live"
    <3>1. /\ uses[o] \subseteq Known(o) /\ handed[o] \subseteq Known(o)
          /\ \A u \in Thread : o \in using[u] => view[u] \subseteq Known(o)
      BY <2>1 DEF RefInv, MemoryKnown
    <3>2. Known(o) \subseteq Known(o)'
      BY OpensKnown
    <3>3. o \in U => view'[t] \subseteq Known(o)'
      BY <1>2, OpensHolds, HoldsMeansKnownAfter DEF OpensWell, Pinned
    <3>4. QED
      BY <1>1, <1>2, <3>1, <3>2, <3>3
  <2>2. CASE state[o] # "live"
    <3>1. state[o] = "unborn" /\ o \notin U
      BY <1>1, <1>4, <2>2 DEF Opens
    <3>2. uses[o] = {} /\ handed[o] = {} /\ \A u \in Thread : o \notin using[u]
      BY <3>1 DEF RefInv, MemoryKnown
    <3>3. QED
      BY <1>1, <1>2, <3>1, <3>2
  <2>3. QED
    BY <2>1, <2>2
<1>5. QED
  BY <1>3, <1>4 DEF MemoryKnown

\* ... and so the whole invariant.
LEMMA OpensKeepsInv ==
  ASSUME RefCountedAssumption, RefInv, NEW t \in Thread, NEW U, NEW q, OpensWell(t, U, q)
  PROVE  RefInv'
<1>1. RefTypeOK' /\ UsingKnown' /\ LiveKnown'
  BY OpensTypes, OpensOthers DEF OpensWell
<1>2. QED
  BY <1>1, OpensCount, OpensPlans, OpensHoldsKnown, OpensDestruction, OpensMemory DEF RefInv

-----------------------------------------------------------------------------
(* The operations, one by one.                                               *)
LEMMA PlanTypes ==
  ASSUME NEW p \in Pointer, NEW s \in Slot, RefTypeOK
  PROVE  /\ <<>> \in Seq(Micro) /\ \A o \in Object : <<AddRef(o)>> \in Seq(Micro)
         /\ ReleaseIf(p) \in Seq(Micro)
         /\ StoreSteps(s, p) \in Seq(Micro) /\ AssignSteps(s, p) \in Seq(Micro)
<1>1. /\ \A x \in Object : AddRef(x) \in Micro /\ Release(x) \in Micro
      /\ Do("store", p, s) \in Micro
  BY DEF AddRef, Release, Do, Micro, Pointer
<1>2. ptr[s] \in Pointer
  BY DEF RefTypeOK
<1>3. \A x \in Pointer : ReleaseIf(x) \in Seq(Micro) /\ AddRefIf(x) \in Seq(Micro)
  BY <1>1 DEF ReleaseIf, AddRefIf, Pointer
<1>4. StoreSteps(s, p) \in Seq(Micro)
  BY <1>1, <1>2, <1>3, ConcatProperties DEF StoreSteps
<1>5. AssignSteps(s, p) \in Seq(Micro)
  BY <1>3, <1>4, ConcatProperties DEF AssignSteps
<1>6. QED
  BY <1>1, <1>3, <1>4, <1>5

\* Begin is such a beginning.
LEMMA BeginOpens ==
  ASSUME RefInv, NEW t \in Thread, Idle(t), NEW slots, NEW vs, NEW q, Begin(t, slots, vs, q),
         slots \cup vs \subseteq Slot, slots \cup vs # {}, q \in Seq(Micro),
         ptr' \in [Slot -> Pointer], \A x \in Slot \ (slots \cup vs) : ptr'[x] = ptr[x],
         state' = state, count' = count
  PROVE  Opens(t, slots \cup vs, q)
<1>1. RefTypeOK
  BY DEF RefInv
<1>2. /\ (slots \cup vs) \cap Held(t) = {}
      /\ using' = [using EXCEPT ![t] = slots \cup vs]
      /\ todo' = [todo EXCEPT ![t] = q]
      /\ view' = [view EXCEPT ![t] = @ \cup UNION {handed[s] : s \in slots \cup vs}]
      /\ UNCHANGED <<released, handed, uses>>
  BY DEF Begin
<1>3. state' \in [Object -> {"unborn", "live", "deleted"}]
  BY <1>1 DEF RefTypeOK
<1>4. QED
  BY <1>2, <1>3 DEF Opens

\* What a variable leads to exists.
LEMMA ReachFacts ==
  ASSUME RefCountedAssumption, RefInv, NEW v \in Var, NEW s \in Reaches(v)
  PROVE  /\ v \in Slot /\ s \in Slot /\ v \notin Object
         /\ s # v => s = ptr[v] /\ s \in Object
BY DEF RefCountedAssumption, RefInv, RefTypeOK, Reaches, Slot, Pointer

\* Moving pointers about between slots of living objects leaves them to living objects.
LEMMA LiveAfter ==
  ASSUME RefCountedAssumption, RefInv, NEW U, U \subseteq Slot, Pinned(U),
         state' = state, count' = count,
         \A x \in Slot : \/ ptr'[x] = ptr[x]
                         \/ x \in U /\ (ptr'[x] = Nil \/ \E y \in Slot : ptr'[x] = ptr[y])
  PROVE  LiveKnown'
<1>1. LiveKnown /\ RefTypeOK
  BY DEF RefInv
<1>2. ASSUME NEW x \in Slot, ptr'[x] # Nil PROVE state'[ptr'[x]] = "live"
  BY <1>1, <1>2 DEF LiveKnown
<1>3. ASSUME NEW o \in Object, state'[o] # "live" PROVE ptr'[o] = Nil /\ count'[o] = 0
  <2>1. ptr[o] = Nil /\ count[o] = 0
    BY <1>1, <1>3 DEF LiveKnown
  <2>2. o \notin U
    <3>1. SUFFICES ASSUME NEW w \in U, ptr[w] = o PROVE FALSE
      BY DEF Pinned
    <3>2. w \in Slot /\ ptr[w] # Nil
      BY <3>1 DEF RefCountedAssumption
    <3>3. QED
      BY <1>1, <1>3, <3>1, <3>2 DEF LiveKnown
  <2>3. o \in Slot
    BY DEF Slot
  <2>4. QED
    BY <2>1, <2>2, <2>3
<1>4. QED
  BY <1>2, <1>3 DEF LiveKnown, Slot

\* Slots whose pointers stay and are not disturbed stay holders.
LEMMA SlotsStay ==
  ASSUME RefInv, NEW t \in Thread, NEW U, NEW q, Opens(t, U, q),
         \A s : Disturbs(t, s)' => s \in U, NEW o, NEW x,
         x \in U => ptr'[x] = ptr[x] /\ ~Disturbs(t, x)'
  PROVE  x \in SlotHolders(o) <=> x \in SlotHolders(o)'
<1>1. CASE x \in U
  BY <1>1, OpensSlots
<1>2. CASE x \in Slot \ U
  BY <1>2, OpensSlots
<1>3. CASE x \notin Slot
  BY <1>3 DEF SlotHolders, Slot
<1>4. QED
  BY <1>1, <1>2, <1>3

\* One slot changes, and what it pointed to is to be released.
LEMMA BalancedOne ==
  ASSUME RefCountedAssumption, RefInv, NEW t \in Thread, NEW U, NEW q, Opens(t, U, q),
         \A s : Disturbs(t, s)' => s \in U,
         NEW s \in U, \A x \in U \ {s} : ptr'[x] = ptr[x] /\ ~Disturbs(t, x)',
         Disturbs(t, s)' \/ ptr'[s] = Nil,
         \A o \in Object : ~StoresFirst(q, o) /\ (Releases(q, o) <=> o = ptr[s])
  PROVE  Balanced(q)
<1>1. ASSUME NEW o \in Object
      PROVE  Cardinality(SlotHolders(o)') + (IF StoresFirst(q, o) THEN 1 ELSE 0)
               + (IF Releases(q, o) THEN 1 ELSE 0) = Cardinality(SlotHolders(o))
  <2>1. \A x : x # s => (x \in SlotHolders(o) <=> x \in SlotHolders(o)')
    BY SlotsStay
  <2>2. s \notin SlotHolders(o)' /\ (s \in SlotHolders(o) <=> ptr[s] = o)
    BY OpensSlots DEF RefCountedAssumption
  <2>3. IsFiniteSet(SlotHolders(o))
    BY HoldersFinite
  <2>4. Cardinality(SlotHolders(o)') + (IF ptr[s] = o THEN 1 ELSE 0) = Cardinality(SlotHolders(o))
        /\ Cardinality(SlotHolders(o)') \in Nat
    BY <2>1, <2>2, <2>3, ChangeOne
  <2>5. QED
    BY <2>4
<1>2. QED
  BY <1>1 DEF Balanced

\* Two slots change.
LEMMA BalancedTwo ==
  ASSUME RefCountedAssumption, RefInv, NEW t \in Thread, NEW U, NEW q, Opens(t, U, q),
         \A s : Disturbs(t, s)' => s \in U,
         NEW s \in U, NEW r \in U, s # r,
         \A x \in U \ {s, r} : ptr'[x] = ptr[x] /\ ~Disturbs(t, x)',
         \A o \in Object :
            /\ ~StoresFirst(q, o)
            /\ (IF ptr'[s] = o /\ ~Disturbs(t, s)' THEN 1 ELSE 0)
                  + (IF ptr'[r] = o /\ ~Disturbs(t, r)' THEN 1 ELSE 0)
                  + (IF Releases(q, o) THEN 1 ELSE 0)
                 = (IF ptr[s] = o THEN 1 ELSE 0) + (IF ptr[r] = o THEN 1 ELSE 0)
  PROVE  Balanced(q)
<1>1. ASSUME NEW o \in Object
      PROVE  Cardinality(SlotHolders(o)') + (IF StoresFirst(q, o) THEN 1 ELSE 0)
               + (IF Releases(q, o) THEN 1 ELSE 0) = Cardinality(SlotHolders(o))
  <2>1. \A x : x # s /\ x # r => (x \in SlotHolders(o) <=> x \in SlotHolders(o)')
    BY SlotsStay
  <2>2. /\ s \in SlotHolders(o)' <=> ptr'[s] = o /\ ~Disturbs(t, s)'
        /\ r \in SlotHolders(o)' <=> ptr'[r] = o /\ ~Disturbs(t, r)'
        /\ s \in SlotHolders(o) <=> ptr[s] = o
        /\ r \in SlotHolders(o) <=> ptr[r] = o
    BY OpensSlots
  <2>3. IsFiniteSet(SlotHolders(o))
    BY HoldersFinite
  <2>4. /\ Cardinality(SlotHolders(o)) \in Nat /\ Cardinality(SlotHolders(o)') \in Nat
        /\ Cardinality(SlotHolders(o)') + (IF s \in SlotHolders(o) THEN 1 ELSE 0)
               + (IF r \in SlotHolders(o) THEN 1 ELSE 0)
             = Cardinality(SlotHolders(o)) + (IF s \in SlotHolders(o)' THEN 1 ELSE 0)
               + (IF r \in SlotHolders(o)' THEN 1 ELSE 0)
    BY <2>1, <2>3, ChangeTwo
  <2>5. QED
    BY <2>2, <2>4
<1>2. QED
  BY <1>1 DEF Balanced

\* Without a plan, or with one that only releases, no slot is disturbed.
LEMMA QuietPlans ==
  ASSUME RefCountedAssumption, NEW p \in Pointer, NEW q, q = ReleaseIf(p)
  PROVE  /\ \A s : ~Stores(q, s)
         /\ ~OnlyCounts(q)
         /\ \A o \in Object : /\ ~StoresFirst(q, o) /\ (Releases(q, o) <=> o = p)
                              /\ q # <<Destruction(o)>> /\ q # <<AddRef(o)>>
         /\ q = <<>> \/ (p \in Object /\ q = <<Release(p)>>)
<1>1. CASE p = Nil
  <2>1. q = <<>>
    BY <1>1 DEF ReleaseIf
  <2>2. \A o \in Object : o # p
    BY <1>1 DEF RefCountedAssumption
  <2>3. QED
    BY <2>1, <2>2, EmptyPlan
<1>2. CASE p # Nil
  <2>1. p \in Object /\ q = <<Release(p)>>
    BY <1>2 DEF ReleaseIf, Pointer
  <2>2. \A o : q # <<AddRef(o)>>
    BY <2>1, ReleasePlan, CountPlan
  <2>3. QED
    BY <2>1, <2>2, ReleasePlan
<1>3. QED
  BY <1>1, <1>2

\* Such a plan is one of those that are known, and disturbs nothing.
LEMMA QuietOpens ==
  ASSUME RefCountedAssumption, RefInv, NEW t \in Thread, NEW U, NEW p \in Pointer,
         NEW q, q = ReleaseIf(p), Opens(t, U, q)
  PROVE  /\ \A s : ~Disturbs(t, s)'
         /\ PlanKnown(t)'
<1>0. U # {}
  BY DEF Opens
<1>1. todo'[t] = q /\ using'[t] = U /\ U # {}
  BY <1>0, OpensOthers
<1>2. \A s : ~Disturbs(t, s)'
  BY <1>1, QuietPlans DEF Disturbs, Stores, OnlyCounts, AddRef, Do
<1>3. PlanKnown(t)'
  BY <1>1, QuietPlans DEF PlanKnown, Release, Do
<1>4. QED
  BY <1>2, <1>3

\* ~scoped_ref_ptr of a variable.
LEMMA DestructKeepsInv ==
  ASSUME RefCountedAssumption, RefInv, NEW t \in Thread, Idle(t), NEW v \in Var, Destruct(t, v)
  PROVE  RefInv'
<1> DEFINE U == {v} \cup {v}
           q == ReleaseIf(ptr[v])
<1>1. v \in Slot /\ v \notin Object /\ ptr[v] \in Pointer /\ RefTypeOK
  BY DEF RefCountedAssumption, RefInv, RefTypeOK, Slot
<1>2. /\ ptr' = [ptr EXCEPT ![v] = Nil] /\ state' = state /\ count' = count
      /\ Begin(t, {v}, {v}, q)
  BY DEF Destruct
<1>3. ptr' \in [Slot -> Pointer] /\ ptr'[v] = Nil /\ \A x \in Slot \ {v} : ptr'[x] = ptr[x]
  BY <1>1, <1>2 DEF RefTypeOK, Pointer
<1>4. Opens(t, U, q)
  <2>1. q \in Seq(Micro)
    BY <1>1, PlanTypes
  <2>2. QED
    BY <1>1, <1>2, <1>3, <2>1, BeginOpens
<1> HIDE DEF q
<1>5. q = ReleaseIf(ptr[v])
  BY DEF q
<1>6. PlanKnown(t)' /\ \A s : ~Disturbs(t, s)'
  BY <1>1, <1>4, <1>5, QuietOpens
<1>7. Pinned(U)
  BY <1>1 DEF Pinned
<1>8. LiveKnown'
  BY <1>1, <1>2, <1>3, <1>7, LiveAfter
<1>9. /\ \A o \in Object : ~StoresFirst(q, o) /\ (Releases(q, o) <=> o = ptr[v])
      /\ \A o \in Object : q # <<Destruction(o)>> /\ q # <<AddRef(o)>>
  BY <1>1, <1>5, QuietPlans
<1>10. Balanced(q)
  BY <1>3, <1>4, <1>6, <1>9, BalancedOne
<1>11. OpensWell(t, U, q)
  BY <1>4, <1>6, <1>7, <1>8, <1>9, <1>10 DEF OpensWell
<1>12. QED
  BY <1>11, OpensKeepsInv

\* s.swap(r).
LEMMA SwapKeepsInv ==
  ASSUME RefCountedAssumption, RefInv, NEW t \in Thread, Idle(t), NEW v \in Var, NEW w \in Var,
         NEW s \in Reaches(v), NEW r \in Reaches(w), Swap(t, s, r, {v, w})
  PROVE  RefInv'
<1> DEFINE U == {s, r} \cup {v, w}
           q == <<>>
<1>1. /\ v \in Slot /\ s \in Slot /\ v \notin Object
      /\ s # v => s = ptr[v] /\ s \in Object
      /\ w \in Slot /\ r \in Slot /\ w \notin Object
      /\ r # w => r = ptr[w] /\ r \in Object
      /\ ptr \in [Slot -> Pointer]
  BY ReachFacts DEF RefInv, RefTypeOK
<1>2. /\ s # r /\ ptr' = [ptr EXCEPT ![s] = ptr[r], ![r] = ptr[s]]
      /\ state' = state /\ count' = count /\ Begin(t, {s, r}, {v, w}, q)
  BY DEF Swap
<1>3. /\ ptr' \in [Slot -> Pointer] /\ ptr'[s] = ptr[r] /\ ptr'[r] = ptr[s]
      /\ \A x \in Slot \ {s, r} : ptr'[x] = ptr[x]
  BY <1>1, <1>2
<1>4. Opens(t, U, q)
  <2>1. U \subseteq Slot /\ U # {} /\ \A x \in Slot \ U : ptr'[x] = ptr[x]
    BY <1>1, <1>3
  <2>2. q \in Seq(Micro)
    OBVIOUS
  <2>3. QED
    BY <1>2, <1>3, <2>1, <2>2, BeginOpens
<1>5. q = ReleaseIf(Nil) /\ Nil \in Pointer
  BY DEF ReleaseIf, Pointer
<1>6. PlanKnown(t)' /\ \A x : ~Disturbs(t, x)'
  BY <1>4, <1>5, QuietOpens
<1>7. Pinned(U)
  BY <1>1 DEF Pinned
<1>8. LiveKnown'
  BY <1>1, <1>2, <1>3, <1>7, LiveAfter
<1>9. \A o \in Object : /\ ~StoresFirst(q, o) /\ ~Releases(q, o)
                        /\ q # <<Destruction(o)>> /\ q # <<AddRef(o)>>
  BY EmptyPlan
<1>10. Balanced(q)
  <2>1. s \in U /\ r \in U /\ \A x \in U \ {s, r} : ptr'[x] = ptr[x] /\ ~Disturbs(t, x)'
    BY <1>1, <1>3, <1>6
  <2>2. \A o \in Object :
           /\ ~StoresFirst(q, o)
           /\ (IF ptr'[s] = o /\ ~Disturbs(t, s)' THEN 1 ELSE 0)
                 + (IF ptr'[r] = o /\ ~Disturbs(t, r)' THEN 1 ELSE 0)
                 + (IF Releases(q, o) THEN 1 ELSE 0)
                = (IF ptr[s] = o THEN 1 ELSE 0) + (IF ptr[r] = o THEN 1 ELSE 0)
    BY <1>3, <1>6, <1>9
  <2>3. (\A x : Disturbs(t, x)' => x \in U) /\ s # r
    BY <1>2, <1>6
  <2> HIDE DEF U, q
  <2>4. QED
    BY <1>4, <2>1, <2>2, <2>3, BalancedTwo, SMTT(60)
<1>11. OpensWell(t, U, q)
  BY <1>4, <1>6, <1>7, <1>8, <1>9, <1>10 DEF OpensWell
<1>12. QED
  BY <1>11, OpensKeepsInv

\* scoped_ref_ptr<T> v(std::move(r)).
LEMMA ConstructMoveKeepsInv ==
  ASSUME RefCountedAssumption, RefInv, NEW t \in Thread, Idle(t), NEW v \in Var, NEW w \in Var,
         NEW r \in Reaches(w), ConstructMove(t, v, r, {w})
  PROVE  RefInv'
<1> DEFINE U == {v, r} \cup ({w} \cup {v})
           q == <<>>
<1>1. /\ v \in Slot /\ v \notin Object
      /\ w \in Slot /\ r \in Slot /\ w \notin Object
      /\ r # w => r = ptr[w] /\ r \in Object
      /\ ptr \in [Slot -> Pointer]
  BY ReachFacts DEF RefInv, RefTypeOK, RefCountedAssumption, Slot
<1>2. /\ v # r /\ ptr[v] = Nil /\ ptr[r] # Nil
      /\ ptr' = [ptr EXCEPT ![v] = ptr[r], ![r] = Nil]
      /\ state' = state /\ count' = count /\ Begin(t, {v, r}, {w} \cup {v}, q)
  BY DEF ConstructMove
<1>3. /\ ptr' \in [Slot -> Pointer] /\ ptr'[v] = ptr[r] /\ ptr'[r] = Nil
      /\ \A x \in Slot \ {v, r} : ptr'[x] = ptr[x]
  BY <1>1, <1>2 DEF Pointer
<1>4. Opens(t, U, q)
  <2>1. U \subseteq Slot /\ U # {} /\ \A x \in Slot \ U : ptr'[x] = ptr[x]
    BY <1>1, <1>3
  <2>2. q \in Seq(Micro)
    OBVIOUS
  <2>3. QED
    BY <1>2, <1>3, <2>1, <2>2, BeginOpens
<1>5. q = ReleaseIf(Nil) /\ Nil \in Pointer
  BY DEF ReleaseIf, Pointer
<1>6. PlanKnown(t)' /\ \A x : ~Disturbs(t, x)'
  BY <1>4, <1>5, QuietOpens
<1>7. Pinned(U)
  BY <1>1 DEF Pinned
<1>8. LiveKnown'
  <2>1. \A x \in Slot : \/ ptr'[x] = ptr[x]
                        \/ x \in U /\ (ptr'[x] = Nil \/ \E y \in Slot : ptr'[x] = ptr[y])
    BY <1>1, <1>3
  <2>2. U \subseteq Slot
    BY <1>1
  <2>3. QED
    BY <1>2, <1>7, <2>1, <2>2, LiveAfter
<1>9. \A o \in Object : /\ ~StoresFirst(q, o) /\ ~Releases(q, o) /\ o # Nil
                        /\ q # <<Destruction(o)>> /\ q # <<AddRef(o)>>
  BY EmptyPlan DEF RefCountedAssumption
<1>10. Balanced(q)
  <2>1. v \in U /\ r \in U /\ \A x \in U \ {v, r} : ptr'[x] = ptr[x] /\ ~Disturbs(t, x)'
    BY <1>1, <1>3, <1>4, <1>6 DEF Opens
  <2>2. \A o \in Object :
           /\ ~StoresFirst(q, o)
           /\ (IF ptr'[v] = o /\ ~Disturbs(t, v)' THEN 1 ELSE 0)
                 + (IF ptr'[r] = o /\ ~Disturbs(t, r)' THEN 1 ELSE 0)
                 + (IF Releases(q, o) THEN 1 ELSE 0)
                = (IF ptr[v] = o THEN 1 ELSE 0) + (IF ptr[r] = o THEN 1 ELSE 0)
    BY <1>2, <1>3, <1>6, <1>9
  <2>3. (\A x : Disturbs(t, x)' => x \in U) /\ v # r
    BY <1>2, <1>6
  <2> HIDE DEF U, q
  <2>4. QED
    BY <1>4, <2>1, <2>2, <2>3, BalancedTwo, SMTT(60)
<1>11. OpensWell(t, U, q)
  BY <1>4, <1>6, <1>7, <1>8, <1>9, <1>10 DEF OpensWell
<1>12. QED
  BY <1>11, OpensKeepsInv

\* Assigning to one slot a pointer that another one has.
LEMMA AssignKeepsInv ==
  ASSUME RefCountedAssumption, RefInv, NEW t \in Thread, NEW U, NEW p \in Pointer, NEW s \in U,
         NEW q, q = AssignSteps(s, p), Opens(t, U, q), ptr' = ptr, state' = state,
         Pinned(U), p = Nil \/ \E r \in U : ptr[r] = p
  PROVE  RefInv'
<1>1. /\ todo'[t] = q /\ using'[t] = U /\ count' = count /\ U \subseteq Slot
      /\ RefTypeOK /\ LiveKnown /\ Nil \notin Object
  BY OpensOthers DEF Opens, RefInv, RefCountedAssumption
<1>2. ptr[s] \in Pointer
  BY <1>1 DEF RefTypeOK
<1>3. /\ \A x : Stores(q, x) <=> x = s
      /\ ~OnlyCounts(q)
      /\ \A o \in Object : /\ Releases(q, o) <=> o = ptr[s]
                           /\ ~StoresFirst(q, o) /\ q # <<Destruction(o)>> /\ q # <<AddRef(o)>>
  <2>1. CASE p = Nil
    <3>1. q = StoreSteps(s, p)
      BY <2>1, ExplicitPlans
    <3>2. \A o \in Object : ~OnlyCounts(<<AddRef(o)>>) => FALSE
      BY CountPlan
    <3>3. QED
      BY <1>1, <2>1, <3>1, <3>2, StorePlan
  <2>2. CASE p # Nil
    <3>1. \A o \in Object : ~OnlyCounts(<<AddRef(o)>>) => FALSE
      BY CountPlan
    <3>2. QED
      BY <1>1, <2>2, <3>1, AssignPlan
  <2>3. QED
    BY <2>1, <2>2
<1>4. \A x : Disturbs(t, x)' <=> x = s
  BY <1>1, <1>3 DEF Disturbs, Stores, OnlyCounts, AddRef, Do
<1>5. PlanKnown(t)'
  <2>1. AssignSteps(s, p)' = AssignSteps(s, p) /\ StoreSteps(s, p)' = StoreSteps(s, p)
    BY DEF AssignSteps, StoreSteps, AddRefIf, ReleaseIf, AddRef, Release, Do
  <2>2. q = AssignSteps(s, p)'
    BY <2>1
  <2>3. p = Nil => q = StoreSteps(s, p)'
    BY <2>1, ExplicitPlans
  <2>4. QED
    BY <1>1, <2>2, <2>3 DEF PlanKnown
<1>6. LiveKnown'
  BY <1>1, LiveAfter
<1>7. Balanced(q)
  BY <1>3, <1>4, BalancedOne
<1>8. OpensWell(t, U, q)
  BY <1>3, <1>4, <1>5, <1>6, <1>7 DEF OpensWell
<1>9. QED
  BY <1>8, OpensKeepsInv

\* s = nullptr.
LEMMA AssignNullKeepsInv ==
  ASSUME RefCountedAssumption, RefInv, NEW t \in Thread, Idle(t), NEW v \in Var,
         NEW s \in Reaches(v), AssignNull(t, s, {v})
  PROVE  RefInv'
<1> DEFINE U == {s} \cup {v}
           q == AssignSteps(s, Nil)
<1>1. /\ v \in Slot /\ s \in Slot /\ v \notin Object
      /\ s # v => s = ptr[v] /\ s \in Object
      /\ ptr \in [Slot -> Pointer] /\ RefTypeOK /\ Nil \in Pointer
  BY ReachFacts DEF RefInv, RefTypeOK, Pointer
<1>2. ptr' = ptr /\ state' = state /\ count' = count /\ Begin(t, {s}, {v}, q)
  BY DEF AssignNull
<1>3. U \subseteq Slot /\ U # {} /\ Pinned(U) /\ s \in U
  BY <1>1 DEF Pinned
<1>4. q \in Seq(Micro)
  BY <1>1, PlanTypes
<1>5. Opens(t, U, q)
  BY <1>1, <1>2, <1>3, <1>4, BeginOpens
<1> HIDE DEF U
<1>6. QED
  BY <1>1, <1>2, <1>3, <1>5, AssignKeepsInv

\* s = r.
LEMMA AssignCopyKeepsInv ==
  ASSUME RefCountedAssumption, RefInv, NEW t \in Thread, Idle(t), NEW v \in Var, NEW w \in Var,
         NEW s \in Reaches(v), NEW r \in Reaches(w), AssignCopy(t, s, r, {v, w})
  PROVE  RefInv'
<1> DEFINE U == {s, r} \cup {v, w}
           q == AssignSteps(s, ptr[r])
<1>1. /\ v \in Slot /\ s \in Slot /\ v \notin Object
      /\ s # v => s = ptr[v] /\ s \in Object
      /\ w \in Slot /\ r \in Slot /\ w \notin Object
      /\ r # w => r = ptr[w] /\ r \in Object
      /\ ptr \in [Slot -> Pointer] /\ RefTypeOK
  BY ReachFacts DEF RefInv, RefTypeOK
<1>2. ptr' = ptr /\ state' = state /\ count' = count /\ Begin(t, {s, r}, {v, w}, q)
  BY DEF AssignCopy
<1>3. U \subseteq Slot /\ U # {} /\ Pinned(U) /\ s \in U /\ r \in U /\ ptr[r] \in Pointer
  BY <1>1 DEF Pinned
<1>4. q \in Seq(Micro)
  BY <1>1, <1>3, PlanTypes
<1>5. Opens(t, U, q)
  BY <1>1, <1>2, <1>3, <1>4, BeginOpens
<1> HIDE DEF U
<1>6. QED
  BY <1>1, <1>2, <1>3, <1>5, AssignKeepsInv

\* s = std::move(r): what s pointed to is released, or what both pointed to.
LEMMA AssignMoveKeepsInv ==
  ASSUME RefCountedAssumption, RefInv, NEW t \in Thread, Idle(t), NEW v \in Var, NEW w \in Var,
         NEW s \in Reaches(v), NEW r \in Reaches(w), AssignMove(t, s, r, {v, w})
  PROVE  RefInv'
<1> DEFINE U == {s, r} \cup {v, w}
           q == ReleaseIf(Old(s, r))
<1>1. /\ v \in Slot /\ s \in Slot /\ v \notin Object
      /\ s # v => s = ptr[v] /\ s \in Object
      /\ w \in Slot /\ r \in Slot /\ w \notin Object
      /\ r # w => r = ptr[w] /\ r \in Object
      /\ ptr \in [Slot -> Pointer] /\ RefTypeOK /\ Nil \notin Object
  BY ReachFacts DEF RefInv, RefTypeOK, RefCountedAssumption
<1>2. ptr' = Steal(s, r) /\ state' = state /\ count' = count /\ Begin(t, {s, r}, {v, w}, q)
  BY DEF AssignMove
<1>3. /\ ptr' \in [Slot -> Pointer] /\ ptr'[s] = ptr[r] /\ (s # r => ptr'[r] = Nil)
      /\ \A x \in Slot \ {s, r} : ptr'[x] = ptr[x]
      /\ Old(s, r) = (IF s = r THEN Nil ELSE ptr[s]) /\ Old(s, r) \in Pointer
  BY <1>1, <1>2 DEF Steal, Old, Pointer
<1>4. U \subseteq Slot /\ U # {} /\ Pinned(U) /\ s \in U /\ r \in U
      /\ \A x \in Slot \ U : ptr'[x] = ptr[x]
  BY <1>1, <1>3 DEF Pinned
<1>5. Opens(t, U, q)
  <2>1. q \in Seq(Micro)
    BY <1>1, <1>3, PlanTypes
  <2>2. QED
    BY <1>1, <1>2, <1>3, <1>4, <2>1, BeginOpens
<1> HIDE DEF q
<1>6. q = ReleaseIf(Old(s, r))
  BY DEF q
<1>7. PlanKnown(t)' /\ \A x : ~Disturbs(t, x)'
  BY <1>3, <1>5, <1>6, QuietOpens
<1>8. LiveKnown'
  <2>1. \A x \in Slot : \/ ptr'[x] = ptr[x]
                        \/ x \in U /\ (ptr'[x] = Nil \/ \E y \in Slot : ptr'[x] = ptr[y])
    BY <1>1, <1>3
  <2> HIDE DEF U
  <2>2. QED
    BY <1>2, <1>4, <2>1, LiveAfter
<1>9. /\ \A o \in Object : ~StoresFirst(q, o) /\ (Releases(q, o) <=> o = Old(s, r))
      /\ \A o \in Object : q # <<Destruction(o)>> /\ q # <<AddRef(o)>>
  BY <1>3, <1>6, QuietPlans
<1>10. Balanced(q)
  <2>1. CASE s # r
    <3>1. \A x \in U \ {s, r} : ptr'[x] = ptr[x] /\ ~Disturbs(t, x)'
      BY <1>3, <1>4, <1>7
    <3>2. \A o \in Object :
             /\ ~StoresFirst(q, o)
             /\ (IF ptr'[s] = o /\ ~Disturbs(t, s)' THEN 1 ELSE 0)
                   + (IF ptr'[r] = o /\ ~Disturbs(t, r)' THEN 1 ELSE 0)
                   + (IF Releases(q, o) THEN 1 ELSE 0)
                  = (IF ptr[s] = o THEN 1 ELSE 0) + (IF ptr[r] = o THEN 1 ELSE 0)
      BY <1>1, <1>3, <1>7, <1>9, <2>1
    <3>3. \A x : Disturbs(t, x)' => x \in U
      BY <1>7
    <3> HIDE DEF U
    <3>4. QED
      BY <1>4, <1>5, <2>1, <3>1, <3>2, <3>3, BalancedTwo
  <2>2. CASE s = r
    <3>1. \A x \in U : ptr'[x] = ptr[x] /\ ~Disturbs(t, x)'
      BY <1>1, <1>3, <1>4, <1>7, <2>2
    <3>2. \A x : Disturbs(t, x)' => x \in U
      BY <1>7
    <3>3. \A o \in Object : ~StoresFirst(q, o) /\ ~Releases(q, o)
      BY <1>1, <1>3, <1>9, <2>2
    <3> HIDE DEF U
    <3>4. ASSUME NEW o \in Object PROVE SlotHolders(o)' = SlotHolders(o)
      <4>1. \A x : x \in SlotHolders(o) <=> x \in SlotHolders(o)'
        BY <1>5, <3>1, <3>2, SlotsStay
      <4>2. QED
        BY <4>1
    <3>5. \A o \in Object : Cardinality(SlotHolders(o)) \in Nat
      BY HoldersFinite
    <3>6. QED
      BY <3>3, <3>4, <3>5 DEF Balanced
  <2>3. QED
    BY <2>1, <2>2
<1>11. OpensWell(t, U, q)
  BY <1>4, <1>5, <1>7, <1>8, <1>9, <1>10 DEF OpensWell
<1>12. QED
  BY <1>11, OpensKeepsInv

\* A constructor that has still to count: exactly its fresh slot is disturbed.
LEMMA FreshAfter ==
  ASSUME RefCountedAssumption, RefInv, NEW t \in Thread, NEW U, NEW q, NEW o \in Object,
         q = <<AddRef(o)>>, Opens(t, U, q), PlanKnown(t)'
  PROVE  \E f \in U : ptr'[f] = o /\ \A x : Disturbs(t, x)' <=> x = f
<1>1. todo'[t] = q /\ using'[t] = U /\ RefTypeOK'
  BY OpensOthers, OpensTypes
<1>2. /\ \A x : ~Stores(todo[t], x)'
      /\ OnlyCounts(todo[t])' /\ (Head(todo[t]).obj)' = o
  BY <1>1, CountPlan DEF Stores, OnlyCounts, AddRef, Do
<1>3. FreshSlot(t)' \in U /\ ptr'[FreshSlot(t)'] = o
  BY <1>1, <1>2, PlanFactsAfter
<1>4. \A x : Disturbs(t, x)' <=> x = FreshSlot(t)'
  BY <1>2 DEF Disturbs
<1>5. QED
  BY <1>3, <1>4

\* scoped_ref_ptr<T> v(new T).
LEMMA ConstructNewKeepsInv ==
  ASSUME RefCountedAssumption, RefInv, NEW t \in Thread, Idle(t), NEW v \in Var,
         NEW o \in Object, ConstructNew(t, v, o)
  PROVE  RefInv'
<1> DEFINE U == {v} \cup {v}
           q == <<AddRef(o)>>
<1>1. /\ v \in Slot /\ v \notin Object /\ o \in Slot /\ o # Nil
      /\ RefTypeOK /\ LiveKnown /\ Nil \notin Object
      /\ ptr \in [Slot -> Pointer] /\ state \in [Object -> {"unborn", "live", "deleted"}]
  BY DEF RefCountedAssumption, RefInv, RefTypeOK, Slot
<1>2. /\ state[o] = "unborn" /\ ptr[v] = Nil /\ ptr' = [ptr EXCEPT ![v] = o]
      /\ state' = [state EXCEPT ![o] = "live"] /\ count' = count
      /\ Begin(t, {v}, {v}, q)
  BY DEF ConstructNew
<1>3. /\ ptr' \in [Slot -> Pointer] /\ ptr'[v] = o /\ \A x \in Slot \ {v} : ptr'[x] = ptr[x]
      /\ state' \in [Object -> {"unborn", "live", "deleted"}] /\ state'[o] = "live"
      /\ \A x \in Object \ {o} : state'[x] = state[x]
  BY <1>1, <1>2 DEF Pointer
<1>4. q \in Seq(Micro)
  BY <1>1, PlanTypes
<1>5. Opens(t, U, q)
  <2>1. /\ U \cap Held(t) = {}
        /\ using' = [using EXCEPT ![t] = U] /\ todo' = [todo EXCEPT ![t] = q]
        /\ view' = [view EXCEPT ![t] = @ \cup UNION {handed[s] : s \in U}]
        /\ UNCHANGED <<count, released, handed, uses>>
    BY <1>2 DEF Begin
  <2>2. \A x \in Object : \/ state'[x] = state[x]
                          \/ state[x] = "unborn" /\ state'[x] = "live" /\ x \notin U
    BY <1>1, <1>2, <1>3
  <2>3. U \subseteq Slot /\ U # {} /\ \A x \in Slot \ U : ptr'[x] = ptr[x]
    BY <1>1, <1>3
  <2> HIDE DEF U
  <2>4. QED
    BY <1>3, <1>4, <2>1, <2>2, <2>3 DEF Opens
<1>6. count[o] = 0 /\ \A s \in Slot : ptr[s] # o
  BY <1>1, <1>2 DEF LiveKnown
<1>7. PlanKnown(t)'
  <2>1. todo'[t] = q /\ using'[t] = U /\ \A u \in Thread \ {t} : todo'[u] = todo[u]
    BY <1>5, OpensOthers
  <2>2. \A u \in Thread : todo[u] # <<AddRef(o)>>
    BY <1>6, CountersSeeObject
  <2>3. todo'[t] = <<AddRef(o)>> /\ v \in using'[t] /\ ptr'[v] = o /\ count'[o] = 0
        /\ \A u \in Thread \ {t} : todo'[u] # <<AddRef(o)>>
    BY <1>2, <1>3, <1>6, <2>1, <2>2
  <2>4. AddRef(o)' = AddRef(o)
    BY DEF AddRef, Do
  <2>5. QED
    BY <2>3, <2>4 DEF PlanKnown
<1>8. \A x : Disturbs(t, x)' <=> x = v
  BY <1>5, <1>7, FreshAfter
<1>9. LiveKnown'
  <2>1. ASSUME NEW s \in Slot, ptr'[s] # Nil PROVE state'[ptr'[s]] = "live"
    <3>1. CASE s = v
      BY <1>3, <3>1
    <3>2. CASE s # v
      <4>1. ptr'[s] = ptr[s] /\ ptr[s] \in Object /\ ptr[s] # o
        BY <1>1, <1>3, <1>6, <2>1, <3>2 DEF Pointer
      <4>2. QED
        BY <1>1, <1>3, <2>1, <4>1 DEF LiveKnown
    <3>3. QED
      BY <3>1, <3>2
  <2>2. ASSUME NEW x \in Object, state'[x] # "live" PROVE ptr'[x] = Nil /\ count'[x] = 0
    <3>1. x # o /\ x # v /\ x \in Slot /\ state[x] # "live"
      BY <1>1, <1>3, <2>2 DEF Slot
    <3>2. QED
      BY <1>1, <1>2, <1>3, <3>1 DEF LiveKnown
  <2>3. QED
    BY <2>1, <2>2 DEF LiveKnown
<1>10. /\ \A x \in Object : /\ ~StoresFirst(q, x) /\ ~Releases(q, x) /\ q # <<Destruction(x)>>
                            /\ q = <<AddRef(x)>> => state[x] = "unborn"
  <2>1. \A x \in Object : q = <<AddRef(x)>> => x = o
    <3>1. Head(q).obj = o
      BY CountPlan
    <3>2. \A x \in Object : q = <<AddRef(x)>> => Head(q).obj = x
      BY CountPlan
    <3>3. QED
      BY <3>1, <3>2
  <2>2. QED
    BY <1>2, <2>1, CountPlan
<1>11. Balanced(q)
  BY <1>1, <1>2, <1>5, <1>8, <1>10, BalancedOne
<1>12. Pinned(U)
  BY <1>1 DEF Pinned
<1> HIDE DEF U, q
<1>13. OpensWell(t, U, q)
  <2>1. v \in U
    BY DEF U
  <2>2. QED
    BY <1>5, <1>7, <1>8, <1>9, <1>10, <1>11, <1>12, <2>1 DEF OpensWell
<1>14. QED
  BY <1>13, OpensKeepsInv

\* scoped_ref_ptr<T> v(r): there is a second pointer to the object, held by r.
LEMMA ConstructCopyKeepsInv ==
  ASSUME RefCountedAssumption, RefInv, NEW t \in Thread, Idle(t), NEW v \in Var, NEW w \in Var,
         NEW r \in Reaches(w), ConstructCopy(t, v, r, {w})
  PROVE  RefInv'
<1> DEFINE U == {v, r} \cup ({w} \cup {v})
           q == <<AddRef(ptr[r])>>
<1>1. /\ v \in Slot /\ v \notin Object
      /\ w \in Slot /\ r \in Slot /\ w \notin Object
      /\ r # w => r = ptr[w] /\ r \in Object
      /\ ptr \in [Slot -> Pointer] /\ RefTypeOK /\ Nil \notin Object
  BY ReachFacts DEF RefInv, RefTypeOK, RefCountedAssumption, Slot
<1>2. /\ v # r /\ ptr[v] = Nil /\ ptr[r] # Nil /\ ptr' = [ptr EXCEPT ![v] = ptr[r]]
      /\ state' = state /\ count' = count /\ Begin(t, {v, r}, {w} \cup {v}, q)
  BY DEF ConstructCopy
<1>3. /\ ptr' \in [Slot -> Pointer] /\ ptr'[v] = ptr[r] /\ ptr'[r] = ptr[r]
      /\ \A x \in Slot \ {v} : ptr'[x] = ptr[x]
      /\ ptr[r] \in Object
  BY <1>1, <1>2 DEF Pointer
<1>4. q \in Seq(Micro)
  BY <1>1, <1>3, PlanTypes
<1>5. U \subseteq Slot /\ U # {} /\ v \in U /\ r \in U /\ Pinned(U)
      /\ \A x \in Slot \ U : ptr'[x] = ptr[x]
  BY <1>1, <1>3 DEF Pinned
<1>6. Opens(t, U, q)
  BY <1>2, <1>3, <1>4, <1>5, BeginOpens
<1>7. PlanKnown(t)'
  <2>1. todo'[t] = q /\ using'[t] = U
    BY <1>6, OpensOthers
  <2>2. q = <<AddRef(ptr[r])>>'
    BY <1>3 DEF AddRef, Do
  <2>3. /\ todo'[t] = <<AddRef(ptr[r])>>' /\ ptr'[r] \in Object
        /\ v \in using'[t] /\ r \in using'[t] /\ v # r /\ ptr'[v] = ptr'[r]
    BY <1>2, <1>3, <1>5, <2>1, <2>2
  <2>4. QED
    BY <2>3 DEF PlanKnown
<1> HIDE DEF U
<1>8. LiveKnown'
  <2>1. \A x \in Slot : \/ ptr'[x] = ptr[x]
                        \/ x \in U /\ (ptr'[x] = Nil \/ \E y \in Slot : ptr'[x] = ptr[y])
    BY <1>1, <1>3, <1>5
  <2>2. QED
    BY <1>2, <1>5, <2>1, LiveAfter
<1>9. /\ \A x \in Object : /\ ~StoresFirst(q, x) /\ ~Releases(q, x) /\ q # <<Destruction(x)>>
                           /\ q = <<AddRef(x)>> => x = ptr[r]
  BY <1>3, CountPlan
<1> HIDE DEF q
<1>10. PICK f \in U : ptr'[f] = ptr[r] /\ \A x : Disturbs(t, x)' <=> x = f
  <2>1. q = <<AddRef(ptr[r])>>
    BY DEF q
  <2>2. QED
    BY <1>3, <1>6, <1>7, <2>1, FreshAfter
<1>11. Balanced(q)
  <2>1. CASE f = v
    BY <1>1, <1>2, <1>3, <1>5, <1>6, <1>9, <1>10, <2>1, BalancedOne
  <2>2. CASE f # v
    <3>1. \A x \in U \ {v, f} : ptr'[x] = ptr[x] /\ ~Disturbs(t, x)'
      BY <1>3, <1>5, <1>10
    <3>2. \A o \in Object :
             /\ ~StoresFirst(q, o)
             /\ (IF ptr'[v] = o /\ ~Disturbs(t, v)' THEN 1 ELSE 0)
                   + (IF ptr'[f] = o /\ ~Disturbs(t, f)' THEN 1 ELSE 0)
                   + (IF Releases(q, o) THEN 1 ELSE 0)
                  = (IF ptr[v] = o THEN 1 ELSE 0) + (IF ptr[f] = o THEN 1 ELSE 0)
      <4>1. ptr[f] = ptr[r] /\ ~Disturbs(t, v)' /\ Disturbs(t, f)'
        BY <1>3, <1>5, <1>10, <2>2
      <4>2. QED
        BY <1>1, <1>2, <1>3, <1>9, <4>1
    <3>3. \A x : Disturbs(t, x)' => x \in U
      BY <1>10
    <3>4. QED
      BY <1>5, <1>6, <2>2, <3>1, <3>2, <3>3, BalancedTwo, SMTT(60)
  <2>3. QED
    BY <2>1, <2>2
<1>12. OpensWell(t, U, q)
  BY <1>5, <1>6, <1>7, <1>8, <1>9, <1>10, <1>11 DEF OpensWell
<1>13. QED
  BY <1>12, OpensKeepsInv

-----------------------------------------------------------------------------
(* The steps inside of an operation.                                         *)
LEMMA OthersAway ==
  ASSUME RefInv, NEW t \in Thread, NEW x \in using[t], NEW u \in Thread \ {t}
  PROVE  ~Disturbs(u, x)
<1>1. RefTypeOK /\ PlanKnown(u) /\ UsingKnown
  BY DEF RefInv, PlansKnown
<1>2. Disturbs(u, x) => x \in using[u]
  BY <1>1, PlanFacts
<1>3. QED
  BY <1>1, <1>2 DEF UsingKnown

\* What is known of an object stays known where its references stay in the same hands, or pass
\* on what was known there.
LEMMA KnownStays ==
  ASSUME RefTypeOK', NEW o \in Object, using' = using, handed' = handed,
         released[o] \subseteq released'[o], \A u \in Thread : view[u] \subseteq view'[u],
         \A s \in SlotHolders(o) : s \in SlotHolders(o)' \/ KnownAt(s) \subseteq Known(o)',
         \A u \in StoreHolders(o) \cup ReleaseHolders(o) :
            u \in StoreHolders(o)' \cup ReleaseHolders(o)' \/ view[u] \subseteq Known(o)'
  PROVE  Known(o) \subseteq Known(o)'
<1>1. ASSUME NEW n \in 1..MaxUses, n \in released[o] PROVE n \in Known(o)'
  BY <1>1 DEF Known
<1>2. ASSUME NEW n \in 1..MaxUses, NEW s \in SlotHolders(o), n \in KnownAt(s)
      PROVE  n \in Known(o)'
  <2>1. n \in KnownAt(s)'
    BY <1>2 DEF KnownAt
  <2>2. QED
    BY <1>2, <2>1 DEF Known
<1>3. ASSUME NEW n \in 1..MaxUses, NEW u \in StoreHolders(o) \cup ReleaseHolders(o), n \in view[u]
      PROVE  n \in Known(o)'
  <2>1. u \in Thread
    BY DEF StoreHolders, ReleaseHolders
  <2>2. n \in view'[u]
    BY <1>3, <2>1
  <2>3. QED
    BY <1>3, <2>2 DEF Known
<1>4. QED
  BY <1>1, <1>2, <1>3 DEF Known

\* What is left to show of a step: of an object, of a member that t uses, and of what
\* another thread has still to do with an object.
ObjectStays(t, o) ==
    /\ todo'[t] # <<AddRef(o)>>
    /\ state'[o] = state[o] \/ (state[o] = "live" /\ state'[o] = "deleted")
    /\ state'[o] = "live" => Known(o) \subseteq Known(o)'
    /\ todo'[t] = <<Destruction(o)>> =>
          /\ state'[o] = "live" /\ count'[o] = 0 /\ \A s \in Slot : ptr'[s] # o
          /\ \A u \in Thread \ {t} : todo[u] # <<Destruction(o)>>
          /\ released'[o] \subseteq view'[t]
MemberStays(t, x) ==
    /\ todo'[t] # <<>> => \/ Holds(t, x)'
                          \/ /\ Head(todo'[t]).do \in {"release", "delete"}
                             /\ state'[x] = "live" => todo'[t] = <<Destruction(x)>>
    /\ state'[x] = "live" => view'[t] \subseteq Known(x)'
OtherStays(u, o) ==
    /\ todo[u] = <<AddRef(o)>> /\ count[o] = 0 => count'[o] = 0
    /\ todo[u] = <<Destruction(o)>> =>
          /\ state'[o] = "live" /\ count'[o] = 0 /\ \A s \in Slot : ptr'[s] # o
          /\ released'[o] = released[o]
Goes(t) ==
    /\ todo[t] # <<>> /\ OthersKeep(t) /\ RefTypeOK'
    /\ using' = using /\ handed' = handed /\ uses' = uses
    /\ CountKnown' /\ LiveKnown' /\ PlanKnown(t)'
    /\ \A u \in Thread \ {t} : view'[u] = view[u]
    /\ \A s : Disturbs(t, s)' => s \in using[t]
    /\ \A o \in Object : ObjectStays(t, o)
    /\ \A x \in using[t] \cap Object : MemberStays(t, x)
    /\ \A u \in Thread \ {t}, o \in Object : OtherStays(u, o)

\* A step with these properties keeps the invariant.
LEMMA GoesKeepsInv ==
  ASSUME RefCountedAssumption, RefInv, NEW t \in Thread, Goes(t)
  PROVE  RefInv'
<1>1. /\ OthersKeep(t) /\ RefTypeOK' /\ using' = using /\ handed' = handed /\ uses' = uses
      /\ CountKnown' /\ LiveKnown' /\ PlanKnown(t)'
      /\ \A u \in Thread \ {t} : view'[u] = view[u] /\ todo'[u] = todo[u]
      /\ \A s : Disturbs(t, s)' => s \in using[t]
      /\ \A o \in Object : state'[o] = state[o] \/ (state[o] = "live" /\ state'[o] = "deleted")
  BY DEF Goes, ObjectStays, OthersKeep
<1>2. UsingKnown'
  BY <1>1 DEF RefInv, UsingKnown
<1>3. PlansKnown'
  <2>1. ASSUME NEW u \in Thread \ {t} PROVE PlanKnown(u)'
    <3>1. \A o \in Object : todo[u] = <<AddRef(o)>> /\ count[o] = 0
                              => count'[o] = 0 /\ todo'[t] # <<AddRef(o)>>
      BY DEF Goes, ObjectStays, MemberStays, OtherStays
    <3>2. QED
      BY <1>1, <3>1, OthersPlans
  <2>2. QED
    BY <1>1, <2>1 DEF PlansKnown
<1>4. HoldsKnown'
  <2>1. ASSUME NEW u \in Thread \ {t}, NEW x \in using[u] \cap Object, todo[u] # <<>>
        PROVE  \/ Holds(u, x)'
               \/ /\ Head(todo[u]).do \in {"release", "delete"}
                  /\ state'[x] = "live" => todo[u] = <<Destruction(x)>>
    <3>1. \A s \in using[u] : ~Disturbs(t, s)'
      BY <1>1 DEF RefInv, UsingKnown
    <3>2. state'[x] = "live" => state[x] = "live"
      BY <1>1
    <3>3. QED
      BY <1>1, <2>1, <3>1, <3>2, OthersHoldKnown
  <2>2. ASSUME NEW x \in using[t] \cap Object, todo'[t] # <<>>
        PROVE  \/ Holds(t, x)'
               \/ /\ Head(todo'[t]).do \in {"release", "delete"}
                  /\ state'[x] = "live" => todo'[t] = <<Destruction(x)>>
    BY <2>2 DEF Goes, ObjectStays, MemberStays, OtherStays
  <2>3. QED
    BY <1>1, <2>1, <2>2 DEF HoldsKnown, Destruction, Do
<1>5. DestructionKnown'
  <2>1. ASSUME NEW o \in Object, todo'[t] = <<Destruction(o)>>
        PROVE  /\ state'[o] = "live" /\ count'[o] = 0 /\ \A s \in Slot : ptr'[s] # o
               /\ \A u \in Thread \ {t} : todo'[u] # <<Destruction(o)>>
               /\ released'[o] \subseteq view'[t]
    BY <1>1, <2>1 DEF Goes, ObjectStays, MemberStays, OtherStays
  <2>2. ASSUME NEW u \in Thread \ {t}, NEW o \in Object, todo[u] = <<Destruction(o)>>
        PROVE  /\ state'[o] = "live" /\ count'[o] = 0 /\ \A s \in Slot : ptr'[s] # o
               /\ \A w \in Thread \ {u} : todo'[w] # <<Destruction(o)>>
               /\ released'[o] \subseteq view'[u]
    <3>1. /\ state'[o] = "live" /\ count'[o] = 0 /\ \A s \in Slot : ptr'[s] # o
          /\ released'[o] = released[o] /\ todo'[t] # <<Destruction(o)>>
      BY <2>2 DEF Goes, ObjectStays, MemberStays, OtherStays
    <3>2. /\ released[o] \subseteq view[u]
          /\ \A w \in Thread \ {u} : todo[w] # <<Destruction(o)>>
      BY <2>2 DEF RefInv, DestructionKnown
    <3>3. QED
      BY <1>1, <3>1, <3>2
  <2>3. QED
    BY <1>1, <2>1, <2>2 DEF DestructionKnown, Destruction, Do
<1>6. MemoryKnown'
  <2>1. ASSUME NEW o \in Object, state'[o] = "unborn"
        PROVE  uses'[o] = {} /\ handed'[o] = {} /\ \A u \in Thread : o \notin using'[u]
    BY <1>1, <2>1 DEF RefInv, MemoryKnown
  <2>2. ASSUME NEW o \in Object, state'[o] = "live"
        PROVE  /\ uses'[o] \subseteq Known(o)' /\ handed'[o] \subseteq Known(o)'
               /\ \A u \in Thread : o \in using'[u] => view'[u] \subseteq Known(o)'
    <3>1. /\ uses[o] \subseteq Known(o) /\ handed[o] \subseteq Known(o)
          /\ \A u \in Thread : o \in using[u] => view[u] \subseteq Known(o)
      BY <1>1, <2>2 DEF RefInv, MemoryKnown
    <3>2. Known(o) \subseteq Known(o)'
      BY <2>2 DEF Goes, ObjectStays, MemberStays, OtherStays
    <3>3. o \in using[t] => view'[t] \subseteq Known(o)'
      BY <2>2 DEF Goes, ObjectStays, MemberStays, OtherStays
    <3>4. QED
      BY <1>1, <3>1, <3>2, <3>3
  <2>3. QED
    BY <2>1, <2>2 DEF MemoryKnown
<1>7. QED
  BY <1>1, <1>2, <1>3, <1>4, <1>5, <1>6 DEF RefInv

\* The slots of t that hold a reference, and those of the others.
LEMMA SlotsAfter ==
  ASSUME RefInv, NEW t \in Thread, OthersKeep(t), NEW o
  PROVE  /\ \A x \in Slot : x \in SlotHolders(o)' <=>
                              /\ ptr'[x] = o /\ ~Disturbs(t, x)'
                              /\ \A u \in Thread \ {t} : ~Disturbs(u, x)
         /\ \A x \in Slot : x \in SlotHolders(o) <=>
                              /\ ptr[x] = o /\ ~Disturbs(t, x)
                              /\ \A u \in Thread \ {t} : ~Disturbs(u, x)
         /\ \A x \in using[t] : /\ x \in Slot
                                /\ x \in SlotHolders(o)' <=> ptr'[x] = o /\ ~Disturbs(t, x)'
                                /\ x \in SlotHolders(o) <=> ptr[x] = o /\ ~Disturbs(t, x)
         /\ SlotHolders(o) \subseteq Slot /\ SlotHolders(o)' \subseteq Slot
<1>1. RefTypeOK /\ PlansKnown
  BY DEF RefInv
<1>2. \A x \in using[t] : x \in Slot
  BY <1>1 DEF RefTypeOK
<1>3. /\ \A x \in Slot : x \in SlotHolders(o)' <=>
                           /\ ptr'[x] = o /\ ~Disturbs(t, x)'
                           /\ \A u \in Thread \ {t} : ~Disturbs(u, x)
      /\ \A x \in Slot : x \in SlotHolders(o) <=>
                           /\ ptr[x] = o /\ ~Disturbs(t, x)
                           /\ \A u \in Thread \ {t} : ~Disturbs(u, x)
  BY <1>1, HoldersAfter
<1>4. \A x \in using[t] : \A u \in Thread \ {t} : ~Disturbs(u, x)
  BY OthersAway
<1>5. SlotHolders(o) \subseteq Slot /\ SlotHolders(o)' \subseteq Slot
  BY DEF SlotHolders, Slot
<1>6. QED
  BY <1>2, <1>3, <1>4, <1>5

\* What holds an object means that it is counted, and alive.
LEMMA HoldsMeansLive ==
  ASSUME RefCountedAssumption, RefInv, NEW t \in Thread, NEW o \in Object, Holds(t, o)
  PROVE  count[o] # 0 /\ state[o] = "live"
<1>1. CountKnown /\ LiveKnown
  BY DEF RefInv
<1>2. SlotHolders(o) # {} \/ StoreHolders(o) # {} \/ ReleaseHolders(o) # {}
  BY DEF Holds, StoreHolders, ReleaseHolders
<1>3. count[o] # 0
  BY <1>1, <1>2, ZeroMeansNobody
<1>4. QED
  BY <1>1, <1>3 DEF LiveKnown

\* A constructor counts the pointer it has stored.
LEMMA StepAddRefFresh ==
  ASSUME RefCountedAssumption, RefInv, NEW t \in Thread, NEW o \in Object,
         todo[t] = <<AddRef(o)>>, StepAddRef(t)
  PROVE  RefInv'
<1>1. /\ RefTypeOK /\ PlansKnown /\ PlanKnown(t) /\ CountKnown /\ LiveKnown /\ DestructionKnown
      /\ Nil \notin Object /\ count \in [Object -> Nat] /\ DOMAIN todo = Thread
  BY DEF RefInv, RefTypeOK, PlansKnown, RefCountedAssumption
<1>2. /\ todo[t] # <<>> /\ Head(todo[t]).obj = o /\ Tail(todo[t]) = <<>> /\ OnlyCounts(todo[t])
      /\ \A s : ~Stores(todo[t], s)
      /\ \A x : ~Releases(todo[t], x) /\ ~StoresFirst(todo[t], x)
  BY CountPlan
<1>3. /\ count' = [count EXCEPT ![o] = @ + 1] /\ todo' = [todo EXCEPT ![t] = <<>>]
      /\ ptr' = ptr /\ state' = state /\ using' = using
      /\ view' = view /\ released' = released /\ handed' = handed /\ uses' = uses
  BY <1>2 DEF StepAddRef, visibility
<1>4. /\ todo'[t] = <<>> /\ \A u \in Thread \ {t} : todo'[u] = todo[u]
      /\ count'[o] = count[o] + 1 /\ \A x \in Object \ {o} : count'[x] = count[x]
      /\ count' \in [Object -> Nat] /\ DOMAIN todo' = Thread
  BY <1>1, <1>3
<1>5. OthersKeep(t)
  BY <1>3, <1>4 DEF OthersKeep
<1>6. RefTypeOK'
  <2>1. \A u \in Thread : todo'[u] \in Seq(Micro)
    <3>1. <<>> \in Seq(Micro) /\ \A u \in Thread : todo[u] \in Seq(Micro)
      BY <1>1 DEF RefTypeOK
    <3>2. QED
      BY <1>4, <3>1
  <2>2. QED
    BY <1>1, <1>3, <1>4, <2>1 DEF RefTypeOK, Slot, Pointer, Micro
<1> DEFINE f == FreshSlot(t)
<1>7. f \in using[t] /\ f \in Slot /\ ptr[f] = o
  BY <1>1, <1>2, PlanFacts DEF RefTypeOK
<1>8. /\ \A x : Disturbs(t, x) <=> x = f
      /\ \A x : ~Disturbs(t, x)'
  BY <1>2, <1>4, EmptyPlan DEF Disturbs, Stores, OnlyCounts, AddRef, Do
<1> HIDE DEF f
<1>9. ASSUME NEW x \in Object
      PROVE  /\ \A y : y # f => (y \in SlotHolders(x) <=> y \in SlotHolders(x)')
             /\ f \notin SlotHolders(x) /\ (f \in SlotHolders(x)' <=> x = o)
  <2>1. \A y \in Slot : y # f => (y \in SlotHolders(x) <=> y \in SlotHolders(x)')
    BY <1>3, <1>5, <1>8, SlotsAfter
  <2>2. f \notin SlotHolders(x) /\ (f \in SlotHolders(x)' <=> x = o)
    BY <1>3, <1>5, <1>7, <1>8, SlotsAfter
  <2>3. SlotHolders(x) \subseteq Slot /\ SlotHolders(x)' \subseteq Slot
    BY <1>5, SlotsAfter
  <2>4. QED
    BY <2>1, <2>2, <2>3
<1>10. CountKnown'
  <2>1. ASSUME NEW x \in Object
        PROVE  count'[x] = Cardinality(SlotHolders(x)') + Cardinality(StoreHolders(x)')
                              + Cardinality(ReleaseHolders(x)')
    <3>1. /\ Cardinality(SlotHolders(x)) \in Nat /\ Cardinality(SlotHolders(x)') \in Nat
          /\ Cardinality(SlotHolders(x)') = Cardinality(SlotHolders(x)) + (IF x = o THEN 1 ELSE 0)
      <4>1. IsFiniteSet(SlotHolders(x))
        BY HoldersFinite
      <4>2. QED
        BY <1>9, <4>1, ChangeOne
    <3>2. /\ Cardinality(StoreHolders(x)') = Cardinality(StoreHolders(x))
          /\ Cardinality(ReleaseHolders(x)') = Cardinality(ReleaseHolders(x))
          /\ Cardinality(StoreHolders(x)) \in Nat /\ Cardinality(ReleaseHolders(x)) \in Nat
      <4>1. /\ ~StoresFirst(todo[t], x) /\ ~Releases(todo[t], x)
            /\ ~StoresFirst(todo'[t], x) /\ ~Releases(todo'[t], x)
        BY <1>2, <1>4, EmptyPlan
      <4>2. QED
        BY <1>1, <1>5, <4>1, ThreadHoldersAfter, HoldersFinite, HoldersFiniteAfter
    <3>3. count[x] = Cardinality(SlotHolders(x)) + Cardinality(StoreHolders(x))
                        + Cardinality(ReleaseHolders(x))
      BY <1>1 DEF CountKnown
    <3>4. QED
      BY <1>1, <1>4, <3>1, <3>2, <3>3
  <2>2. QED
    BY <2>1 DEF CountKnown
<1>11. state[o] = "live" /\ LiveKnown'
  <2>1. state[o] = "live"
    BY CountersSeeObject
  <2>2. QED
    BY <1>1, <1>3, <1>4, <2>1 DEF LiveKnown, Slot
<1>12. PlanKnown(t)'
  BY <1>4 DEF PlanKnown
<1>13. ASSUME NEW x \in Object PROVE Known(x) \subseteq Known(x)'
  <2>1. SlotHolders(x) \subseteq SlotHolders(x)'
    BY <1>9
  <2>2. StoreHolders(x) \subseteq StoreHolders(x)' /\ ReleaseHolders(x) \subseteq ReleaseHolders(x)'
    <3>1. t \notin StoreHolders(x) /\ t \notin ReleaseHolders(x)
      BY <1>2 DEF StoreHolders, ReleaseHolders
    <3>2. QED
      BY <1>1, <1>5, <3>1, HoldersAfter, HoldersFinite
  <2>3. QED
    BY <1>3, <1>6, <2>1, <2>2, KnownStays
<1>14. ASSUME NEW u \in Thread \ {t}, NEW x \in Object PROVE OtherStays(u, x)
  <2>1. CASE x # o
    BY <1>1, <1>3, <1>4, <2>1 DEF DestructionKnown, OtherStays
  <2>2. CASE x = o
    <3>1. todo[u] # <<Destruction(o)>>
      BY <1>1, <1>7 DEF DestructionKnown
    <3>2. ASSUME todo[u] = <<AddRef(o)>>, count[o] = 0 PROVE FALSE
      <4>1. NextIs(t, "addref")
        BY CountPlan DEF NextIs
      <4>2. \A y \in Object : todo[t] = <<AddRef(y)>> => y = o
        BY <1>2, CountPlan
      <4>3. \A s, p : p # Nil => todo[t] # AssignSteps(s, p)
        BY <1>2, AssignPlan
      <4>4. \E y, z \in using[t] : y # z /\ ptr[y] = o /\ ptr[z] = o
        BY <1>1, <3>2, <4>1, <4>2, <4>3, PlanCases
      <4>5. PICK y \in using[t] : y # f /\ ptr[y] = o
        BY <4>4
      <4>6. y \in SlotHolders(o)
        BY <1>5, <1>8, <4>5, SlotsAfter
      <4>7. QED
        BY <1>1, <3>2, <4>6, ZeroMeansNobody
    <3>3. QED
      BY <2>2, <3>1, <3>2 DEF OtherStays
  <2>3. QED
    BY <2>1, <2>2
<1>15. ASSUME NEW x \in using[t] \cap Object PROVE MemberStays(t, x)
  BY <1>3, <1>4, <1>13 DEF RefInv, MemoryKnown, MemberStays
<1>16. ASSUME NEW x \in Object PROVE ObjectStays(t, x)
  <2>1. todo'[t] # <<AddRef(x)>> /\ todo'[t] # <<Destruction(x)>>
    BY <1>4, CountPlan, DestructionPlan
  <2>2. QED
    BY <1>3, <1>13, <2>1 DEF ObjectStays
<1>17. Goes(t)
  BY <1>2, <1>3, <1>5, <1>6, <1>7, <1>8, <1>10, <1>11, <1>12, <1>14, <1>15, <1>16 DEF Goes
<1>18. QED
  BY <1>17, GoesKeepsInv

\* A step that moves no pointer, and disturbs what was disturbed, leaves the references in slots.
LEMMA SlotsSame ==
  ASSUME RefInv, NEW t \in Thread, OthersKeep(t), ptr' = ptr,
         \A x : Disturbs(t, x)' <=> Disturbs(t, x), NEW o
  PROVE  SlotHolders(o)' = SlotHolders(o)
<1>1. \A x \in Slot : x \in SlotHolders(o) <=> x \in SlotHolders(o)'
  BY SlotsAfter
<1>2. SlotHolders(o) \subseteq Slot /\ SlotHolders(o)' \subseteq Slot
  BY SlotsAfter
<1>3. QED
  BY <1>1, <1>2

\* The types of a step that leaves memory alone, given the plan it leaves.
LEMMA PlansTyped ==
  ASSUME RefTypeOK, NEW t \in Thread, NEW q \in Seq(Micro), todo' = [todo EXCEPT ![t] = q]
  PROVE  /\ DOMAIN todo' = Thread /\ \A u \in Thread : todo'[u] \in Seq(Micro)
         /\ todo'[t] = q /\ \A u \in Thread \ {t} : todo'[u] = todo[u]
BY DEF RefTypeOK

\* An assignment counts the pointer it is going to store.
LEMMA StepAddRefAssign ==
  ASSUME RefCountedAssumption, RefInv, NEW t \in Thread, NEW s \in using[t], NEW p \in Object,
         NEW r \in using[t], ptr[r] = p, todo[t] = AssignSteps(s, p), StepAddRef(t)
  PROVE  RefInv'
<1>1. /\ RefTypeOK /\ PlansKnown /\ PlanKnown(t) /\ CountKnown /\ LiveKnown /\ DestructionKnown
      /\ Nil \notin Object /\ p # Nil /\ count \in [Object -> Nat] /\ using[t] \subseteq Slot
  BY DEF RefInv, RefTypeOK, PlansKnown, RefCountedAssumption
<1> DEFINE q == StoreSteps(s, p)
<1>2. /\ todo[t] # <<>> /\ Head(todo[t]).obj = p /\ Tail(todo[t]) = q /\ ~OnlyCounts(todo[t])
      /\ \A x : Stores(todo[t], x) <=> x = s
      /\ \A x : Releases(todo[t], x) <=> x = ptr[s] /\ ptr[s] # Nil
      /\ \A x : ~StoresFirst(todo[t], x)
  BY <1>1, AssignPlan
<1>3. /\ count' = [count EXCEPT ![p] = @ + 1] /\ todo' = [todo EXCEPT ![t] = q]
      /\ ptr' = ptr /\ state' = state /\ using' = using
      /\ view' = view /\ released' = released /\ handed' = handed /\ uses' = uses
  BY <1>2 DEF StepAddRef, visibility
<1>4. q \in Seq(Micro)
  BY <1>1, PlanTypes DEF Pointer
<1>5. /\ q # <<>> /\ ~OnlyCounts(q) /\ Head(q).do = "store"
      /\ \A x : Stores(q, x) <=> x = s
      /\ \A x : Releases(q, x) <=> x = ptr[s] /\ ptr[s] # Nil
      /\ \A x : StoresFirst(q, x) <=> x = p
      /\ \A x : q # <<Destruction(x)>> /\ q # <<AddRef(x)>>
  <2>1. \A x : q = <<AddRef(x)>> => OnlyCounts(q)
    BY CountPlan
  <2>2. QED
    BY <2>1, StorePlan
<1> HIDE DEF q
<1>6. /\ DOMAIN todo' = Thread /\ \A u \in Thread : todo'[u] \in Seq(Micro)
      /\ todo'[t] = q /\ \A u \in Thread \ {t} : todo'[u] = todo[u]
  BY <1>1, <1>3, <1>4, PlansTyped
<1>7. /\ count'[p] = count[p] + 1 /\ \A x \in Object \ {p} : count'[x] = count[x]
      /\ count' \in [Object -> Nat]
  BY <1>1, <1>3
<1>8. OthersKeep(t)
  BY <1>3, <1>6 DEF OthersKeep
<1>9. RefTypeOK'
  BY <1>1, <1>3, <1>6, <1>7 DEF RefTypeOK, Slot, Pointer, Micro
<1>10. \A x : (Disturbs(t, x) <=> x = s) /\ (Disturbs(t, x)' <=> x = s)
  BY <1>2, <1>5, <1>6 DEF Disturbs, Stores, OnlyCounts, AddRef, Do
<1>11. \A x : SlotHolders(x)' = SlotHolders(x)
  BY <1>3, <1>8, <1>10, SlotsSame
<1>12. \A x : Releases(todo[t], x) <=> Releases(todo[t], x)'
  <2>1. \A x : Releases(todo[t], x) <=> Releases(todo'[t], x)
    BY <1>2, <1>5, <1>6
  <2>2. QED
    BY <2>1 DEF Releases
<1>13. CountKnown'
  <2>1. ASSUME NEW x \in Object
        PROVE  count'[x] = Cardinality(SlotHolders(x)') + Cardinality(StoreHolders(x)')
                              + Cardinality(ReleaseHolders(x)')
    <3>1. /\ Cardinality(StoreHolders(x)') = Cardinality(StoreHolders(x)) + (IF x = p THEN 1 ELSE 0)
          /\ Cardinality(ReleaseHolders(x)') = Cardinality(ReleaseHolders(x))
      <4>1. /\ ~StoresFirst(todo[t], x) /\ (StoresFirst(todo'[t], x) <=> x = p)
            /\ Releases(todo[t], x) <=> Releases(todo'[t], x)
        BY <1>2, <1>5, <1>6
      <4>2. QED
        BY <1>1, <1>8, <4>1, ThreadHoldersAfter, HoldersFinite, HoldersFiniteAfter
    <3>2. /\ Cardinality(SlotHolders(x)) \in Nat /\ Cardinality(StoreHolders(x)) \in Nat
          /\ Cardinality(ReleaseHolders(x)) \in Nat
      BY HoldersFinite
    <3>3. count[x] = Cardinality(SlotHolders(x)) + Cardinality(StoreHolders(x))
                        + Cardinality(ReleaseHolders(x))
      BY <1>1 DEF CountKnown
    <3>4. QED
      BY <1>1, <1>7, <1>11, <3>1, <3>2, <3>3
  <2>2. QED
    BY <2>1 DEF CountKnown
<1>14. LiveKnown'
  <2>1. state[p] = "live"
    BY <1>1 DEF LiveKnown
  <2>2. QED
    BY <1>1, <1>3, <1>7, <2>1 DEF LiveKnown, Slot
<1>15. PlanKnown(t)'
  <2>1. todo'[t] = StoreSteps(s, p)'
    BY <1>3, <1>6 DEF q, StoreSteps, ReleaseIf, Release, Do
  <2>2. QED
    BY <1>3, <2>1 DEF PlanKnown, Pointer
<1>16. ASSUME NEW x \in Object PROVE Known(x) \subseteq Known(x)'
  <2>1. StoreHolders(x) \subseteq StoreHolders(x)' /\ ReleaseHolders(x) \subseteq ReleaseHolders(x)'
    <3>1. t \notin StoreHolders(x) /\ (t \in ReleaseHolders(x) => t \in ReleaseHolders(x)')
      BY <1>2, <1>12 DEF StoreHolders, ReleaseHolders
    <3>2. QED
      BY <1>1, <1>8, <3>1, HoldersAfter, HoldersFinite
  <2>2. QED
    BY <1>3, <1>9, <1>11, <2>1, KnownStays
<1>17. ASSUME NEW u \in Thread \ {t}, NEW x \in Object PROVE OtherStays(u, x)
  <2>1. CASE x # p
    BY <1>1, <1>3, <1>7, <2>1 DEF DestructionKnown, OtherStays
  <2>2. CASE x = p
    <3>1. todo[u] # <<Destruction(p)>>
      BY <1>1 DEF DestructionKnown
    <3>2. count[p] # 0
      <4>1. CASE r = s
        <5>1. t \in ReleaseHolders(p)
          BY <1>1, <1>2, <4>1 DEF ReleaseHolders
        <5>2. QED
          BY <1>1, <5>1, ZeroMeansNobody
      <4>2. CASE r # s
        <5>1. r \in SlotHolders(p)
          BY <1>8, <1>10, <4>2, SlotsAfter
        <5>2. QED
          BY <1>1, <5>1, ZeroMeansNobody
      <4>3. QED
        BY <4>1, <4>2
    <3>3. QED
      BY <2>2, <3>1, <3>2 DEF OtherStays
  <2>3. QED
    BY <2>1, <2>2
<1>18. ASSUME NEW x \in using[t] \cap Object PROVE MemberStays(t, x)
  <2>1. Holds(t, x)
    BY <1>1, <1>2, AssignPlan DEF RefInv, HoldsKnown
  <2>2. Holds(t, x)'
    <3>1. StoresFirst(todo[t], x) => FALSE
      BY <1>2
    <3>2. Releases(todo[t], x) => Releases(todo[t], x)'
      BY <1>12
    <3>3. QED
      BY <1>3, <1>11, <2>1, <3>1, <3>2 DEF Holds
  <2>3. QED
    BY <1>9, <2>2, HoldsMeansKnownAfter DEF MemberStays
<1>19. ASSUME NEW x \in Object PROVE ObjectStays(t, x)
  BY <1>3, <1>5, <1>6, <1>16 DEF ObjectStays
<1>20. Goes(t)
  BY <1>2, <1>3, <1>8, <1>9, <1>10, <1>13, <1>14, <1>15, <1>17, <1>18, <1>19 DEF Goes
<1>21. QED
  BY <1>20, GoesKeepsInv

\* The store of an assignment.
LEMMA StepStoreKeepsInv ==
  ASSUME RefCountedAssumption, RefInv, NEW t \in Thread, NEW s \in using[t], NEW p \in Pointer,
         todo[t] = StoreSteps(s, p), StepStore(t)
  PROVE  RefInv'
<1>1. /\ RefTypeOK /\ PlansKnown /\ PlanKnown(t) /\ CountKnown /\ LiveKnown /\ DestructionKnown
      /\ Nil \notin Object /\ using[t] \subseteq Slot /\ ptr \in [Slot -> Pointer]
      /\ s \in Slot /\ ptr[s] \in Pointer
  BY DEF RefInv, RefTypeOK, PlansKnown, RefCountedAssumption
<1> DEFINE q == ReleaseIf(ptr[s])
<1>2. /\ todo[t] # <<>> /\ Head(todo[t]).obj = p /\ Head(todo[t]).slot = s
      /\ Head(todo[t]).do = "store" /\ Tail(todo[t]) = q /\ ~OnlyCounts(todo[t])
      /\ \A x : Stores(todo[t], x) <=> x = s
      /\ \A x : Releases(todo[t], x) <=> x = ptr[s] /\ ptr[s] # Nil
      /\ \A x : StoresFirst(todo[t], x) <=> x = p
  BY StorePlan
<1>3. /\ ptr' = [ptr EXCEPT ![s] = p] /\ todo' = [todo EXCEPT ![t] = q]
      /\ count' = count /\ state' = state /\ using' = using
      /\ view' = view /\ released' = released /\ handed' = handed /\ uses' = uses
  BY <1>2 DEF StepStore, visibility
<1>4. q \in Seq(Micro)
  BY <1>1, PlanTypes
<1>5. /\ ~OnlyCounts(q) /\ \A x : ~Stores(q, x)
      /\ \A x \in Object : /\ Releases(q, x) <=> x = ptr[s]
                           /\ ~StoresFirst(q, x) /\ q # <<Destruction(x)>> /\ q # <<AddRef(x)>>
  BY <1>1, QuietPlans
<1>6. q = <<>> \/ (ptr[s] \in Object /\ q = <<Release(ptr[s])>>)
  BY <1>1, QuietPlans
<1> HIDE DEF q
<1>7. /\ DOMAIN todo' = Thread /\ \A u \in Thread : todo'[u] \in Seq(Micro)
      /\ todo'[t] = q /\ \A u \in Thread \ {t} : todo'[u] = todo[u]
  BY <1>1, <1>3, <1>4, PlansTyped
<1>8. /\ ptr' \in [Slot -> Pointer] /\ ptr'[s] = p /\ \A x \in Slot \ {s} : ptr'[x] = ptr[x]
  BY <1>1, <1>3
<1>9. OthersKeep(t)
  <2>1. \A u \in Thread \ {t} : using[u] \subseteq Slot /\ s \notin using[u]
    BY <1>1 DEF RefInv, RefTypeOK, UsingKnown
  <2>2. QED
    BY <1>3, <1>7, <1>8, <2>1 DEF OthersKeep
<1>10. RefTypeOK'
  BY <1>1, <1>3, <1>7, <1>8 DEF RefTypeOK, Slot, Pointer, Micro
<1>11. \A x : (Disturbs(t, x) <=> x = s) /\ ~Disturbs(t, x)'
  <2>1. \A x : Disturbs(t, x) <=> x = s
    BY <1>2 DEF Disturbs
  <2>2. \A x : ~Disturbs(t, x)'
    BY <1>5, <1>7 DEF Disturbs, Stores, OnlyCounts, AddRef, Do
  <2>3. QED
    BY <2>1, <2>2
<1>12. \A x \in Object : Releases(todo[t], x) <=> Releases(todo[t], x)'
  <2>1. \A x \in Object : Releases(todo[t], x) <=> Releases(todo'[t], x)
    BY <1>1, <1>2, <1>5, <1>7
  <2>2. QED
    BY <2>1 DEF Releases
<1>13. ASSUME NEW x \in Object
       PROVE  /\ \A y : y # s => (y \in SlotHolders(x) <=> y \in SlotHolders(x)')
              /\ s \notin SlotHolders(x) /\ (s \in SlotHolders(x)' <=> x = p)
  <2>1. \A y \in Slot : y # s => (y \in SlotHolders(x) <=> y \in SlotHolders(x)')
    BY <1>8, <1>9, <1>11, SlotsAfter
  <2>2. s \notin SlotHolders(x) /\ (s \in SlotHolders(x)' <=> x = p)
    BY <1>8, <1>9, <1>11, SlotsAfter
  <2>3. SlotHolders(x) \subseteq Slot /\ SlotHolders(x)' \subseteq Slot
    BY <1>9, SlotsAfter
  <2>4. QED
    BY <2>1, <2>2, <2>3
<1>14. CountKnown'
  <2>1. ASSUME NEW x \in Object
        PROVE  count'[x] = Cardinality(SlotHolders(x)') + Cardinality(StoreHolders(x)')
                              + Cardinality(ReleaseHolders(x)')
    <3>1. /\ Cardinality(SlotHolders(x)) \in Nat /\ Cardinality(SlotHolders(x)') \in Nat
          /\ Cardinality(SlotHolders(x)') = Cardinality(SlotHolders(x)) + (IF x = p THEN 1 ELSE 0)
      <4>1. IsFiniteSet(SlotHolders(x))
        BY HoldersFinite
      <4>2. QED
        BY <1>13, <4>1, ChangeOne
    <3>2. /\ Cardinality(StoreHolders(x)') + (IF x = p THEN 1 ELSE 0) = Cardinality(StoreHolders(x))
          /\ Cardinality(ReleaseHolders(x)') = Cardinality(ReleaseHolders(x))
          /\ Cardinality(StoreHolders(x)') \in Nat /\ Cardinality(ReleaseHolders(x)') \in Nat
          /\ Cardinality(StoreHolders(x)) \in Nat /\ Cardinality(ReleaseHolders(x)) \in Nat
      <4>1. /\ (StoresFirst(todo[t], x) <=> x = p) /\ ~StoresFirst(todo'[t], x)
            /\ Releases(todo[t], x) <=> Releases(todo'[t], x)
        BY <1>1, <1>2, <1>5, <1>7
      <4>2. QED
        BY <1>1, <1>9, <4>1, ThreadHoldersAfter, HoldersFinite, HoldersFiniteAfter
    <3>3. count[x] = Cardinality(SlotHolders(x)) + Cardinality(StoreHolders(x))
                        + Cardinality(ReleaseHolders(x))
      BY <1>1 DEF CountKnown
    <3>4. QED
      BY <1>3, <3>1, <3>2, <3>3
  <2>2. QED
    BY <2>1 DEF CountKnown
<1>15. p # Nil => p \in Object /\ count[p] # 0 /\ state[p] = "live"
  <2>1. p # Nil => p \in Object /\ Holds(t, p)
    BY <1>2 DEF Holds, Pointer
  <2>2. QED
    BY <2>1, HoldsMeansLive
<1>16. \A x \in using[t] \cap Object : Holds(t, x)
  BY <1>2 DEF RefInv, HoldsKnown
<1>17. LiveKnown'
  <2>1. s \in Object => state[s] = "live"
    BY <1>16, HoldsMeansLive
  <2>2. ASSUME NEW x \in Slot, ptr'[x] # Nil PROVE state'[ptr'[x]] = "live"
    BY <1>1, <1>3, <1>8, <1>15, <2>2 DEF LiveKnown
  <2>3. ASSUME NEW x \in Object, state'[x] # "live" PROVE ptr'[x] = Nil /\ count'[x] = 0
    BY <1>1, <1>3, <1>8, <2>1, <2>3 DEF LiveKnown, Slot
  <2>4. QED
    BY <2>2, <2>3 DEF LiveKnown
<1>18. PlanKnown(t)'
  BY <1>3, <1>6, <1>7 DEF PlanKnown, Release, Do
<1>19. ASSUME NEW x \in Object PROVE Known(x) \subseteq Known(x)'
  <2>1. SlotHolders(x) \subseteq SlotHolders(x)'
    BY <1>13
  <2>2. ASSUME NEW u \in StoreHolders(x) \cup ReleaseHolders(x)
        PROVE  u \in StoreHolders(x)' \cup ReleaseHolders(x)' \/ view[u] \subseteq Known(x)'
    <3>1. u \in Thread
      BY HoldersFinite DEF StoreHolders, ReleaseHolders
    <3>2. CASE u # t
      BY <1>1, <1>9, <2>2, <3>1, <3>2, HoldersAfter
    <3>3. CASE u = t /\ Releases(todo[t], x)
      BY <1>12, <3>3 DEF ReleaseHolders
    <3>4. CASE u = t /\ StoresFirst(todo[t], x)
      <4>1. s \in SlotHolders(x)' /\ s \in using'[t]
        BY <1>2, <1>3, <1>13, <3>4
      <4>2. Holds(t, x)'
        BY <4>1 DEF Holds
      <4>3. QED
        BY <1>3, <1>10, <3>4, <4>2, HoldsMeansKnownAfter
    <3>5. QED
      BY <2>2, <3>2, <3>3, <3>4 DEF StoreHolders, ReleaseHolders
  <2>3. QED
    BY <1>3, <1>10, <2>1, <2>2, KnownStays
<1>20. ASSUME NEW u \in Thread \ {t}, NEW x \in Object PROVE OtherStays(u, x)
  <2>1. ASSUME todo[u] = <<Destruction(x)>> PROVE \A y \in Slot : ptr'[y] # x
    <3>1. count[x] = 0 /\ \A y \in Slot : ptr[y] # x
      BY <1>1, <2>1 DEF DestructionKnown
    <3>2. p # x
      BY <1>1, <1>15, <3>1
    <3>3. QED
      BY <1>8, <3>1, <3>2
  <2>2. QED
    BY <1>1, <1>3, <2>1 DEF DestructionKnown, OtherStays
<1>21. ASSUME NEW x \in using[t] \cap Object PROVE MemberStays(t, x)
  <2>1. Holds(t, x)'
    <3>1. CASE StoresFirst(todo[t], x)
      BY <1>2, <1>3, <1>13, <3>1 DEF Holds
    <3>2. CASE Releases(todo[t], x)
      BY <1>12, <3>2 DEF Holds
    <3>3. ASSUME NEW y \in using[t], y \in SlotHolders(x) PROVE Holds(t, x)'
      BY <1>3, <1>13, <3>3 DEF Holds
    <3>4. QED
      BY <1>16, <3>1, <3>2, <3>3 DEF Holds
  <2>2. QED
    BY <1>10, <2>1, HoldsMeansKnownAfter DEF MemberStays
<1>22. ASSUME NEW x \in Object PROVE ObjectStays(t, x)
  BY <1>3, <1>5, <1>7, <1>19 DEF ObjectStays
<1>23. Goes(t)
  BY <1>2, <1>3, <1>9, <1>10, <1>11, <1>14, <1>17, <1>18, <1>20, <1>21, <1>22 DEF Goes
<1>24. QED
  BY <1>23, GoesKeepsInv

\* Who overwrites a pointer releases it.
LEMMA StoresReleases ==
  ASSUME RefCountedAssumption, RefInv, NEW u \in Thread, NEW x, NEW o \in Object, ptr[x] = o,
         Stores(todo[u], x)
  PROVE  Releases(todo[u], o)
<1>1. PlanKnown(u) /\ RefTypeOK /\ o # Nil
  BY DEF RefInv, PlansKnown, RefCountedAssumption
<1>2. todo[u] # <<>>
  BY EmptyPlan
<1>3. CASE NextIs(u, "addref")
  <2>1. \A y : todo[u] # <<AddRef(y)>>
    BY CountPlan
  <2>2. PICK s \in using[u], p \in Object : p # Nil /\ todo[u] = AssignSteps(s, p)
    BY <1>1, <1>3, <2>1, PlanCases
  <2>3. QED
    BY <1>1, <2>2, AssignPlan
<1>4. CASE NextIs(u, "store")
  <2>1. PICK s \in using[u], p \in Pointer : todo[u] = StoreSteps(s, p)
    BY <1>1, <1>4, PlanCases
  <2>2. QED
    BY <1>1, <2>1, StorePlan
<1>5. CASE NextIs(u, "release")
  <2>1. PICK y \in Object : todo[u] = <<Release(y)>>
    BY <1>1, <1>5, PlanCases
  <2>2. QED
    BY <2>1, ReleasePlan
<1>6. CASE NextIs(u, "delete")
  <2>1. PICK y \in Object : todo[u] = <<Destruction(y)>>
    BY <1>1, <1>6, PlanCases
  <2>2. QED
    BY <2>1, DestructionPlan
<1>7. QED
  BY <1>1, <1>2, <1>3, <1>4, <1>5, <1>6, NextKinds DEF NextIs

\* A pointer is a reference, or is about to be overwritten, or its reference is not counted
\* yet but another one is.
LEMMA PointersAreHeld ==
  ASSUME RefCountedAssumption, RefInv, NEW o \in Object, count[o] # 0, NEW x \in Slot, ptr[x] = o
  PROVE  \/ x \in SlotHolders(o)
         \/ \E u \in Thread : Releases(todo[u], o) /\ Stores(todo[u], x)
         \/ \E u \in Thread : \E y \in using[u] : y \in SlotHolders(o)
<1>1. /\ RefTypeOK /\ PlansKnown /\ using \in [Thread -> SUBSET Slot]
  BY DEF RefInv, RefTypeOK
<1>2. SUFFICES ASSUME NEW u \in Thread, Disturbs(u, x)
      PROVE  \/ Releases(todo[u], o) /\ Stores(todo[u], x)
             \/ \E y \in using[u] : y \in SlotHolders(o)
  BY DEF SlotHolders
<1>3. CASE Stores(todo[u], x)
  BY <1>3, StoresReleases
<1>4. CASE OnlyCounts(todo[u]) /\ x = FreshSlot(u)
  <2>1. PlanKnown(u)
    BY <1>1 DEF PlansKnown
  <2>2. Head(todo[u]).obj = o
    BY <1>1, <1>4, <2>1, PlanFacts
  <2>3. todo[u] = <<AddRef(o)>>
    BY <1>4, <2>2 DEF OnlyCounts
  <2>4. \E y, z \in using[u] : y # z /\ ptr[y] = o /\ ptr[z] = o
    <3>1. NextIs(u, "addref")
      BY <2>3, CountPlan DEF NextIs
    <3>2. \A y \in Object : todo[u] = <<AddRef(y)>> => y = o
      BY <2>2, CountPlan
    <3>3. \A s, p : p # Nil => todo[u] # AssignSteps(s, p)
      BY <1>4, AssignPlan
    <3>4. QED
      BY <2>1, <3>1, <3>2, <3>3, PlanCases
  <2>5. PICK y \in using[u] : y # x /\ ptr[y] = o
    BY <2>4
  <2>6. \A w \in Thread : ~Disturbs(w, y)
    <3>1. ~Disturbs(u, y)
      BY <1>4, <2>3, <2>5, CountPlan DEF Disturbs
    <3>2. QED
      BY <3>1, OthersAway
  <2>7. y \in SlotHolders(o)
    BY <1>1, <2>5, <2>6 DEF SlotHolders
  <2>8. QED
    BY <2>7
<1>5. QED
  BY <1>2, <1>3, <1>4 DEF Disturbs

\* The last reference: it is the only holder.
LEMMA LastReference ==
  ASSUME RefCountedAssumption, RefInv, NEW o \in Object, count[o] = 1
  PROVE  /\ \A t \in ReleaseHolders(o) : SlotHolders(o) = {} /\ ReleaseHolders(o) = {t}
         /\ \A s \in SlotHolders(o) : /\ SlotHolders(o) = {s} /\ StoreHolders(o) = {}
                                      /\ ReleaseHolders(o) = {}
<1>1. /\ IsFiniteSet(SlotHolders(o)) /\ IsFiniteSet(StoreHolders(o)) /\ IsFiniteSet(ReleaseHolders(o))
      /\ Cardinality(SlotHolders(o)) \in Nat /\ Cardinality(StoreHolders(o)) \in Nat
      /\ Cardinality(ReleaseHolders(o)) \in Nat
  BY HoldersFinite
<1>2. 1 = Cardinality(SlotHolders(o)) + Cardinality(StoreHolders(o)) + Cardinality(ReleaseHolders(o))
  BY DEF RefInv, CountKnown
<1>3. ASSUME NEW t \in ReleaseHolders(o) PROVE SlotHolders(o) = {} /\ ReleaseHolders(o) = {t}
  <2>1. Cardinality(ReleaseHolders(o)) # 0
    BY <1>1, FS_EmptySet
  <2>2. Cardinality(SlotHolders(o)) = 0 /\ Cardinality(ReleaseHolders(o)) = 1
    BY <1>1, <1>2, <2>1
  <2>3. PICK w : ReleaseHolders(o) = {w}
    BY <1>1, <2>2, FS_Singleton
  <2>4. QED
    BY <1>1, <2>2, <2>3, FS_EmptySet
<1>4. ASSUME NEW s \in SlotHolders(o)
      PROVE  SlotHolders(o) = {s} /\ StoreHolders(o) = {} /\ ReleaseHolders(o) = {}
  <2>1. Cardinality(SlotHolders(o)) # 0
    BY <1>1, FS_EmptySet
  <2>2. /\ Cardinality(SlotHolders(o)) = 1 /\ Cardinality(StoreHolders(o)) = 0
        /\ Cardinality(ReleaseHolders(o)) = 0
    BY <1>1, <1>2, <2>1
  <2>3. PICK w : SlotHolders(o) = {w}
    BY <1>1, <2>2, FS_Singleton
  <2>4. QED
    BY <1>1, <2>2, <2>3, FS_EmptySet
<1>5. QED
  BY <1>3, <1>4

\* The last reference is released: no pointer is left.
LEMMA NoPointerLeft ==
  ASSUME RefCountedAssumption, RefInv, NEW t \in Thread, NEW o \in Object,
         todo[t] = <<Release(o)>>, count[o] = 1
  PROVE  \A x \in Slot : ptr[x] # o
<1>1. t \in ReleaseHolders(o)
  BY ReleasePlan DEF ReleaseHolders
<1>2. SlotHolders(o) = {} /\ ReleaseHolders(o) = {t}
  BY <1>1, LastReference
<1>3. \A u \in Thread : Releases(todo[u], o) => u = t
  BY <1>2 DEF ReleaseHolders
<1>4. \A x : ~Stores(todo[t], x)
  BY ReleasePlan
<1>5. QED
  BY <1>2, <1>3, <1>4, PointersAreHeld

\* A release; the last one deletes.
LEMMA StepReleaseKeepsInv ==
  ASSUME RefCountedAssumption, RefInv, NEW t \in Thread, NEW o \in Object,
         todo[t] = <<Release(o)>>, StepRelease(t)
  PROVE  RefInv'
<1>1. /\ RefTypeOK /\ PlansKnown /\ PlanKnown(t) /\ CountKnown /\ LiveKnown /\ DestructionKnown
      /\ Nil \notin Object /\ count \in [Object -> Nat] /\ released \in [Object -> SUBSET (1..MaxUses)]
      /\ view \in [Thread -> SUBSET (1..MaxUses)]
  BY DEF RefInv, RefTypeOK, PlansKnown, RefCountedAssumption
<1> DEFINE q == IF count[o] = 1 THEN <<Destruction(o)>> ELSE <<>>
<1>2. /\ todo[t] # <<>> /\ Head(todo[t]).obj = o /\ Tail(todo[t]) = <<>> /\ ~OnlyCounts(todo[t])
      /\ Head(todo[t]).do = "release"
      /\ \A s : ~Stores(todo[t], s)
      /\ \A x : Releases(todo[t], x) <=> x = o
      /\ \A x : ~StoresFirst(todo[t], x) /\ todo[t] # <<Destruction(x)>>
  BY ReleasePlan
<1>3. q = (IF count[o] = 1 THEN <<Do("delete", o, Nil)>> ELSE <<>>) \o Tail(todo[t])
  <2>1. <<Do("delete", o, Nil)>> \o <<>> = <<Do("delete", o, Nil)>>
    OBVIOUS
  <2>2. <<>> \o <<>> = <<>>
    OBVIOUS
  <2>3. CASE count[o] = 1
    BY <1>2, <2>1, <2>3 DEF Destruction
  <2>4. CASE count[o] # 1
    BY <1>2, <2>2, <2>4
  <2>5. QED
    BY <2>3, <2>4
<1>4. /\ q = <<>> \/ q = <<Destruction(o)>>
      /\ ~OnlyCounts(q) /\ \A s : ~Stores(q, s)
      /\ \A x : /\ ~Releases(q, x) /\ ~StoresFirst(q, x) /\ q # <<AddRef(x)>>
                /\ q = <<Destruction(x)>> => x = o /\ count[o] = 1
  BY EmptyPlan, DestructionPlan, CountPlan
<1>5. q \in Seq(Micro)
  <2>1. Destruction(o) \in Micro
    BY DEF Destruction, Do, Micro, Pointer
  <2>2. <<>> \in Seq(Micro) /\ <<Destruction(o)>> \in Seq(Micro)
    BY <2>1
  <2>3. QED
    BY <1>4, <2>2
<1>6. /\ todo' = [todo EXCEPT ![t] = q] /\ count' = [count EXCEPT ![o] = @ - 1]
      /\ ptr' = ptr /\ state' = state /\ using' = using /\ handed' = handed /\ uses' = uses
      /\ view' = [view EXCEPT ![t] = @ \cup released[o]]
      /\ released' = [released EXCEPT ![o] = @ \cup view[t]]
  <2>1. /\ count' = [count EXCEPT ![o] = @ - 1]
        /\ todo' = [todo EXCEPT ![t] =
                      (IF count[o] = 1 THEN <<Do("delete", o, Nil)>> ELSE <<>>) \o Tail(@)]
        /\ Barrier(t, o) /\ UNCHANGED <<ptr, state, using>>
    BY <1>2 DEF StepRelease
  <2>2. [todo EXCEPT ![t] = (IF count[o] = 1 THEN <<Do("delete", o, Nil)>> ELSE <<>>) \o Tail(@)]
          = [todo EXCEPT ![t] = q]
    BY <1>3
  <2>3. QED
    BY <2>1, <2>2 DEF Barrier
<1> HIDE DEF q
<1>7. /\ DOMAIN todo' = Thread /\ \A u \in Thread : todo'[u] \in Seq(Micro)
      /\ todo'[t] = q /\ \A u \in Thread \ {t} : todo'[u] = todo[u]
  BY <1>1, <1>5, <1>6, PlansTyped
<1>8. count[o] # 0 /\ state[o] = "live" /\ Holds(t, o)
  <2>1. Holds(t, o)
    BY <1>2 DEF Holds
  <2>2. QED
    BY <2>1, HoldsMeansLive
<1>9. /\ count'[o] + 1 = count[o] /\ \A x \in Object \ {o} : count'[x] = count[x]
      /\ count' \in [Object -> Nat]
  BY <1>1, <1>6, <1>8
<1>10. /\ view'[t] = view[t] \cup released[o] /\ \A u \in Thread \ {t} : view'[u] = view[u]
       /\ released'[o] = released[o] \cup view[t]
       /\ \A x \in Object \ {o} : released'[x] = released[x]
       /\ view' \in [Thread -> SUBSET (1..MaxUses)]
       /\ released' \in [Object -> SUBSET (1..MaxUses)]
  BY <1>1, <1>6
<1>11. OthersKeep(t)
  BY <1>6, <1>7 DEF OthersKeep
<1>12. RefTypeOK'
  BY <1>1, <1>6, <1>7, <1>9, <1>10 DEF RefTypeOK, Slot, Pointer, Micro
<1>13. \A x : ~Disturbs(t, x) /\ ~Disturbs(t, x)'
  <2>1. \A x : ~Disturbs(t, x)
    BY <1>2 DEF Disturbs
  <2>2. \A x : ~Disturbs(t, x)'
    BY <1>4, <1>7 DEF Disturbs, Stores, OnlyCounts, AddRef, Do
  <2>3. QED
    BY <2>1, <2>2
<1>14. \A x : SlotHolders(x)' = SlotHolders(x)
  BY <1>6, <1>11, <1>13, SlotsSame
<1>15. CountKnown'
  <2>1. ASSUME NEW x \in Object
        PROVE  count'[x] = Cardinality(SlotHolders(x)') + Cardinality(StoreHolders(x)')
                              + Cardinality(ReleaseHolders(x)')
    <3>1. /\ Cardinality(StoreHolders(x)') = Cardinality(StoreHolders(x))
          /\ Cardinality(ReleaseHolders(x)') + (IF x = o THEN 1 ELSE 0)
               = Cardinality(ReleaseHolders(x))
          /\ Cardinality(ReleaseHolders(x)') \in Nat
      <4>1. /\ ~StoresFirst(todo[t], x) /\ ~StoresFirst(todo'[t], x)
            /\ (Releases(todo[t], x) <=> x = o) /\ ~Releases(todo'[t], x)
        BY <1>2, <1>4, <1>7
      <4>2. QED
        BY <1>1, <1>11, <4>1, ThreadHoldersAfter, HoldersFinite, HoldersFiniteAfter
    <3>2. /\ Cardinality(SlotHolders(x)) \in Nat /\ Cardinality(StoreHolders(x)) \in Nat
          /\ Cardinality(ReleaseHolders(x)) \in Nat
      BY HoldersFinite
    <3>3. count[x] = Cardinality(SlotHolders(x)) + Cardinality(StoreHolders(x))
                        + Cardinality(ReleaseHolders(x))
      BY <1>1 DEF CountKnown
    <3>4. QED
      BY <1>1, <1>9, <1>14, <3>1, <3>2, <3>3
  <2>2. QED
    BY <2>1 DEF CountKnown
<1>16. LiveKnown'
  BY <1>1, <1>6, <1>8, <1>9 DEF LiveKnown, Slot
<1>17. PlanKnown(t)'
  <2>1. using'[t] # {}
    BY <1>1, <1>2, <1>6, PlanFacts
  <2>2. QED
    BY <1>4, <1>7, <2>1 DEF PlanKnown, Destruction, Do
<1>18. ASSUME NEW x \in Object PROVE Known(x) \subseteq Known(x)'
  <2>1. ASSUME NEW u \in StoreHolders(x) \cup ReleaseHolders(x)
        PROVE  u \in StoreHolders(x)' \cup ReleaseHolders(x)' \/ view[u] \subseteq Known(x)'
    <3>1. u \in Thread
      BY DEF StoreHolders, ReleaseHolders
    <3>2. CASE u # t
      BY <1>1, <1>11, <2>1, <3>1, <3>2, HoldersAfter
    <3>3. CASE u = t
      <4>1. x = o
        BY <1>2, <2>1, <3>3 DEF StoreHolders, ReleaseHolders
      <4>2. view[t] \subseteq Known(o)'
        BY <1>1, <1>10 DEF Known
      <4>3. QED
        BY <3>3, <4>1, <4>2
    <3>4. QED
      BY <3>2, <3>3
  <2>2. /\ released[x] \subseteq released'[x]
        /\ \A u \in Thread : view[u] \subseteq view'[u]
    BY <1>10
  <2>3. QED
    BY <1>6, <1>12, <1>14, <2>1, <2>2, KnownStays
<1>19. ASSUME NEW u \in Thread \ {t}, NEW x \in Object PROVE OtherStays(u, x)
  <2>1. CASE x # o
    BY <1>1, <1>6, <1>9, <1>10, <2>1 DEF DestructionKnown, OtherStays
  <2>2. CASE x = o
    BY <1>1, <1>8, <2>2 DEF DestructionKnown, OtherStays
  <2>3. QED
    BY <2>1, <2>2
<1>20. ASSUME NEW x \in using[t] \cap Object PROVE MemberStays(t, x)
  <2>1. Holds(t, x) \/ state[x] # "live"
    BY <1>2 DEF RefInv, HoldsKnown
  <2>2. ASSUME NEW y \in using[t], y \in SlotHolders(x) PROVE Holds(t, x)'
    BY <1>6, <1>14, <2>2 DEF Holds
  <2>3. CASE state[x] # "live"
    <3>1. todo'[t] # <<>> => Head(todo'[t]).do = "delete"
      BY <1>4, <1>7, DestructionPlan
    <3>2. QED
      BY <1>6, <2>3, <3>1 DEF MemberStays
  <2>4. CASE x = o
    <3>1. todo'[t] # <<>> => Head(todo'[t]).do = "delete" /\ todo'[t] = <<Destruction(x)>>
      BY <1>4, <1>7, <2>4, DestructionPlan
    <3>2. view'[t] \subseteq Known(x)'
      BY <1>10, <2>4 DEF Known
    <3>3. QED
      BY <3>1, <3>2 DEF MemberStays
  <2>5. CASE Holds(t, x)'
    BY <1>12, <2>5, HoldsMeansKnownAfter DEF MemberStays
  <2>6. QED
    BY <1>2, <2>1, <2>2, <2>3, <2>4, <2>5 DEF Holds
<1>21. ASSUME NEW x \in Object PROVE ObjectStays(t, x)
  <2>1. ASSUME q = <<Destruction(x)>>
        PROVE  /\ state'[x] = "live" /\ count'[x] = 0 /\ \A s \in Slot : ptr'[s] # x
               /\ \A u \in Thread \ {t} : todo[u] # <<Destruction(x)>>
               /\ released'[x] \subseteq view'[t]
    <3>1. x = o /\ count[o] = 1
      BY <1>4, <2>1
    <3>2. \A s \in Slot : ptr[s] # o
      BY <3>1, NoPointerLeft
    <3>3. \A u \in Thread \ {t} : todo[u] # <<Destruction(o)>>
      BY <1>1, <1>8 DEF DestructionKnown
    <3>4. count'[o] = 0
      BY <1>1, <1>9, <3>1
    <3>5. QED
      BY <1>6, <1>8, <1>10, <3>1, <3>2, <3>3, <3>4
  <2>2. QED
    BY <1>4, <1>6, <1>7, <1>18, <2>1 DEF ObjectStays
<1>22. Goes(t)
  <2>1. \A x : Disturbs(t, x)' => x \in using[t]
    BY <1>13
  <2>2. QED
    BY <1>2, <1>6, <1>10, <1>11, <1>12, <1>15, <1>16, <1>17, <1>19, <1>20, <1>21, <2>1 DEF Goes
<1>23. QED
  BY <1>22, GoesKeepsInv

\* The destructor of an object, which gives up the member.
LEMMA StepDeleteKeepsInv ==
  ASSUME RefCountedAssumption, RefInv, NEW t \in Thread, NEW o \in Object,
         todo[t] = <<Destruction(o)>>, StepDelete(t)
  PROVE  RefInv'
<1>1. /\ RefTypeOK /\ PlansKnown /\ PlanKnown(t) /\ CountKnown /\ LiveKnown /\ DestructionKnown
      /\ Nil \notin Object /\ ptr \in [Slot -> Pointer] /\ state \in [Object -> {"unborn", "live", "deleted"}]
      /\ using \in [Thread -> SUBSET Slot] /\ o \in Slot /\ ptr[o] \in Pointer
  BY DEF RefInv, RefTypeOK, PlansKnown, RefCountedAssumption, Slot
<1> DEFINE p == ptr[o]
           q == ReleaseIf(p)
<1>2. /\ todo[t] # <<>> /\ Head(todo[t]).obj = o /\ Tail(todo[t]) = <<>> /\ ~OnlyCounts(todo[t])
      /\ \A s : ~Stores(todo[t], s)
      /\ \A x : ~Releases(todo[t], x) /\ ~StoresFirst(todo[t], x)
      /\ \A x : todo[t] = <<Destruction(x)>> => x = o
  BY DestructionPlan
<1>3. q \in Seq(Micro)
  BY <1>1, PlanTypes
<1>4. /\ q \o <<>> = q
  BY <1>3, ConcatProperties, EmptySeq, ConcatEmptySeq
<1>5. /\ todo' = [todo EXCEPT ![t] = q] /\ ptr' = [ptr EXCEPT ![o] = Nil]
      /\ state' = [state EXCEPT ![o] = "deleted"] /\ count' = count /\ using' = using
      /\ view' = view /\ released' = released /\ handed' = handed /\ uses' = uses
  <2>1. /\ todo' = [todo EXCEPT ![t] = q \o Tail(@)] /\ ptr' = [ptr EXCEPT ![o] = Nil]
        /\ state' = [state EXCEPT ![o] = "deleted"] /\ UNCHANGED <<count, using, visibility>>
    BY <1>2 DEF StepDelete
  <2>2. [todo EXCEPT ![t] = q \o Tail(@)] = [todo EXCEPT ![t] = q]
    BY <1>2, <1>4
  <2>3. QED
    BY <2>1, <2>2 DEF visibility
<1>6. /\ ~OnlyCounts(q) /\ \A x : ~Stores(q, x)
      /\ \A x \in Object : /\ Releases(q, x) <=> x = p
                           /\ ~StoresFirst(q, x) /\ q # <<Destruction(x)>> /\ q # <<AddRef(x)>>
      /\ q = <<>> \/ (p \in Object /\ q = <<Release(p)>>)
  BY <1>1, QuietPlans
<1> HIDE DEF q
<1>7. /\ DOMAIN todo' = Thread /\ \A u \in Thread : todo'[u] \in Seq(Micro)
      /\ todo'[t] = q /\ \A u \in Thread \ {t} : todo'[u] = todo[u]
  BY <1>1, <1>3, <1>5, PlansTyped
<1>8. /\ ptr' \in [Slot -> Pointer] /\ ptr'[o] = Nil /\ \A x \in Slot \ {o} : ptr'[x] = ptr[x]
      /\ state' \in [Object -> {"unborn", "live", "deleted"}]
      /\ state'[o] = "deleted" /\ \A x \in Object \ {o} : state'[x] = state[x]
  BY <1>1, <1>5 DEF Pointer
<1>9. /\ state[o] = "live" /\ count[o] = 0 /\ \A x \in Slot : ptr[x] # o
      /\ \A u \in Thread \ {t} : todo[u] # <<Destruction(o)>>
      /\ released[o] \subseteq view[t]
  BY <1>1 DEF DestructionKnown
<1>10. /\ SlotHolders(o) = {} /\ StoreHolders(o) = {} /\ ReleaseHolders(o) = {}
       /\ \A u \in Thread : ~Holds(u, o)
  <2>1. \A u \in Thread : ~Holds(u, o)
    BY <1>9, HoldsMeansLive
  <2>2. QED
    BY <1>1, <1>9, <2>1, ZeroMeansNobody
<1>11. \A u \in Thread \ {t} : o \in using[u] => todo[u] = <<>>
  BY <1>9, <1>10 DEF RefInv, HoldsKnown
<1>12. OthersKeep(t)
  <2>1. ASSUME NEW u \in Thread \ {t}, todo[u] # <<>>, NEW x \in using[u] PROVE ptr'[x] = ptr[x]
    <3>1. x # o /\ x \in Slot
      BY <1>1, <1>11, <2>1
    <3>2. QED
      BY <1>8, <3>1
  <2>2. QED
    BY <1>5, <1>7, <2>1 DEF OthersKeep
<1>13. RefTypeOK'
  BY <1>1, <1>5, <1>7, <1>8 DEF RefTypeOK, Slot, Pointer, Micro
<1>14. \A x : ~Disturbs(t, x) /\ ~Disturbs(t, x)'
  <2>1. \A x : ~Disturbs(t, x)
    BY <1>2 DEF Disturbs
  <2>2. \A x : ~Disturbs(t, x)'
    BY <1>6, <1>7 DEF Disturbs, Stores, OnlyCounts, AddRef, Do
  <2>3. QED
    BY <2>1, <2>2
<1>15. \A u \in Thread : ~Disturbs(u, o)
  <2>1. ASSUME NEW u \in Thread \ {t}, Disturbs(u, o) PROVE FALSE
    <3>1. PlanKnown(u)
      BY <1>1 DEF PlansKnown
    <3>2. o \in using[u]
      BY <1>1, <2>1, <3>1, PlanFacts
    <3>3. todo[u] = <<>>
      BY <1>11, <3>2
    <3>4. QED
      BY <2>1, <3>3, EmptyPlan DEF Disturbs
  <2>2. QED
    BY <1>14, <2>1
<1>16. ASSUME NEW x \in Object
       PROVE  /\ \A y : y # o => (y \in SlotHolders(x) <=> y \in SlotHolders(x)')
              /\ (o \in SlotHolders(x) <=> x = p) /\ o \notin SlotHolders(x)'
  <2>1. \A y \in Slot : y # o => (y \in SlotHolders(x) <=> y \in SlotHolders(x)')
    BY <1>8, <1>12, <1>14, SlotsAfter
  <2>2. o \in SlotHolders(x) <=> x = p
    BY <1>1, <1>15 DEF SlotHolders
  <2>3. o \notin SlotHolders(x)'
    BY <1>1, <1>8, <1>12, SlotsAfter
  <2>4. SlotHolders(x) \subseteq Slot /\ SlotHolders(x)' \subseteq Slot
    BY <1>12, SlotsAfter
  <2>5. QED
    BY <2>1, <2>2, <2>3, <2>4
<1>17. CountKnown'
  <2>1. ASSUME NEW x \in Object
        PROVE  count'[x] = Cardinality(SlotHolders(x)') + Cardinality(StoreHolders(x)')
                              + Cardinality(ReleaseHolders(x)')
    <3>1. /\ Cardinality(SlotHolders(x)) \in Nat /\ Cardinality(SlotHolders(x)') \in Nat
          /\ Cardinality(SlotHolders(x)') + (IF x = p THEN 1 ELSE 0) = Cardinality(SlotHolders(x))
      <4>1. IsFiniteSet(SlotHolders(x))
        BY HoldersFinite
      <4>2. QED
        BY <1>16, <4>1, ChangeOne
    <3>2. /\ Cardinality(StoreHolders(x)') = Cardinality(StoreHolders(x))
          /\ Cardinality(ReleaseHolders(x)')
               = Cardinality(ReleaseHolders(x)) + (IF x = p THEN 1 ELSE 0)
          /\ Cardinality(StoreHolders(x)) \in Nat /\ Cardinality(ReleaseHolders(x)) \in Nat
      <4>1. /\ ~StoresFirst(todo[t], x) /\ ~StoresFirst(todo'[t], x)
            /\ ~Releases(todo[t], x) /\ (Releases(todo'[t], x) <=> x = p)
        BY <1>2, <1>6, <1>7
      <4>2. QED
        BY <1>1, <1>12, <4>1, ThreadHoldersAfter, HoldersFinite, HoldersFiniteAfter
    <3>3. count[x] = Cardinality(SlotHolders(x)) + Cardinality(StoreHolders(x))
                        + Cardinality(ReleaseHolders(x))
      BY <1>1 DEF CountKnown
    <3>4. QED
      BY <1>5, <3>1, <3>2, <3>3
  <2>2. QED
    BY <2>1 DEF CountKnown
<1>18. LiveKnown'
  <2>1. ASSUME NEW x \in Slot, ptr'[x] # Nil PROVE state'[ptr'[x]] = "live"
    <3>1. x # o /\ ptr'[x] = ptr[x] /\ ptr[x] \in Object /\ ptr[x] # o
      BY <1>1, <1>8, <1>9, <2>1 DEF Pointer
    <3>2. QED
      BY <1>1, <1>8, <2>1, <3>1 DEF LiveKnown
  <2>2. ASSUME NEW x \in Object, state'[x] # "live" PROVE ptr'[x] = Nil /\ count'[x] = 0
    BY <1>1, <1>5, <1>8, <1>9, <2>2 DEF LiveKnown, Slot
  <2>3. QED
    BY <2>1, <2>2 DEF LiveKnown
<1>19. PlanKnown(t)'
  <2>1. using'[t] # {}
    BY <1>1, <1>2, <1>5, PlanFacts
  <2>2. QED
    BY <1>6, <1>7, <2>1 DEF PlanKnown, Release, Do
<1>20. ASSUME NEW x \in Object, state'[x] = "live" PROVE Known(x) \subseteq Known(x)'
  <2>1. StoreHolders(x) \subseteq StoreHolders(x)' /\ ReleaseHolders(x) \subseteq ReleaseHolders(x)'
    <3>1. t \notin StoreHolders(x) /\ t \notin ReleaseHolders(x)
      BY <1>2 DEF StoreHolders, ReleaseHolders
    <3>2. QED
      BY <1>1, <1>12, <3>1, HoldersAfter, HoldersFinite
  <2>2. ASSUME NEW s \in SlotHolders(x), s \notin SlotHolders(x)' PROVE KnownAt(s) \subseteq Known(x)'
    <3>1. s = o /\ x = p
      BY <1>16, <2>2
    <3>2. Known(o) \subseteq view[t]
      BY <1>9, <1>10 DEF Known
    <3>3. KnownAt(o) \subseteq Known(o)
      BY <1>9 DEF RefInv, MemoryKnown, KnownAt
    <3>4. Holds(t, x)'
      <4>1. Releases(q, x)
        BY <1>6, <3>1
      <4>2. Releases(todo[t], x)'
        BY <1>7, <4>1 DEF Releases
      <4>3. QED
        BY <4>2 DEF Holds
    <3>5. view'[t] \subseteq Known(x)'
      BY <1>13, <3>4, HoldsMeansKnownAfter
    <3>6. QED
      BY <1>5, <3>1, <3>2, <3>3, <3>5
  <2>3. QED
    BY <1>5, <1>13, <2>1, <2>2, KnownStays
<1>21. ASSUME NEW u \in Thread \ {t}, NEW x \in Object PROVE OtherStays(u, x)
  <2>1. ASSUME todo[u] = <<Destruction(x)>>
        PROVE  /\ state'[x] = "live" /\ count'[x] = 0 /\ \A s \in Slot : ptr'[s] # x
               /\ released'[x] = released[x]
    <3>1. /\ state[x] = "live" /\ count[x] = 0 /\ x # o /\ \A s \in Slot : ptr[s] # x
      BY <1>1, <1>9, <2>1 DEF DestructionKnown
    <3>2. QED
      BY <1>1, <1>5, <1>8, <3>1
  <2>2. QED
    BY <1>5, <2>1 DEF OtherStays
<1>22. ASSUME NEW x \in using[t] \cap Object PROVE MemberStays(t, x)
  <2>1. CASE state'[x] # "live"
    <3>1. todo'[t] # <<>> => Head(todo'[t]).do = "release"
      BY <1>6, <1>7, ReleasePlan
    <3>2. QED
      BY <2>1, <3>1 DEF MemberStays
  <2>2. CASE state'[x] = "live"
    <3>1. x # o /\ state[x] = "live"
      BY <1>8, <2>2
    <3>2. Holds(t, x)
      BY <1>2, <3>1 DEF RefInv, HoldsKnown
    <3>3. PICK y \in using[t] : y \in SlotHolders(x)
      BY <1>2, <3>2 DEF Holds
    <3>4. Holds(t, x)'
      <4>1. CASE y = o
        <5>1. Releases(q, x)
          BY <1>6, <1>16, <3>3, <4>1
        <5>2. Releases(todo[t], x)'
          BY <1>7, <5>1 DEF Releases
        <5>3. QED
          BY <5>2 DEF Holds
      <4>2. CASE y # o
        BY <1>5, <1>16, <3>3, <4>2 DEF Holds
      <4>3. QED
        BY <4>1, <4>2
    <3>5. QED
      BY <1>13, <3>4, HoldsMeansKnownAfter DEF MemberStays
  <2>3. QED
    BY <2>1, <2>2
<1>23. ASSUME NEW x \in Object PROVE ObjectStays(t, x)
  <2>1. state'[x] = state[x] \/ (state[x] = "live" /\ state'[x] = "deleted")
    BY <1>8, <1>9
  <2>2. QED
    BY <1>6, <1>7, <1>20, <2>1 DEF ObjectStays
<1>24. Goes(t)
  <2>1. \A x : Disturbs(t, x)' => x \in using[t]
    BY <1>14
  <2>2. QED
    BY <1>2, <1>5, <1>12, <1>13, <1>17, <1>18, <1>19, <1>21, <1>22, <1>23, <2>1 DEF Goes
<1>25. QED
  BY <1>24, GoesKeepsInv

\* A thread that puts away the variables of a finished operation.
LEMMA EndKeepsInv ==
  ASSUME RefCountedAssumption, RefInv, NEW t \in Thread, End(t)
  PROVE  RefInv'
<1>1. /\ RefTypeOK /\ PlansKnown /\ CountKnown /\ LiveKnown /\ DestructionKnown /\ UsingKnown
      /\ using \in [Thread -> SUBSET Slot] /\ handed \in [Slot -> SUBSET (1..MaxUses)]
      /\ view \in [Thread -> SUBSET (1..MaxUses)]
  BY DEF RefInv, RefTypeOK
<1>2. /\ todo[t] = <<>> /\ using' = [using EXCEPT ![t] = {}]
      /\ handed' = [s \in Slot |-> IF s \in using[t] THEN handed[s] \cup view[t] ELSE handed[s]]
      /\ ptr' = ptr /\ count' = count /\ state' = state /\ todo' = todo /\ view' = view
      /\ released' = released /\ uses' = uses
  BY DEF End
<1>3. /\ using'[t] = {} /\ \A u \in Thread \ {t} : using'[u] = using[u]
      /\ using' \in [Thread -> SUBSET Slot]
      /\ \A s \in Slot : handed'[s] = (IF s \in using[t] THEN handed[s] \cup view[t] ELSE handed[s])
      /\ handed' \in [Slot -> SUBSET (1..MaxUses)]
  BY <1>1, <1>2
<1>4. RefTypeOK'
  BY <1>1, <1>2, <1>3 DEF RefTypeOK, Slot, Pointer, Micro
<1>5. OthersKeep(t)
  BY <1>2, <1>3 DEF OthersKeep
<1>6. \A x : ~Disturbs(t, x) /\ ~Disturbs(t, x)'
  <2>1. todo'[t] = <<>>
    BY <1>2
  <2>2. \A x : ~Disturbs(t, x)'
    BY <2>1, EmptyPlan DEF Disturbs, Stores, OnlyCounts, AddRef, Do
  <2>3. QED
    BY <1>2, <2>2, EmptyPlan DEF Disturbs
<1>7. \A x : SlotHolders(x)' = SlotHolders(x)
  BY <1>2, <1>5, <1>6, SlotsSame
<1>8. \A x : StoreHolders(x)' = StoreHolders(x) /\ ReleaseHolders(x)' = ReleaseHolders(x)
  BY <1>2 DEF StoreHolders, ReleaseHolders, StoresFirst, Releases
<1>9. CountKnown'
  BY <1>1, <1>2, <1>7, <1>8 DEF CountKnown
<1>10. PlansKnown'
  <2>1. PlanKnown(t)'
    BY <1>2 DEF PlanKnown
  <2>2. ASSUME NEW u \in Thread \ {t} PROVE PlanKnown(u)'
    <3>1. \A o \in Object : todo'[t] # <<AddRef(o)>>
      BY <1>2, CountPlan
    <3>2. QED
      BY <1>2, <1>5, <3>1, OthersPlans
  <2>3. QED
    BY <2>1, <2>2 DEF PlansKnown
<1>11. UsingKnown' /\ LiveKnown' /\ DestructionKnown'
  <2>1. UsingKnown'
    BY <1>1, <1>3 DEF UsingKnown
  <2>2. LiveKnown'
    BY <1>1, <1>2 DEF LiveKnown, Slot
  <2>3. DestructionKnown'
    BY <1>1, <1>2 DEF DestructionKnown, Destruction, Do, Slot
  <2>4. QED
    BY <2>1, <2>2, <2>3
<1>12. HoldsKnown'
  <2>1. ASSUME NEW u \in Thread \ {t}, NEW x \in using[u] \cap Object, todo[u] # <<>>
        PROVE  \/ Holds(u, x)'
               \/ /\ Head(todo[u]).do \in {"release", "delete"}
                  /\ state'[x] = "live" => todo[u] = <<Destruction(x)>>
    BY <1>2, <1>5, <1>6, <2>1, OthersHoldKnown
  <2>2. QED
    BY <1>2, <1>3, <2>1 DEF HoldsKnown, Destruction, Do
<1>13. ASSUME NEW o \in Object PROVE Known(o) \subseteq Known(o)'
  <2>1. ASSUME NEW n \in 1..MaxUses, NEW s \in SlotHolders(o), n \in KnownAt(s)
        PROVE  n \in KnownAt(s)'
    <3>1. s \in Slot
      BY DEF SlotHolders, Slot
    <3>2. CASE n \in handed[s]
      BY <1>3, <3>1, <3>2 DEF KnownAt
    <3>3. ASSUME NEW u \in Thread, s \in using[u], n \in view[u] PROVE n \in KnownAt(s)'
      <4>1. CASE u = t
        BY <1>3, <3>1, <3>3, <4>1 DEF KnownAt
      <4>2. CASE u # t
        BY <1>2, <1>3, <3>3, <4>2 DEF KnownAt
      <4>3. QED
        BY <4>1, <4>2
    <3>4. QED
      BY <2>1, <3>2, <3>3 DEF KnownAt
  <2>2. QED
    BY <1>2, <1>7, <1>8, <2>1 DEF Known
<1>14. MemoryKnown'
  <2>1. ASSUME NEW o \in Object, state'[o] = "unborn"
        PROVE  uses'[o] = {} /\ handed'[o] = {} /\ \A u \in Thread : o \notin using'[u]
    <3>1. uses[o] = {} /\ handed[o] = {} /\ \A u \in Thread : o \notin using[u]
      BY <1>2, <2>1 DEF RefInv, MemoryKnown
    <3>2. QED
      BY <1>2, <1>3, <3>1 DEF Slot
  <2>2. ASSUME NEW o \in Object, state'[o] = "live"
        PROVE  /\ uses'[o] \subseteq Known(o)' /\ handed'[o] \subseteq Known(o)'
               /\ \A u \in Thread : o \in using'[u] => view'[u] \subseteq Known(o)'
    <3>1. /\ uses[o] \subseteq Known(o) /\ handed[o] \subseteq Known(o)
          /\ \A u \in Thread : o \in using[u] => view[u] \subseteq Known(o)
      BY <1>2, <2>2 DEF RefInv, MemoryKnown
    <3>2. handed'[o] \subseteq Known(o)
      BY <1>3, <3>1 DEF Slot
    <3>3. \A u \in Thread : o \in using'[u] => view'[u] \subseteq Known(o)
      BY <1>2, <1>3, <3>1
    <3>4. QED
      BY <1>2, <1>13, <3>1, <3>2, <3>3
  <2>3. QED
    BY <2>1, <2>2 DEF MemoryKnown
<1>15. QED
  BY <1>4, <1>9, <1>10, <1>11, <1>12, <1>14 DEF RefInv

\* Some use of an object.
LEMMA UseKeepsInv ==
  ASSUME RefCountedAssumption, RefInv, NEW t \in Thread, Idle(t), NEW v \in Var, Use(t, v)
  PROVE  RefInv'
<1>1. /\ RefTypeOK /\ PlansKnown /\ CountKnown /\ LiveKnown /\ DestructionKnown /\ UsingKnown
      /\ HoldsKnown
      /\ using \in [Thread -> SUBSET Slot] /\ handed \in [Slot -> SUBSET (1..MaxUses)]
      /\ view \in [Thread -> SUBSET (1..MaxUses)] /\ uses \in [Object -> SUBSET (1..MaxUses)]
      /\ v \in Slot /\ v \notin Object /\ ptr[v] \in Pointer /\ todo[t] = <<>> /\ using[t] = {}
  BY DEF RefInv, RefTypeOK, RefCountedAssumption, Slot, Idle
<1> DEFINE next == Cardinality(UNION {uses[o] : o \in Object}) + 1
<1>2. /\ ptr[v] # Nil /\ v \notin Held(t) /\ next <= MaxUses
      /\ uses' = [uses EXCEPT ![ptr[v]] = @ \cup {next}]
      /\ view' = [view EXCEPT ![t] = @ \cup handed[v] \cup {next}]
      /\ handed' = [handed EXCEPT ![v] = @ \cup view[t] \cup {next}]
      /\ ptr' = ptr /\ count' = count /\ state' = state /\ todo' = todo /\ using' = using
      /\ released' = released
  BY DEF Use
<1>3. next \in 1..MaxUses
  <2>1. UNION {uses[o] : o \in Object} \subseteq 1..MaxUses
    BY <1>1
  <2>2. IsFiniteSet(1..MaxUses)
    BY FS_Interval DEF RefCountedAssumption
  <2>3. Cardinality(UNION {uses[o] : o \in Object}) \in Nat
    BY <2>1, <2>2, FS_Subset, FS_CardinalityType
  <2>4. QED
    BY <1>2, <2>3 DEF RefCountedAssumption
<1> HIDE DEF next
<1>4. PICK p \in Object : p = ptr[v] /\ state[p] = "live"
  BY <1>1, <1>2 DEF Pointer, LiveKnown
<1>5. /\ view'[t] = view[t] \cup handed[v] \cup {next} /\ \A u \in Thread \ {t} : view'[u] = view[u]
      /\ handed'[v] = handed[v] \cup view[t] \cup {next} /\ \A s \in Slot \ {v} : handed'[s] = handed[s]
      /\ uses'[p] = uses[p] \cup {next} /\ \A o \in Object \ {p} : uses'[o] = uses[o]
      /\ view' \in [Thread -> SUBSET (1..MaxUses)] /\ handed' \in [Slot -> SUBSET (1..MaxUses)]
      /\ uses' \in [Object -> SUBSET (1..MaxUses)]
  BY <1>1, <1>2, <1>3, <1>4
<1>6. RefTypeOK'
  BY <1>1, <1>2, <1>5 DEF RefTypeOK, Slot, Pointer, Micro
<1>7. \A u \in Thread : \A s : Disturbs(u, s)' <=> Disturbs(u, s)
  BY <1>2 DEF Disturbs, FreshSlot, Candidates, Stores, OnlyCounts, AddRef, Do
<1>8. \A x : /\ SlotHolders(x)' = SlotHolders(x) /\ StoreHolders(x)' = StoreHolders(x)
             /\ ReleaseHolders(x)' = ReleaseHolders(x)
  <2>1. \A x : SlotHolders(x)' = SlotHolders(x)
    BY <1>2, <1>7 DEF SlotHolders, Slot
  <2>2. \A x : StoreHolders(x)' = StoreHolders(x) /\ ReleaseHolders(x)' = ReleaseHolders(x)
    BY <1>2 DEF StoreHolders, ReleaseHolders, StoresFirst, Releases
  <2>3. QED
    BY <2>1, <2>2
<1>9. CountKnown' /\ LiveKnown' /\ UsingKnown'
  BY <1>1, <1>2, <1>8 DEF CountKnown, LiveKnown, UsingKnown, Slot
<1>10. PlansKnown'
  <2>1. \A u \in Thread : PlanKnown(u)' <=> PlanKnown(u)
    BY <1>2 DEF PlanKnown, StoreSteps, AssignSteps, AddRefIf, ReleaseIf, AddRef, Release, Destruction,
                Do, Pointer
  <2>2. QED
    BY <1>1, <2>1 DEF PlansKnown
<1>11. HoldsKnown'
  <2>1. \A u \in Thread : \A x : Holds(u, x)' <=> Holds(u, x)
    BY <1>2, <1>8 DEF Holds, StoresFirst, Releases
  <2>2. QED
    BY <1>1, <1>2, <2>1 DEF HoldsKnown, Destruction, Do
<1>12. DestructionKnown'
  <2>1. \A u \in Thread : view[u] \subseteq view'[u]
    BY <1>5
  <2>2. QED
    BY <1>1, <1>2, <2>1 DEF DestructionKnown, Destruction, Do, Slot
<1>13. \A s \in Slot : KnownAt(s) \subseteq KnownAt(s)'
  <2>1. ASSUME NEW s \in Slot, NEW n, n \in handed[s] PROVE n \in KnownAt(s)'
    BY <1>5, <2>1 DEF KnownAt
  <2>2. ASSUME NEW s \in Slot, NEW u \in Thread, s \in using[u], NEW n, n \in view[u]
        PROVE  n \in KnownAt(s)'
    BY <1>2, <1>5, <2>2 DEF KnownAt
  <2>3. QED
    BY <2>1, <2>2 DEF KnownAt
<1>14. ASSUME NEW o \in Object PROVE Known(o) \subseteq Known(o)'
  <2>1. SlotHolders(o) \subseteq Slot
    BY DEF SlotHolders, Slot
  <2>2. \A u \in StoreHolders(o) \cup ReleaseHolders(o) : u \in Thread
    BY DEF StoreHolders, ReleaseHolders
  <2>3. \A u \in Thread : view[u] \subseteq view'[u]
    BY <1>5
  <2>4. QED
    BY <1>2, <1>8, <1>13, <2>1, <2>2, <2>3 DEF Known
<1>15. next \in Known(p)'
  <2>1. \A u \in Thread : ~Disturbs(u, v)
    <3>1. ASSUME NEW u \in Thread, Disturbs(u, v) PROVE v \in using[u] /\ u # t
      BY <1>1, <3>1, PlanFacts DEF PlansKnown
    <3>2. QED
      BY <1>2, <3>1 DEF Held
  <2>2. v \in SlotHolders(p)
    BY <1>1, <1>4, <2>1 DEF SlotHolders
  <2>3. next \in KnownAt(v)'
    BY <1>5 DEF KnownAt
  <2>4. QED
    BY <1>3, <1>8, <2>2, <2>3 DEF Known
<1>16. MemoryKnown'
  <2>1. ASSUME NEW o \in Object, state'[o] = "unborn"
        PROVE  uses'[o] = {} /\ handed'[o] = {} /\ \A u \in Thread : o \notin using'[u]
    <3>1. uses[o] = {} /\ handed[o] = {} /\ \A u \in Thread : o \notin using[u]
      BY <1>2, <2>1 DEF RefInv, MemoryKnown
    <3>2. o # p /\ o # v /\ o \in Slot
      BY <1>1, <1>2, <1>4, <2>1 DEF Slot
    <3>3. QED
      BY <1>2, <1>5, <3>1, <3>2
  <2>2. ASSUME NEW o \in Object, state'[o] = "live"
        PROVE  /\ uses'[o] \subseteq Known(o)' /\ handed'[o] \subseteq Known(o)'
               /\ \A u \in Thread : o \in using'[u] => view'[u] \subseteq Known(o)'
    <3>1. /\ uses[o] \subseteq Known(o) /\ handed[o] \subseteq Known(o)
          /\ \A u \in Thread : o \in using[u] => view[u] \subseteq Known(o)
      BY <1>2, <2>2 DEF RefInv, MemoryKnown
    <3>2. Known(o) \subseteq Known(o)'
      BY <1>14
    <3>3. uses'[o] \subseteq Known(o)'
      BY <1>5, <1>15, <3>1, <3>2
    <3>4. handed'[o] \subseteq Known(o)'
      BY <1>1, <1>5, <3>1, <3>2 DEF Slot
    <3>5. \A u \in Thread : o \in using'[u] => view'[u] \subseteq Known(o)'
      BY <1>1, <1>2, <1>5, <3>1, <3>2
    <3>6. QED
      BY <3>3, <3>4, <3>5
  <2>3. QED
    BY <2>1, <2>2 DEF MemoryKnown
<1>17. QED
  BY <1>6, <1>9, <1>10, <1>11, <1>12, <1>16 DEF RefInv

-----------------------------------------------------------------------------
\* At first there are no objects.
LEMMA InitHolds == ASSUME RefCountedAssumption, RefInit PROVE RefInv
<1>1. RefTypeOK
  BY DEF RefInit, RefTypeOK, Pointer, Slot, RefCountedAssumption
<1>2. \A t \in Thread : todo[t] = <<>> /\ using[t] = {}
  BY DEF RefInit
<1>3. /\ \A s \in Slot : ptr[s] = Nil
      /\ \A o \in Object : Nil # o /\ count[o] = 0 /\ state[o] = "unborn"
  BY DEF RefInit, RefCountedAssumption
<1>4. \A o \in Object : SlotHolders(o) = {} /\ StoreHolders(o) = {} /\ ReleaseHolders(o) = {}
  <2>1. \A o \in Object : SlotHolders(o) = {}
    BY <1>3 DEF SlotHolders
  <2>2. \A t \in Thread : \A o : ~StoresFirst(todo[t], o) /\ ~Releases(todo[t], o)
    BY <1>2, EmptyPlan
  <2>3. QED
    BY <2>1, <2>2 DEF StoreHolders, ReleaseHolders
<1>5. CountKnown
  <2>1. Cardinality({}) = 0 /\ 0 = 0 + 0 + 0
    BY FS_EmptySet
  <2>2. QED
    BY <1>3, <1>4, <2>1 DEF CountKnown
<1>6. PlansKnown /\ UsingKnown /\ HoldsKnown /\ DestructionKnown
  <2>1. PlansKnown
    BY <1>2 DEF PlansKnown, PlanKnown
  <2>2. UsingKnown
    BY <1>2 DEF UsingKnown
  <2>3. HoldsKnown
    BY <1>2 DEF HoldsKnown
  <2>4. \A o : <<>> # <<Destruction(o)>>
    BY DestructionPlan
  <2>5. DestructionKnown
    BY <1>2, <2>4 DEF DestructionKnown
  <2>6. QED
    BY <2>1, <2>2, <2>3, <2>5
<1>7. LiveKnown
  BY <1>3 DEF LiveKnown, Slot
<1>8. MemoryKnown
  BY <1>2, <1>3 DEF MemoryKnown, RefInit, Slot
<1>9. QED
  BY <1>1, <1>5, <1>6, <1>7, <1>8 DEF RefInv

\* Every micro step keeps the invariant.
LEMMA StepKeepsInv ==
  ASSUME RefCountedAssumption, RefInv, NEW t \in Thread, Step(t)
  PROVE  RefInv'
<1>1. PlanKnown(t)
  BY DEF RefInv, PlansKnown
<1>2. CASE StepAddRef(t)
  <2>1. NextIs(t, "addref")
    BY <1>2 DEF StepAddRef
  <2>2. ASSUME NEW o \in Object, todo[t] = <<AddRef(o)>> PROVE RefInv'
    BY <1>2, <2>2, StepAddRefFresh
  <2>3. ASSUME NEW s \in using[t], NEW p \in Object, todo[t] = AssignSteps(s, p),
               NEW r \in using[t], ptr[r] = p
        PROVE  RefInv'
    BY <1>2, <2>3, StepAddRefAssign
  <2>4. QED
    BY <1>1, <2>1, <2>2, <2>3, PlanCases
<1>3. CASE StepStore(t)
  <2>1. NextIs(t, "store")
    BY <1>3 DEF StepStore
  <2>2. PICK s \in using[t], p \in Pointer : todo[t] = StoreSteps(s, p)
    BY <1>1, <2>1, PlanCases
  <2>3. QED
    BY <1>3, <2>2, StepStoreKeepsInv
<1>4. CASE StepRelease(t)
  <2>1. NextIs(t, "release")
    BY <1>4 DEF StepRelease
  <2>2. QED
    BY <1>1, <1>4, <2>1, PlanCases, StepReleaseKeepsInv
<1>5. CASE StepDelete(t)
  <2>1. NextIs(t, "delete")
    BY <1>5 DEF StepDelete
  <2>2. QED
    BY <1>1, <1>5, <2>1, PlanCases, StepDeleteKeepsInv
<1>6. QED
  BY <1>2, <1>3, <1>4, <1>5, EndKeepsInv DEF Step

\* Every step of the program keeps it.
LEMMA NextKeepsInv ==
  ASSUME RefCountedAssumption, RefInv, RefNext
  PROVE  RefInv'
<1>1. PICK t \in Thread :
        \/ Step(t)
        \/ /\ Idle(t)
           /\ \/ \E v \in Var, o \in Object : ConstructNew(t, v, o)
              \/ \E v \in Var : Destruct(t, v) \/ Use(t, v)
              \/ \E v \in Var : \E s \in Reaches(v) : AssignNull(t, s, {v})
              \/ \E v, w \in Var : \E r \in Reaches(w) :
                    \/ \E s \in Reaches(v) : \/ AssignCopy(t, s, r, {v, w})
                                             \/ AssignMove(t, s, r, {v, w})
                                             \/ Swap(t, s, r, {v, w})
                    \/ ConstructCopy(t, v, r, {w}) \/ ConstructMove(t, v, r, {w})
  BY DEF RefNext
<1>2. CASE Step(t)
  BY <1>2, StepKeepsInv
<1>3. ASSUME Idle(t), NEW v \in Var, NEW o \in Object, ConstructNew(t, v, o) PROVE RefInv'
  BY <1>3, ConstructNewKeepsInv
<1>4. ASSUME Idle(t), NEW v \in Var, Destruct(t, v) \/ Use(t, v) PROVE RefInv'
  BY <1>4, DestructKeepsInv, UseKeepsInv
<1>5. ASSUME Idle(t), NEW v \in Var, NEW s \in Reaches(v), AssignNull(t, s, {v}) PROVE RefInv'
  BY <1>5, AssignNullKeepsInv
<1>6. ASSUME Idle(t), NEW v \in Var, NEW w \in Var, NEW r \in Reaches(w), NEW s \in Reaches(v),
             AssignCopy(t, s, r, {v, w}) \/ AssignMove(t, s, r, {v, w}) \/ Swap(t, s, r, {v, w})
      PROVE  RefInv'
  BY <1>6, AssignCopyKeepsInv, AssignMoveKeepsInv, SwapKeepsInv
<1>7. ASSUME Idle(t), NEW v \in Var, NEW w \in Var, NEW r \in Reaches(w),
             ConstructCopy(t, v, r, {w}) \/ ConstructMove(t, v, r, {w})
      PROVE  RefInv'
  BY <1>7, ConstructCopyKeepsInv, ConstructMoveKeepsInv
<1>8. QED
  BY <1>1, <1>2, <1>3, <1>4, <1>5, <1>6, <1>7

\* And no step.
LEMMA StutterKeepsInv == ASSUME RefInv, UNCHANGED refVars PROVE RefInv'
<1>1. /\ ptr' = ptr /\ count' = count /\ state' = state /\ todo' = todo /\ using' = using
      /\ view' = view /\ released' = released /\ handed' = handed /\ uses' = uses
  BY DEF refVars
<1>2. \A t, s : Disturbs(t, s)' <=> Disturbs(t, s)
  BY <1>1 DEF Disturbs, FreshSlot, Candidates, Stores, OnlyCounts, AddRef, Do
<1>3. \A o : /\ SlotHolders(o)' = SlotHolders(o) /\ StoreHolders(o)' = StoreHolders(o)
             /\ ReleaseHolders(o)' = ReleaseHolders(o)
  <2>1. \A o : SlotHolders(o)' = SlotHolders(o)
    BY <1>1, <1>2 DEF SlotHolders, Slot
  <2>2. \A o : StoreHolders(o)' = StoreHolders(o) /\ ReleaseHolders(o)' = ReleaseHolders(o)
    BY <1>1 DEF StoreHolders, ReleaseHolders, StoresFirst, Releases
  <2>3. QED
    BY <2>1, <2>2
<1>4. RefTypeOK' /\ UsingKnown' /\ LiveKnown' /\ CountKnown' /\ DestructionKnown'
  <2>1. RefTypeOK' /\ UsingKnown' /\ LiveKnown'
    BY <1>1 DEF RefInv, RefTypeOK, UsingKnown, LiveKnown, Slot, Pointer, Micro
  <2>2. CountKnown'
    BY <1>1, <1>3 DEF RefInv, CountKnown
  <2>3. DestructionKnown'
    BY <1>1 DEF RefInv, DestructionKnown, Destruction, Do, Slot
  <2>4. QED
    BY <2>1, <2>2, <2>3
<1>5. PlansKnown'
  <2>1. \A u \in Thread : PlanKnown(u)' <=> PlanKnown(u)
    BY <1>1 DEF PlanKnown, StoreSteps, AssignSteps, AddRefIf, ReleaseIf, AddRef, Release, Destruction,
                Do, Pointer
  <2>2. QED
    BY <2>1 DEF RefInv, PlansKnown
<1>6. HoldsKnown'
  <2>1. \A u, x : Holds(u, x)' <=> Holds(u, x)
    BY <1>1, <1>3 DEF Holds, StoresFirst, Releases
  <2>2. QED
    BY <1>1, <2>1 DEF RefInv, HoldsKnown, Destruction, Do
<1>7. MemoryKnown'
  <2>1. \A o : Known(o)' = Known(o)
    BY <1>1, <1>3 DEF Known, KnownAt
  <2>2. QED
    BY <1>1, <2>1 DEF RefInv, MemoryKnown
<1>8. QED
  BY <1>4, <1>5, <1>6, <1>7 DEF RefInv

\* A reference is always in one hand: a slot, a thread that has counted it and not stored
\* it, or a thread that has overwritten it and not released it; and what is known of the
\* object is known where its references are.  For any threads, variables and objects.
THEOREM RefInvariantHolds == ASSUME RefCountedAssumption PROVE RefSpec => []RefInv
<1>1. RefInit => RefInv
  BY InitHolds
<1>2. RefInv /\ [RefNext]_refVars => RefInv'
  BY NextKeepsInv, StutterKeepsInv
<1>3. QED
  BY <1>1, <1>2, PTL DEF RefSpec

-----------------------------------------------------------------------------
(* What the invariant says of the properties of the runs.                    *)

\* The plans, written out.
LEMMA PlanShapes ==
  ASSUME RefCountedAssumption, RefTypeOK, NEW t \in Thread, PlanKnown(t)
  PROVE  \/ todo[t] = <<>>
         \/ \E o \in Object : todo[t] = <<AddRef(o)>>
         \/ \E o \in Object : todo[t] = <<Release(o)>>
         \/ \E o \in Object : todo[t] = <<Destruction(o)>>
         \/ \E s \in using[t], p \in Pointer : ptr[s] = Nil /\ todo[t] = <<Do("store", p, s)>>
         \/ \E s \in using[t], p \in Pointer :
               ptr[s] \in Object /\ todo[t] = <<Do("store", p, s), Release(ptr[s])>>
         \/ \E s \in using[t], p \in Object :
               ptr[s] = Nil /\ todo[t] = <<AddRef(p), Do("store", p, s)>>
         \/ \E s \in using[t], p \in Object :
               ptr[s] \in Object /\ todo[t] = <<AddRef(p), Do("store", p, s), Release(ptr[s])>>
<1>1. CASE \E s \in using[t], p \in Pointer :
              todo[t] = StoreSteps(s, p) \/ todo[t] = AssignSteps(s, p)
  <2>1. PICK s \in using[t], p \in Pointer : todo[t] = StoreSteps(s, p) \/ todo[t] = AssignSteps(s, p)
    BY <1>1
  <2>2. /\ s \in Slot /\ ptr[s] \in Pointer
        /\ \A x : x # Nil /\ x \in Pointer => x \in Object
    BY DEF RefTypeOK, Pointer
  <2>3. CASE todo[t] = StoreSteps(s, p)
    BY <2>2, <2>3, ExplicitPlans
  <2>4. CASE todo[t] = AssignSteps(s, p) /\ p # Nil
    BY <2>2, <2>4, ExplicitPlans
  <2>5. CASE todo[t] = AssignSteps(s, p) /\ p = Nil
    BY <2>2, <2>5, ExplicitPlans
  <2>6. QED
    BY <2>1, <2>3, <2>4, <2>5
<1>2. QED
  BY <1>1 DEF PlanKnown

\* No operation has anything left to do to an object that is not alive, and the first thing
\* that it does is not to the member of one.
LEMMA PlansAreLive ==
  ASSUME RefCountedAssumption, RefInv, NEW t \in Thread, NEW i \in DOMAIN todo[t]
  PROVE  /\ todo[t][i].obj # Nil => state[todo[t][i].obj] = "live"
         /\ i = 1 /\ todo[t][i].slot \in Object => state[todo[t][i].slot] = "live"
<1>1. RefTypeOK /\ PlanKnown(t) /\ LiveKnown /\ Nil \notin Object /\ using[t] \subseteq Slot
  BY DEF RefInv, RefTypeOK, PlansKnown, RefCountedAssumption
<1>2. CASE \E o \in Object : todo[t] = <<AddRef(o)>>
  BY <1>1, <1>2, CountersSeeObject, Parts DEF AddRef, Do
<1>3. CASE \E o \in Object : todo[t] = <<Release(o)>>
  <2>1. PICK o \in Object : todo[t] = <<Release(o)>>
    BY <1>3
  <2>2. Holds(t, o)
    BY <2>1, ReleasePlan DEF Holds
  <2>3. QED
    BY <1>1, <2>1, <2>2, HoldsMeansLive, Parts DEF Release, Do
<1>4. CASE \E o \in Object : todo[t] = <<Destruction(o)>>
  BY <1>1, <1>4, Parts DEF Destruction, Do, RefInv, DestructionKnown
<1>5. ASSUME NEW s \in using[t], NEW p \in Pointer, todo[t] = StoreSteps(s, p)
      PROVE  /\ p # Nil => state[p] = "live"
             /\ s \in Object => state[s] = "live"
  <2>1. Head(todo[t]).do = "store" /\ Head(todo[t]).obj = p /\ todo[t] # <<>>
    BY <1>5, StorePlan
  <2>2. p # Nil => p \in Object /\ Holds(t, p)
    BY <1>5, StorePlan DEF Holds, Pointer
  <2>3. s \in Object => Holds(t, s)
    BY <2>1 DEF RefInv, HoldsKnown
  <2>4. QED
    BY <2>2, <2>3, HoldsMeansLive
<1>6. CASE \E s \in using[t], p \in Pointer : ptr[s] = Nil /\ todo[t] = <<Do("store", p, s)>>
  <2>1. PICK s \in using[t], p \in Pointer : ptr[s] = Nil /\ todo[t] = <<Do("store", p, s)>>
    BY <1>6
  <2>2. todo[t] = StoreSteps(s, p)
    BY <2>1, ExplicitPlans
  <2>3. i = 1 /\ todo[t][i] = Do("store", p, s)
    BY <2>1, Parts
  <2>4. QED
    BY <1>5, <2>2, <2>3 DEF Do
<1>7. CASE \E s \in using[t], p \in Pointer :
              ptr[s] \in Object /\ todo[t] = <<Do("store", p, s), Release(ptr[s])>>
  <2>1. PICK s \in using[t], p \in Pointer :
              ptr[s] \in Object /\ todo[t] = <<Do("store", p, s), Release(ptr[s])>>
    BY <1>7
  <2>2. todo[t] = StoreSteps(s, p)
    BY <1>1, <2>1, ExplicitPlans
  <2>3. \/ i = 1 /\ todo[t][i] = Do("store", p, s)
        \/ i = 2 /\ todo[t][i] = Release(ptr[s])
    BY <2>1, Parts
  <2>4. state[ptr[s]] = "live"
    BY <1>1, <2>1 DEF LiveKnown
  <2>5. QED
    BY <1>1, <1>5, <2>1, <2>2, <2>3, <2>4 DEF Do, Release
<1>8. ASSUME NEW s \in using[t], NEW p \in Object, Head(todo[t]) = AddRef(p), todo[t] # <<>>,
             todo[t] # <<AddRef(p)>>
      PROVE  state[p] = "live"
  <2>1. NextIs(t, "addref")
    BY <1>8 DEF NextIs, AddRef, Do
  <2>2. \A o : todo[t] # <<AddRef(o)>>
    BY <1>8, CountPlan DEF AddRef, Do
  <2>3. PICK x \in using[t], q \in Object :
           q # Nil /\ todo[t] = AssignSteps(x, q) /\ \E r \in using[t] : ptr[r] = q
    BY <1>1, <2>1, <2>2, PlanCases
  <2>4. q = p
    BY <1>8, <2>3, AssignPlan DEF AddRef, Do
  <2>5. QED
    BY <1>1, <2>3, <2>4 DEF LiveKnown
<1>9. CASE \E s \in using[t], p \in Object :
              ptr[s] = Nil /\ todo[t] = <<AddRef(p), Do("store", p, s)>>
  <2>1. PICK s \in using[t], p \in Object :
              ptr[s] = Nil /\ todo[t] = <<AddRef(p), Do("store", p, s)>>
    BY <1>9
  <2>2. /\ Head(todo[t]) = AddRef(p) /\ todo[t] # <<>> /\ todo[t] # <<AddRef(p)>>
        /\ \/ i = 1 /\ todo[t][i] = AddRef(p)
           \/ i = 2 /\ todo[t][i] = Do("store", p, s)
    BY <2>1, Parts
  <2>3. QED
    BY <1>1, <1>8, <2>2 DEF AddRef, Do
<1>10. CASE \E s \in using[t], p \in Object :
               ptr[s] \in Object /\ todo[t] = <<AddRef(p), Do("store", p, s), Release(ptr[s])>>
  <2>1. PICK s \in using[t], p \in Object :
              ptr[s] \in Object /\ todo[t] = <<AddRef(p), Do("store", p, s), Release(ptr[s])>>
    BY <1>10
  <2>2. /\ Head(todo[t]) = AddRef(p) /\ todo[t] # <<>> /\ todo[t] # <<AddRef(p)>>
        /\ \/ i = 1 /\ todo[t][i] = AddRef(p)
           \/ i = 2 /\ todo[t][i] = Do("store", p, s)
           \/ i = 3 /\ todo[t][i] = Release(ptr[s])
    BY <2>1, Parts
  <2>3. state[ptr[s]] = "live"
    BY <1>1, <2>1 DEF LiveKnown
  <2>4. QED
    BY <1>1, <1>8, <2>1, <2>2, <2>3 DEF AddRef, Do, Release
<1>11. todo[t] # <<>>
  OBVIOUS
<1>12. QED
  BY <1>1, <1>2, <1>3, <1>4, <1>6, <1>7, <1>9, <1>10, <1>11, PlanShapes

\* NoUseAfterDelete.
LEMMA NobodyUsesDeleted == ASSUME RefCountedAssumption, RefInv PROVE NoUseAfterDelete
<1>1. LiveKnown
  BY DEF RefInv
<1>2. QED
  BY <1>1, PlansAreLive DEF NoUseAfterDelete, LiveKnown

\* DestructorSeesUses: nobody holds a reference any more, so that what is known of the
\* object is what was published through its count, and that the deleting thread has read.
LEMMA DestructorKnowsUses == ASSUME RefCountedAssumption, RefInv PROVE DestructorSeesUses
<1>1. SUFFICES ASSUME NEW t \in Thread, NextIs(t, "delete")
      PROVE  uses[Head(todo[t]).obj] \subseteq view[t]
  BY DEF DestructorSeesUses
<1>2. PICK o \in Object : todo[t] = <<Destruction(o)>>
  BY <1>1, PlanCases DEF RefInv, PlansKnown
<1>3. Head(todo[t]).obj = o
  BY <1>2, DestructionPlan
<1>4. state[o] = "live" /\ count[o] = 0 /\ released[o] \subseteq view[t]
  BY <1>2 DEF RefInv, DestructionKnown
<1>5. SlotHolders(o) = {} /\ StoreHolders(o) = {} /\ ReleaseHolders(o) = {}
  BY <1>4, ZeroMeansNobody DEF RefInv
<1>6. Known(o) \subseteq released[o]
  BY <1>5 DEF Known
<1>7. uses[o] \subseteq Known(o)
  BY <1>4 DEF RefInv, MemoryKnown
<1>8. QED
  BY <1>3, <1>4, <1>6, <1>7

\* HasOneRefIsExclusive.
LEMMA OneReferenceIsAll == ASSUME RefCountedAssumption, RefInv PROVE HasOneRefIsExclusive
<1>1. SUFFICES ASSUME NEW t \in Thread, NEW v \in Var, NEW o, o = ptr[v], Idle(t), o # Nil,
                      v \notin Held(t), HasOneRef(o)
      PROVE  /\ {s \in Slot : ptr[s] = o} = {v}
             /\ uses[o] \subseteq view[t] \cup handed[v] \cup released[o]
  BY DEF HasOneRefIsExclusive
<1>2. v \in Slot /\ o \in Object /\ count[o] = 1 /\ RefTypeOK /\ PlansKnown
  BY <1>1 DEF RefInv, RefTypeOK, Slot, Pointer, HasOneRef
<1>3. \A u \in Thread : v \notin using[u]
  BY <1>1 DEF Held, Idle
<1>4. v \in SlotHolders(o)
  BY <1>1, <1>2, <1>3, PlanFacts DEF SlotHolders, PlansKnown
<1>5. SlotHolders(o) = {v} /\ StoreHolders(o) = {} /\ ReleaseHolders(o) = {}
  BY <1>2, <1>4, LastReference
<1>6. \A x \in Slot : ptr[x] = o => x = v
  BY <1>2, <1>3, <1>5, PointersAreHeld DEF ReleaseHolders
<1>7. KnownAt(v) = handed[v]
  BY <1>3 DEF KnownAt
<1>8. Known(o) \subseteq handed[v] \cup released[o]
  BY <1>5, <1>7 DEF Known
<1>9. state[o] = "live"
  BY <1>1, <1>2 DEF RefInv, LiveKnown
<1>10. uses[o] \subseteq Known(o)
  BY <1>2, <1>9 DEF RefInv, MemoryKnown
<1>11. QED
  BY <1>1, <1>2, <1>6, <1>8, <1>10

-----------------------------------------------------------------------------
(* The counting that CountIsPointers does, over steps of plans and over slots, *)
(* reduced to counting threads.                                                *)
LEMMA SameSize ==
  ASSUME NEW S, NEW T, NEW f \in [S -> T], IsFiniteSet(S),
         \A a, b \in S : f[a] = f[b] => a = b,
         \A c \in T : \E a \in S : f[a] = c
  PROVE  Cardinality(S) = Cardinality(T) /\ IsFiniteSet(T)
<1>1. f \in Bijection(S, T)
  BY DEF Bijection, Injection, Surjection, IsInjective
<1>2. ExistsBijection(S, T)
  BY <1>1 DEF ExistsBijection
<1>3. QED
  BY <1>2, FS_Bijection

\* A set is a part of it and the rest.
LEMMA Divided ==
  ASSUME NEW S, IsFiniteSet(S), NEW T, T \subseteq S
  PROVE  /\ IsFiniteSet(T) /\ IsFiniteSet(S \ T)
         /\ Cardinality(S) \in Nat /\ Cardinality(T) \in Nat /\ Cardinality(S \ T) \in Nat
         /\ Cardinality(S) = Cardinality(T) + Cardinality(S \ T)
<1>1. S \cap T = T
  OBVIOUS
<1>2. IsFiniteSet(T)
  BY FS_Subset
<1>3. IsFiniteSet(S \ T) /\ Cardinality(S \ T) = Cardinality(S) - Cardinality(T)
  BY <1>1, FS_Difference
<1>4. QED
  BY <1>2, <1>3, FS_CardinalityType

\* A plan has at most three steps, of each kind at most one, stores at most once, and an
\* object that it has counted, or will count, and not stored, is stored later.
LEMMA PlansAreShort ==
  ASSUME RefCountedAssumption, RefTypeOK, NEW t \in Thread, PlanKnown(t)
  PROVE  /\ DOMAIN todo[t] \subseteq 1..3
         /\ \A i, j \in DOMAIN todo[t] : todo[t][i].do = todo[t][j].do => i = j
         /\ OnlyCounts(todo[t]) => \A i \in DOMAIN todo[t] : todo[t][i].do # "store"
         /\ \A o : (\E i \in DOMAIN todo[t] : todo[t][i].do = "addref" /\ todo[t][i].obj = o)
                     /\ ~OnlyCounts(todo[t])
              <=> (\E i \in DOMAIN todo[t] : todo[t][i].do = "store" /\ todo[t][i].obj = o)
                     /\ ~StoresFirst(todo[t], o)
         /\ \A o : OnlyCounts(todo[t]) =>
              ((\E i \in DOMAIN todo[t] : todo[t][i].do = "addref" /\ todo[t][i].obj = o)
                 <=> Head(todo[t]).obj = o)
<1> DEFINE q == todo[t]
<1>1. CASE q = <<>>
  BY <1>1 DEF OnlyCounts, StoresFirst
<1>2. ASSUME NEW a, q = <<a>>, a.do # "store" PROVE \A o : ~StoresFirst(q, o)
  BY <1>2, Parts DEF StoresFirst
<1>3. CASE \E o \in Object : q = <<AddRef(o)>>
  <2>1. PICK p \in Object : q = <<AddRef(p)>>
    BY <1>3
  <2>2. OnlyCounts(q) /\ Head(q).obj = p
    BY <2>1, CountPlan
  <2>3. DOMAIN q = {1} /\ q[1].do = "addref" /\ q[1].obj = p
    BY <2>1, Parts DEF AddRef, Do
  <2>4. QED
    BY <2>2, <2>3
<1>4. CASE \E o \in Object : q = <<Release(o)>> \/ q = <<Destruction(o)>>
  <2>1. PICK p \in Object : q = <<Release(p)>> \/ q = <<Destruction(p)>>
    BY <1>4
  <2>2. ~OnlyCounts(q)
    BY <2>1, ReleasePlan, DestructionPlan
  <2>3. DOMAIN q = {1} /\ q[1].do # "addref" /\ q[1].do # "store"
    BY <2>1, Parts DEF Release, Destruction, Do
  <2>4. QED
    BY <2>2, <2>3
<1>5. CASE \E s \in using[t], p \in Pointer : ptr[s] = Nil /\ q = <<Do("store", p, s)>>
  <2>1. PICK s \in using[t], p \in Pointer : ptr[s] = Nil /\ q = <<Do("store", p, s)>>
    BY <1>5
  <2>2. ~OnlyCounts(q) /\ \A o : StoresFirst(q, o) <=> o = p
    BY <2>1, StorePlan, ExplicitPlans
  <2>3. DOMAIN q = {1} /\ q[1].do = "store" /\ q[1].obj = p
    BY <2>1, Parts DEF Do
  <2>4. QED
    BY <2>2, <2>3
<1>6. CASE \E s \in using[t], p \in Pointer :
              ptr[s] \in Object /\ q = <<Do("store", p, s), Release(ptr[s])>>
  <2>1. PICK s \in using[t], p \in Pointer :
              ptr[s] \in Object /\ q = <<Do("store", p, s), Release(ptr[s])>>
    BY <1>6
  <2>2. ~OnlyCounts(q) /\ \A o : StoresFirst(q, o) <=> o = p
    <3>1. ptr[s] # Nil
      BY <2>1 DEF RefCountedAssumption
    <3>2. q = StoreSteps(s, p)
      BY <2>1, <3>1, ExplicitPlans
    <3>3. QED
      BY <3>2, StorePlan
  <2>3. /\ DOMAIN q = {1, 2} /\ q[1].do = "store" /\ q[1].obj = p
        /\ q[2].do = "release"
    BY <2>1, Parts DEF Do, Release
  <2>4. QED
    BY <2>2, <2>3
<1>7. CASE \E s \in using[t], p \in Object : ptr[s] = Nil /\ q = <<AddRef(p), Do("store", p, s)>>
  <2>1. PICK s \in using[t], p \in Object : ptr[s] = Nil /\ q = <<AddRef(p), Do("store", p, s)>>
    BY <1>7
  <2>2. ~OnlyCounts(q) /\ \A o : ~StoresFirst(q, o)
    BY <2>1, AssignPlan, ExplicitPlans DEF RefCountedAssumption
  <2>3. /\ DOMAIN q = {1, 2} /\ q[1].do = "addref" /\ q[1].obj = p
        /\ q[2].do = "store" /\ q[2].obj = p
    BY <2>1, Parts DEF Do, AddRef
  <2>4. QED
    BY <2>2, <2>3
<1>8. CASE \E s \in using[t], p \in Object :
              ptr[s] \in Object /\ q = <<AddRef(p), Do("store", p, s), Release(ptr[s])>>
  <2>1. PICK s \in using[t], p \in Object :
              ptr[s] \in Object /\ q = <<AddRef(p), Do("store", p, s), Release(ptr[s])>>
    BY <1>8
  <2>2. ~OnlyCounts(q) /\ \A o : ~StoresFirst(q, o)
    BY <2>1, AssignPlan, ExplicitPlans DEF RefCountedAssumption
  <2>3. /\ DOMAIN q = {1, 2, 3} /\ q[1].do = "addref" /\ q[1].obj = p
        /\ q[2].do = "store" /\ q[2].obj = p /\ q[3].do = "release"
    BY <2>1, Parts DEF Do, AddRef, Release
  <2>4. QED
    BY <2>2, <2>3
<1>9. QED
  BY <1>1, <1>3, <1>4, <1>5, <1>6, <1>7, <1>8, PlanShapes

\* Counting steps is counting threads.
LEMMA StepsAreThreads ==
  ASSUME RefCountedAssumption, RefTypeOK, PlansKnown, NEW what, NEW o
  PROVE  Left(what, o) = Cardinality({t \in Thread :
            \E i \in DOMAIN todo[t] : todo[t][i].do = what /\ todo[t][i].obj = o})
<1> DEFINE T == {t \in Thread : \E i \in DOMAIN todo[t] : todo[t][i].do = what /\ todo[t][i].obj = o}
           M == {m \in Thread \X (1..4) :
                    /\ m[2] \in DOMAIN todo[m[1]]
                    /\ todo[m[1]][m[2]].do = what /\ todo[m[1]][m[2]].obj = o}
           f == [t \in T |-> <<t, CHOOSE i \in DOMAIN todo[t] :
                                      todo[t][i].do = what /\ todo[t][i].obj = o>>]
<1>1. \A t \in Thread : PlanKnown(t)
  BY DEF PlansKnown
<1>2. ASSUME NEW t \in T PROVE /\ f[t][1] = t /\ f[t] \in M
  <2>1. DOMAIN todo[t] \subseteq 1..3
    BY <1>1, PlansAreShort
  <2>2. PICK j : j = CHOOSE i \in DOMAIN todo[t] : todo[t][i].do = what /\ todo[t][i].obj = o
    OBVIOUS
  <2>3. j \in DOMAIN todo[t] /\ todo[t][j].do = what /\ todo[t][j].obj = o
    BY <2>2
  <2>4. f[t] = <<t, j>>
    BY <2>2
  <2>5. <<t, j>> \in M
    BY <2>1, <2>3
  <2>6. QED
    BY <2>4, <2>5
<1>3. f \in [T -> M]
  BY <1>2
<1>4. ASSUME NEW m \in M PROVE \E t \in T : f[t] = m
  <2>1. /\ m[1] \in T /\ m = <<m[1], m[2]>> /\ m[2] \in DOMAIN todo[m[1]]
        /\ todo[m[1]][m[2]].do = what
    OBVIOUS
  <2>2. f[m[1]] \in M /\ f[m[1]][1] = m[1]
    BY <1>2, <2>1
  <2>3. PICK n \in M : n = f[m[1]] /\ n[1] = m[1]
    BY <2>2
  <2>4. n = <<m[1], n[2]>> /\ n[2] \in DOMAIN todo[m[1]] /\ todo[m[1]][n[2]].do = what
    BY <2>3
  <2>5. n[2] = m[2]
    BY <1>1, <2>1, <2>4, PlansAreShort
  <2>6. QED
    BY <2>1, <2>3, <2>4, <2>5
<1>5. IsFiniteSet(T)
  BY FS_Subset DEF RefCountedAssumption
<1>6. Cardinality(T) = Cardinality(M)
  <2>1. \A a, b \in T : f[a] = f[b] => a = b
    BY <1>2
  <2> HIDE DEF f, T, M
  <2>2. QED
    BY <1>3, <1>4, <1>5, <2>1, SameSize
<1>7. QED
  BY <1>6 DEF Left

\* The same of the pointers that are about to be overwritten.
LEMMA StoresAreThreads ==
  ASSUME RefCountedAssumption, RefTypeOK, PlansKnown, NEW o
  PROVE  Overwritten(o) = Cardinality({t \in Thread :
            \E i \in DOMAIN todo[t] : todo[t][i].do = "store" /\ ptr[todo[t][i].slot] = o})
<1> DEFINE T == {t \in Thread :
                    \E i \in DOMAIN todo[t] : todo[t][i].do = "store" /\ ptr[todo[t][i].slot] = o}
           M == {m \in Thread \X (1..4) :
                    /\ m[2] \in DOMAIN todo[m[1]]
                    /\ todo[m[1]][m[2]].do = "store" /\ ptr[todo[m[1]][m[2]].slot] = o}
           f == [t \in T |-> <<t, CHOOSE i \in DOMAIN todo[t] :
                                      todo[t][i].do = "store" /\ ptr[todo[t][i].slot] = o>>]
<1>1. \A t \in Thread : PlanKnown(t)
  BY DEF PlansKnown
<1>2. ASSUME NEW t \in T PROVE /\ f[t][1] = t /\ f[t] \in M
  <2>1. DOMAIN todo[t] \subseteq 1..3
    BY <1>1, PlansAreShort
  <2>2. PICK j : j = CHOOSE i \in DOMAIN todo[t] :
                        todo[t][i].do = "store" /\ ptr[todo[t][i].slot] = o
    OBVIOUS
  <2>3. j \in DOMAIN todo[t] /\ todo[t][j].do = "store" /\ ptr[todo[t][j].slot] = o
    BY <2>2
  <2>4. f[t] = <<t, j>>
    BY <2>2
  <2>5. <<t, j>> \in M
    BY <2>1, <2>3
  <2>6. QED
    BY <2>4, <2>5
<1>3. f \in [T -> M]
  BY <1>2
<1>4. ASSUME NEW m \in M PROVE \E t \in T : f[t] = m
  <2>1. /\ m[1] \in T /\ m = <<m[1], m[2]>> /\ m[2] \in DOMAIN todo[m[1]]
        /\ todo[m[1]][m[2]].do = "store"
    OBVIOUS
  <2>2. f[m[1]] \in M /\ f[m[1]][1] = m[1]
    BY <1>2, <2>1
  <2>3. PICK n \in M : n = f[m[1]] /\ n[1] = m[1]
    BY <2>2
  <2>4. n = <<m[1], n[2]>> /\ n[2] \in DOMAIN todo[m[1]] /\ todo[m[1]][n[2]].do = "store"
    BY <2>3
  <2>5. n[2] = m[2]
    BY <1>1, <2>1, <2>4, PlansAreShort
  <2>6. QED
    BY <2>1, <2>3, <2>4, <2>5
<1>5. IsFiniteSet(T)
  BY FS_Subset DEF RefCountedAssumption
<1>6. Cardinality(T) = Cardinality(M)
  <2>1. \A a, b \in T : f[a] = f[b] => a = b
    BY <1>2
  <2> HIDE DEF f, T, M
  <2>2. QED
    BY <1>3, <1>4, <1>5, <2>1, SameSize
<1>7. QED
  BY <1>6 DEF Overwritten

\* A thread disturbs one slot at most, and only it does.
LEMMA DisturbsOne ==
  ASSUME RefCountedAssumption, RefInv, NEW t \in Thread, NEW x, NEW y, Disturbs(t, x),
         Disturbs(t, y)
  PROVE  x = y
<1>1. RefTypeOK /\ PlanKnown(t)
  BY DEF RefInv, PlansKnown
<1>2. OnlyCounts(todo[t]) => ~Stores(todo[t], x) /\ ~Stores(todo[t], y)
  BY <1>1, PlansAreShort DEF Stores
<1>3. Stores(todo[t], x) /\ Stores(todo[t], y) => x = y
  BY <1>1, PlansAreShort DEF Stores
<1>4. QED
  BY <1>2, <1>3 DEF Disturbs

\* The pointers to an object that are not references, are those that a thread disturbs.
LEMMA DisturbedSlots ==
  ASSUME RefCountedAssumption, RefInv, NEW o \in Object
  PROVE  Cardinality({s \in Slot : ptr[s] = o} \ SlotHolders(o))
           = Cardinality({t \in Thread : \E s : Disturbs(t, s) /\ ptr[s] = o})
<1> DEFINE T == {t \in Thread : \E s : Disturbs(t, s) /\ ptr[s] = o}
           S == {s \in Slot : ptr[s] = o} \ SlotHolders(o)
           f == [t \in T |-> CHOOSE s : Disturbs(t, s) /\ ptr[s] = o]
<1>1. RefTypeOK /\ PlansKnown /\ using \in [Thread -> SUBSET Slot] /\ UsingKnown
  BY DEF RefInv, RefTypeOK
<1>2. ASSUME NEW t \in T
      PROVE  Disturbs(t, f[t]) /\ ptr[f[t]] = o /\ f[t] \in using[t] /\ f[t] \in S
  <2>1. Disturbs(t, f[t]) /\ ptr[f[t]] = o
    OBVIOUS
  <2>2. f[t] \in using[t]
    BY <1>1, <2>1, PlanFacts DEF PlansKnown
  <2>3. QED
    BY <1>1, <2>1, <2>2 DEF SlotHolders
<1>3. ASSUME NEW s \in S PROVE \E t \in T : f[t] = s
  <2>1. PICK t \in Thread : Disturbs(t, s)
    BY DEF SlotHolders
  <2>2. t \in T /\ Disturbs(t, f[t])
    BY <1>2, <2>1
  <2>3. QED
    BY <2>1, <2>2, DisturbsOne
<1>4. ASSUME NEW t \in T, NEW u \in T, f[t] = f[u] PROVE t = u
  <2>1. f[t] \in using[t] /\ f[u] \in using[u] /\ t \in Thread /\ u \in Thread
    BY <1>2
  <2> HIDE DEF f, T
  <2>2. QED
    BY <1>1, <1>4, <2>1 DEF UsingKnown
<1>5. IsFiniteSet(T)
  BY FS_Subset DEF RefCountedAssumption
<1>6. f \in [T -> S]
  BY <1>2
<1>7. Cardinality(T) = Cardinality(S)
  <2> HIDE DEF f, T, S
  <2>1. QED
    BY <1>3, <1>4, <1>5, <1>6, SameSize
<1>8. QED
  BY <1>7

\* CountIsPointers.
LEMMA CountsArePointers == ASSUME RefCountedAssumption, RefInv PROVE CountIsPointers
<1>1. RefTypeOK /\ PlansKnown /\ CountKnown /\ IsFiniteSet(Thread)
  BY DEF RefInv, RefCountedAssumption
<1>2. SUFFICES ASSUME NEW o \in Object
      PROVE  count[o] + Left("addref", o) =
                Cardinality({s \in Slot : ptr[s] = o}) - Overwritten(o)
                   + Left("store", o) + Left("release", o)
  BY DEF CountIsPointers
<1> DEFINE A == {t \in Thread : \E i \in DOMAIN todo[t] :
                                   todo[t][i].do = "addref" /\ todo[t][i].obj = o}
           B == {t \in Thread : OnlyCounts(todo[t]) /\ Head(todo[t]).obj = o}
           S == {t \in Thread : \E i \in DOMAIN todo[t] :
                                   todo[t][i].do = "store" /\ todo[t][i].obj = o}
           O == {t \in Thread : \E i \in DOMAIN todo[t] :
                                   todo[t][i].do = "store" /\ ptr[todo[t][i].slot] = o}
           D == {t \in Thread : \E s : Disturbs(t, s) /\ ptr[s] = o}
           P == {s \in Slot : ptr[s] = o}
<1>3. /\ Left("addref", o) = Cardinality(A) /\ Left("store", o) = Cardinality(S)
      /\ Left("release", o) = Cardinality(ReleaseHolders(o)) /\ Overwritten(o) = Cardinality(O)
  <2>1. ReleaseHolders(o) = {t \in Thread : \E i \in DOMAIN todo[t] :
                                   todo[t][i].do = "release" /\ todo[t][i].obj = o}
    BY DEF ReleaseHolders, Releases
  <2>2. Left("addref", o) = Cardinality(A)
    BY <1>1, StepsAreThreads
  <2>3. Left("store", o) = Cardinality(S)
    BY <1>1, StepsAreThreads
  <2>4. Left("release", o) = Cardinality(ReleaseHolders(o))
    BY <1>1, <2>1, StepsAreThreads
  <2>5. Overwritten(o) = Cardinality(O)
    BY <1>1, StoresAreThreads
  <2>6. QED
    BY <2>2, <2>3, <2>4, <2>5
<1>4. /\ B \subseteq A /\ StoreHolders(o) \subseteq S /\ A \ B = S \ StoreHolders(o)
  <2>1. ASSUME NEW t \in Thread
        PROVE  /\ t \in B => t \in A
               /\ t \in A /\ t \notin B <=> t \in S /\ t \notin StoreHolders(o)
    <3>1. PlanKnown(t)
      BY <1>1 DEF PlansKnown
    <3>2. t \in A /\ OnlyCounts(todo[t]) <=> t \in B
      BY <1>1, <3>1, PlansAreShort
    <3>3. t \in A /\ ~OnlyCounts(todo[t]) <=> t \in S /\ ~StoresFirst(todo[t], o)
      BY <1>1, <3>1, PlansAreShort
    <3>4. QED
      BY <3>2, <3>3 DEF StoreHolders
  <2>2. StoreHolders(o) \subseteq S
    <3>1. SUFFICES ASSUME NEW t \in Thread, StoresFirst(todo[t], o) PROVE t \in S
      BY DEF StoreHolders
    <3>2. todo[t] \in Seq(Micro) /\ todo[t] # <<>> /\ Head(todo[t]).do = "store" /\ Head(todo[t]).obj = o
      BY <1>1, <3>1 DEF RefTypeOK, StoresFirst
    <3>3. 1 \in DOMAIN todo[t] /\ todo[t][1] = Head(todo[t])
      BY <3>2
    <3>4. QED
      BY <3>2, <3>3
  <2>3. QED
    BY <2>1, <2>2 DEF StoreHolders
<1>5. D \ O = B /\ O \subseteq D
  <2>1. ASSUME NEW t \in Thread PROVE t \in O <=> \E s : Stores(todo[t], s) /\ ptr[s] = o
    BY DEF Stores
  <2>2. ASSUME NEW t \in B PROVE t \in D /\ t \notin O
    <3>1. PlanKnown(t) /\ OnlyCounts(todo[t]) /\ Head(todo[t]).obj = o
      BY <1>1 DEF PlansKnown
    <3>2. ptr[FreshSlot(t)] = o /\ Disturbs(t, FreshSlot(t))
      BY <1>1, <3>1, PlanFacts DEF Disturbs
    <3>3. \A i \in DOMAIN todo[t] : todo[t][i].do # "store"
      BY <1>1, <3>1, PlansAreShort
    <3>4. QED
      BY <3>2, <3>3
  <2>3. ASSUME NEW t \in D, t \notin O PROVE t \in B
    <3>1. PICK s : Disturbs(t, s) /\ ptr[s] = o
      OBVIOUS
    <3>2. OnlyCounts(todo[t]) /\ s = FreshSlot(t)
      BY <2>1, <2>3, <3>1 DEF Disturbs
    <3>3. Head(todo[t]).obj = o
      BY <1>1, <3>1, <3>2, PlanFacts DEF PlansKnown
    <3>4. QED
      BY <3>2, <3>3
  <2>4. O \subseteq D
    BY <2>1 DEF Disturbs
  <2>5. QED
    BY <2>2, <2>3, <2>4
<1>6. Cardinality(P \ SlotHolders(o)) = Cardinality(D)
  BY DisturbedSlots
<1>7. SlotHolders(o) \subseteq P /\ IsFiniteSet(P)
  BY HoldersFinite, FS_Subset DEF SlotHolders
<1>8. IsFiniteSet(A) /\ IsFiniteSet(S) /\ IsFiniteSet(D)
  BY <1>1, FS_Subset
<1>9. count[o] = Cardinality(SlotHolders(o)) + Cardinality(StoreHolders(o))
                    + Cardinality(ReleaseHolders(o))
  BY <1>1 DEF CountKnown
<1>10. Cardinality(ReleaseHolders(o)) \in Nat
  BY HoldersFinite
<1> HIDE DEF A, B, S, O, D, P
<1>11. /\ Cardinality(A) = Cardinality(B) + Cardinality(A \ B)
       /\ Cardinality(A) \in Nat /\ Cardinality(B) \in Nat /\ Cardinality(A \ B) \in Nat
  BY <1>4, <1>8, Divided
<1>12. /\ Cardinality(S) = Cardinality(StoreHolders(o)) + Cardinality(S \ StoreHolders(o))
       /\ Cardinality(S) \in Nat /\ Cardinality(StoreHolders(o)) \in Nat
  BY <1>4, <1>8, Divided
<1>13. /\ Cardinality(D) = Cardinality(O) + Cardinality(B)
       /\ Cardinality(D) \in Nat /\ Cardinality(O) \in Nat
  BY <1>5, <1>8, Divided
<1>14. /\ Cardinality(P) = Cardinality(SlotHolders(o)) + Cardinality(P \ SlotHolders(o))
       /\ Cardinality(P) \in Nat /\ Cardinality(SlotHolders(o)) \in Nat
  BY <1>7, Divided
<1>15. count[o] + Cardinality(A) = Cardinality(P) - Cardinality(O) + Cardinality(S)
                                     + Cardinality(ReleaseHolders(o))
  <2>1. Cardinality(A \ B) = Cardinality(S \ StoreHolders(o))
    BY <1>4
  <2>2. ASSUME NEW a \in Nat, NEW b \in Nat, NEW ab \in Nat, NEW s \in Nat, NEW st \in Nat,
               NEW d \in Nat, NEW ow \in Nat, NEW p \in Nat, NEW sl \in Nat, NEW r \in Nat,
               a = b + ab, s = st + ab, d = ow + b, p = sl + d
        PROVE  sl + st + r + a = p - ow + s + r
    BY <2>2
  <2>3. QED
    BY <1>6, <1>9, <1>10, <1>11, <1>12, <1>13, <1>14, <2>1, <2>2
<1>16. QED
  BY <1>3, <1>15 DEF P

\* All of it together.
LEMMA RefInvMeansSafe == ASSUME RefCountedAssumption, RefInv PROVE RefsAreSafe
BY CountsArePointers, NobodyUsesDeleted, DestructorKnowsUses, OneReferenceIsAll
   DEF RefInv, RefsAreSafe

\* RefsAreSafe: a count is the number of references that exist; no operation of any thread
\* touches an object after its deletion; the destructor sees every use of the object; and a
\* variable whose HasOneRef is true is the only pointer to the object.
THEOREM RefsAlwaysSafe == ASSUME RefCountedAssumption PROVE RefSpec => []RefsAreSafe
<1>1. RefSpec => []RefInv
  BY RefInvariantHolds
<1>2. RefInv => RefsAreSafe
  BY RefInvMeansSafe
<1>3. QED
  BY <1>1, <1>2, PTL

-----------------------------------------------------------------------------
(* Callback: the counts.                                                    *)

One(x, b) == IF x = b THEN 1 ELSE 0

Heaps == [refs : [BindState -> Nat], dead : SUBSET BindState]

\* What is destroyed has no references.
Sound(h) == h \in Heaps /\ \A b \in h.dead : h.refs[b] = 0

Changed(h, g, plus, minus) ==
    \A b \in BindState : g.refs[b] = h.refs[b] + One(plus, b) - One(minus, b)

\* One reference more.
LEMMA AddEffect ==
  ASSUME CallbackAssumption, NEW h, Sound(h), NEW x \in BindState \cup {NoBind}, x \notin h.dead
  PROVE  Sound(AddBindRef(h, x)) /\ Changed(h, AddBindRef(h, x), x, NoBind)
<1>1. CASE x = NoBind
  BY <1>1 DEF AddBindRef, Changed, Sound, Heaps, One, CallbackAssumption
<1>2. CASE x # NoBind
  <2> DEFINE g == [refs |-> [h.refs EXCEPT ![x] = @ + 1], dead |-> h.dead]
  <2>1. x \in BindState /\ AddBindRef(h, x) = g
    BY <1>2 DEF AddBindRef
  <2>2. /\ g \in Heaps /\ g.dead = h.dead
        /\ \A b \in BindState : g.refs[b] = IF b = x THEN h.refs[b] + 1 ELSE h.refs[b]
    BY <2>1 DEF Sound, Heaps
  <2>3. Sound(g)
    BY <2>2 DEF Sound, Heaps
  <2>4. Changed(h, g, x, NoBind)
    BY <2>2 DEF Sound, Heaps, Changed, One, CallbackAssumption
  <2>5. QED
    BY <2>1, <2>3, <2>4
<1>3. QED
  BY <1>1, <1>2

\* One reference less, and what has none is destroyed.
LEMMA ReleaseEffect ==
  ASSUME CallbackAssumption, NEW h, Sound(h), NEW x \in BindState \cup {NoBind},
         x # NoBind => h.refs[x] >= 1
  PROVE  Sound(ReleaseBind(h, x)) /\ Changed(h, ReleaseBind(h, x), NoBind, x)
<1>1. CASE x = NoBind
  BY <1>1 DEF ReleaseBind, Changed, Sound, Heaps, One, CallbackAssumption
<1>2. CASE x # NoBind
  <2> DEFINE g == ReleaseBind(h, x)
  <2>1. x \in BindState /\ h.refs[x] \in Nat \ {0}
    BY <1>2 DEF Sound, Heaps
  <2>2. /\ g \in Heaps
        /\ g.dead = IF h.refs[x] = 1 THEN h.dead \cup {x} ELSE h.dead
        /\ \A b \in BindState : g.refs[b] = IF b = x THEN h.refs[b] - 1 ELSE h.refs[b]
    BY <1>2, <2>1 DEF Sound, Heaps, ReleaseBind
  <2> HIDE DEF g
  <2>3. Sound(g)
    BY <2>1, <2>2 DEF Sound, Heaps
  <2>4. Changed(h, g, NoBind, x)
    BY <2>2 DEF Sound, Heaps, Changed, One, CallbackAssumption
  <2>5. QED
    BY <2>3, <2>4 DEF g
<1>3. QED
  BY <1>1, <1>2

\* A new reference, then an old one less.
LEMMA ReassignEffect ==
  ASSUME CallbackAssumption, NEW h, Sound(h),
         NEW x \in BindState \cup {NoBind}, x \notin h.dead,
         NEW old \in BindState \cup {NoBind}, old # NoBind => h.refs[old] >= 1 \/ old = x
  PROVE  LET g == ReleaseBind(AddBindRef(h, x), old)
         IN  Sound(g) /\ Changed(h, g, x, old)
<1> DEFINE k == AddBindRef(h, x)
           g == ReleaseBind(k, old)
<1>1. Sound(k) /\ Changed(h, k, x, NoBind)
  BY AddEffect
<1> HIDE DEF k
<1>2. old # NoBind => k.refs[old] >= 1
  BY <1>1 DEF Changed, Sound, Heaps, One
<1>3. Sound(g) /\ Changed(k, g, NoBind, old)
  BY <1>1, <1>2, ReleaseEffect
<1> HIDE DEF g
<1>4. Changed(h, g, x, old)
  BY <1>1, <1>3 DEF Changed, Sound, Heaps, One, CallbackAssumption
<1>5. QED
  BY <1>3, <1>4 DEF g, k

-----------------------------------------------------------------------------
(* Callback: who holds what.                                                *)

\* The bind state that r keeps, if it lives.
Kept(r) == IF runners[r] = "live" THEN bind_state[r] ELSE NoBind

\* There are finitely many holders.
LEMMA HoldersAreFinite ==
  ASSUME CallbackAssumption, ClosureTypeOK, NEW b \in BindState
  PROVE  /\ IsFiniteSet(Holders(b)) /\ Cardinality(Holders(b)) \in Nat
         /\ IsFiniteSet(LocalCopies(b)) /\ Cardinality(LocalCopies(b)) \in Nat
         /\ IsFiniteSet(Keepers(b)) /\ Cardinality(Keepers(b)) \in Nat
<1>1. IsFiniteSet(Callbacks) /\ IsFiniteSet(Runner)
  BY FS_Union DEF CallbackAssumption, Callbacks
<1>2. IsFiniteSet(DOMAIN stack)
  <2>1. DOMAIN stack = 1..Len(stack) /\ Len(stack) \in Nat
    BY DEF ClosureTypeOK
  <2>2. QED
    BY <2>1, FS_Interval
<1>3. Holders(b) \subseteq Callbacks /\ LocalCopies(b) \subseteq DOMAIN stack
      /\ Keepers(b) \subseteq Runner
  BY DEF Holders, LocalCopies, Keepers
<1>4. QED
  BY <1>1, <1>2, <1>3, FS_Subset, FS_CardinalityType

\* One callback gets another bind state.
LEMMA HoldersBecome ==
  ASSUME CallbackAssumption, ClosureTypeOK, NEW c \in Callbacks,
         NEW x \in BindState \cup {NoBind}, NEW f, Becomes(c, x, f), NEW b \in BindState
  PROVE  /\ Cardinality(Holders(b)') \in Nat
         /\ Cardinality(Holders(b)') = Cardinality(Holders(b)) + One(x, b)
                                                              - One(bind_state[c], b)
<1>1. \A y : y # c => (y \in Holders(b) <=> y \in Holders(b)')
  BY DEF Holders, ClosureTypeOK, Becomes
<1>2. (c \in Holders(b) <=> bind_state[c] = b) /\ (c \in Holders(b)' <=> x = b)
  BY DEF Holders, ClosureTypeOK, Becomes
<1>3. IsFiniteSet(Holders(b))
  BY HoldersAreFinite
<1>4. /\ Cardinality(Holders(b)) \in Nat /\ Cardinality(Holders(b)') \in Nat
      /\ Cardinality(Holders(b)') + (IF c \in Holders(b) THEN 1 ELSE 0)
           = Cardinality(Holders(b)) + (IF c \in Holders(b)' THEN 1 ELSE 0)
  BY <1>1, <1>3, ChangeOne
<1>5. QED
  BY <1>2, <1>4 DEF One

\* One takes that of another.
Takes(c, d) == bind_state' = [bind_state EXCEPT ![d] = NoBind, ![c] = bind_state[d]]

\* The one has what the other had, and the other has nothing.
LEMMA HoldersMove ==
  ASSUME CallbackAssumption, ClosureTypeOK, NEW c \in Callbacks, NEW d \in Callbacks, c # d,
         Takes(c, d), NEW b \in BindState
  PROVE  /\ Cardinality(Holders(b)') \in Nat
         /\ Cardinality(Holders(b)') = Cardinality(Holders(b)) - One(bind_state[c], b)
<1>1. \A y : y # c /\ y # d => (y \in Holders(b) <=> y \in Holders(b)')
  BY DEF Holders, ClosureTypeOK, Takes
<1>2. /\ c \in Holders(b) <=> bind_state[c] = b
      /\ c \in Holders(b)' <=> bind_state[d] = b
      /\ d \in Holders(b) <=> bind_state[d] = b
      /\ d \notin Holders(b)'
  BY DEF Holders, ClosureTypeOK, Takes, CallbackAssumption
<1>3. IsFiniteSet(Holders(b))
  BY HoldersAreFinite
<1>4. /\ Cardinality(Holders(b)) \in Nat /\ Cardinality(Holders(b)') \in Nat
      /\ Cardinality(Holders(b)') + One(bind_state[c], b) + One(bind_state[d], b)
           = Cardinality(Holders(b)) + One(bind_state[d], b)
  <2>1. /\ Cardinality(Holders(b)) \in Nat /\ Cardinality(Holders(b)') \in Nat
        /\ Cardinality(Holders(b)') + (IF c \in Holders(b) THEN 1 ELSE 0)
                                    + (IF d \in Holders(b) THEN 1 ELSE 0)
             = Cardinality(Holders(b)) + (IF c \in Holders(b)' THEN 1 ELSE 0)
                                       + (IF d \in Holders(b)' THEN 1 ELSE 0)
    BY <1>1, <1>3, ChangeTwo
  <2>2. QED
    BY <1>2, <2>1 DEF One
<1>5. QED
  BY <1>4 DEF One

\* A closure begins to run.
LEMMA CopiesPush ==
  ASSUME CallbackAssumption, ClosureTypeOK, NEW x \in BindState, NEW y \in Callbacks \cup {NoBind},
         Enter(x, y), NEW b \in BindState
  PROVE  /\ Cardinality(LocalCopies(b)') \in Nat
         /\ Cardinality(LocalCopies(b)') = Cardinality(LocalCopies(b))
                                           + (IF y = NoBind THEN One(x, b) ELSE 0)
<1> DEFINE n == Len(stack) + 1
           f == [bind |-> x, through |-> y]
<1>1. /\ f \in Frame /\ stack \in Seq(Frame) /\ Len(stack) \in Nat /\ stack' = Append(stack, f)
  BY DEF Enter, ClosureTypeOK, Frame
<1>2. /\ DOMAIN stack = 1..Len(stack) /\ DOMAIN stack' = 1..n /\ stack'[n] = f
      /\ \A i \in 1..Len(stack) : stack'[i] = stack[i]
  BY <1>1
<1>3. \A i : i # n => (i \in LocalCopies(b) <=> i \in LocalCopies(b)')
  <2>1. \A i : i # n => (i \in 1..n <=> i \in 1..Len(stack))
    BY <1>1
  <2>2. QED
    BY <1>2, <2>1 DEF LocalCopies
<1>4. n \notin LocalCopies(b) /\ (n \in LocalCopies(b)' <=> f = [bind |-> b, through |-> NoBind])
  BY <1>1, <1>2 DEF LocalCopies
<1>5. f = [bind |-> b, through |-> NoBind] <=> x = b /\ y = NoBind
  OBVIOUS
<1>6. IsFiniteSet(LocalCopies(b))
  BY HoldersAreFinite
<1> HIDE DEF n, f
<1>7. /\ Cardinality(LocalCopies(b)) \in Nat /\ Cardinality(LocalCopies(b)') \in Nat
      /\ Cardinality(LocalCopies(b)') + (IF n \in LocalCopies(b) THEN 1 ELSE 0)
           = Cardinality(LocalCopies(b)) + (IF n \in LocalCopies(b)' THEN 1 ELSE 0)
  BY <1>3, <1>6, ChangeOne
<1>8. QED
  BY <1>4, <1>5, <1>7 DEF One

\* ... and returns.
LEMMA CopiesPop ==
  ASSUME CallbackAssumption, ClosureTypeOK, stack # <<>>,
         stack' = SubSeq(stack, 1, Len(stack) - 1), NEW b \in BindState
  PROVE  LET f == stack[Len(stack)]
         IN  /\ Cardinality(LocalCopies(b)') \in Nat
             /\ Cardinality(LocalCopies(b)') = Cardinality(LocalCopies(b))
                                               - (IF f.through = NoBind THEN One(f.bind, b) ELSE 0)
<1> DEFINE n == Len(stack)
           f == stack[n]
<1>1. stack \in Seq(Frame) /\ n \in Nat \ {0}
  BY DEF ClosureTypeOK
<1>2. /\ DOMAIN stack = 1..n /\ DOMAIN stack' = 1..(n - 1) /\ f \in Frame
      /\ \A i \in 1..(n - 1) : stack'[i] = stack[i]
  BY <1>1
<1>3. \A i : i # n => (i \in LocalCopies(b) <=> i \in LocalCopies(b)')
  <2>1. \A i : i # n => (i \in 1..n <=> i \in 1..(n - 1))
    BY <1>1
  <2>2. QED
    BY <1>2, <2>1 DEF LocalCopies
<1>4. n \notin LocalCopies(b)' /\ (n \in LocalCopies(b) <=> f = [bind |-> b, through |-> NoBind])
  BY <1>1, <1>2 DEF LocalCopies
<1>5. f = [bind |-> b, through |-> NoBind] <=> f.bind = b /\ f.through = NoBind
  BY <1>2 DEF Frame
<1>6. IsFiniteSet(LocalCopies(b))
  BY HoldersAreFinite
<1> HIDE DEF n, f
<1>7. /\ Cardinality(LocalCopies(b)) \in Nat /\ Cardinality(LocalCopies(b)') \in Nat
      /\ Cardinality(LocalCopies(b)') + (IF n \in LocalCopies(b) THEN 1 ELSE 0)
           = Cardinality(LocalCopies(b)) + (IF n \in LocalCopies(b)' THEN 1 ELSE 0)
  BY <1>3, <1>6, ChangeOne
<1>8. /\ Cardinality(LocalCopies(b)') \in Nat
      /\ Cardinality(LocalCopies(b)') = Cardinality(LocalCopies(b))
                                        - (IF f.through = NoBind THEN One(f.bind, b) ELSE 0)
  BY <1>4, <1>5, <1>7 DEF One
<1>9. QED
  BY <1>8 DEF n, f

\* One runner changes.
LEMMA KeepersChange ==
  ASSUME CallbackAssumption, ClosureTypeOK, NEW r \in Runner,
         \A q \in Runner \ {r} : Kept(q)' = Kept(q), NEW b \in BindState
  PROVE  /\ Cardinality(Keepers(b)') \in Nat
         /\ Cardinality(Keepers(b)') = Cardinality(Keepers(b)) + One(Kept(r)', b) - One(Kept(r), b)
<1>1. \A q \in Runner : (q \in Keepers(b) <=> Kept(q) = b) /\ (q \in Keepers(b)' <=> Kept(q)' = b)
  BY DEF Keepers, Kept, Live, CallbackAssumption
<1>2. \A q : q # r => (q \in Keepers(b) <=> q \in Keepers(b)')
  BY <1>1 DEF Keepers
<1>3. IsFiniteSet(Keepers(b))
  BY HoldersAreFinite
<1>4. /\ Cardinality(Keepers(b)) \in Nat /\ Cardinality(Keepers(b)') \in Nat
      /\ Cardinality(Keepers(b)') + (IF r \in Keepers(b) THEN 1 ELSE 0)
           = Cardinality(Keepers(b)) + (IF r \in Keepers(b)' THEN 1 ELSE 0)
  BY <1>2, <1>3, ChangeOne
<1>5. QED
  BY <1>1, <1>4 DEF One

\* Two of them do.
LEMMA KeepersExchange ==
  ASSUME CallbackAssumption, ClosureTypeOK, NEW r \in Runner, NEW o \in Runner, r # o,
         \A q \in Runner \ {r, o} : Kept(q)' = Kept(q), NEW b \in BindState
  PROVE  /\ Cardinality(Keepers(b)') \in Nat
         /\ Cardinality(Keepers(b)') = Cardinality(Keepers(b)) + One(Kept(r)', b) - One(Kept(r), b)
                                                              + One(Kept(o)', b) - One(Kept(o), b)
<1>1. \A q \in Runner : (q \in Keepers(b) <=> Kept(q) = b) /\ (q \in Keepers(b)' <=> Kept(q)' = b)
  BY DEF Keepers, Kept, Live, CallbackAssumption
<1>2. \A q : q # r /\ q # o => (q \in Keepers(b) <=> q \in Keepers(b)')
  BY <1>1 DEF Keepers
<1>3. IsFiniteSet(Keepers(b))
  BY HoldersAreFinite
<1>4. /\ Cardinality(Keepers(b)) \in Nat /\ Cardinality(Keepers(b)') \in Nat
      /\ Cardinality(Keepers(b)') + (IF r \in Keepers(b) THEN 1 ELSE 0)
                                  + (IF o \in Keepers(b) THEN 1 ELSE 0)
           = Cardinality(Keepers(b)) + (IF r \in Keepers(b)' THEN 1 ELSE 0)
                                     + (IF o \in Keepers(b)' THEN 1 ELSE 0)
  BY <1>2, <1>3, ChangeTwo
<1>5. QED
  BY <1>1, <1>4 DEF One

-----------------------------------------------------------------------------
(* Callback: what steps have in common.                                     *)

\* Nothing changes.
LEMMA ClosureStutter ==
  ASSUME ClosureInv, UNCHANGED closureVars
  PROVE  ClosureInv'
<1>1. /\ bind_state' = bind_state /\ invoke' = invoke /\ binds' = binds
      /\ runners' = runners /\ stack' = stack /\ owed' = owed
  BY DEF closureVars
<1>2. ASSUME NEW b \in BindState
      PROVE  /\ Holders(b)' = Holders(b) /\ LocalCopies(b)' = LocalCopies(b)
             /\ Keepers(b)' = Keepers(b)
  BY <1>1 DEF Holders, LocalCopies, Keepers, Live
<1>3. ClosureTypeOK' /\ RunnersKnown' /\ FunctionsKnown'
  BY <1>1 DEF ClosureInv, ClosureTypeOK, RunnersKnown, FunctionsKnown
<1>4. FramesKnown'
  BY <1>1 DEF ClosureInv, FramesKnown
<1>5. DestroyedWithTheLast'
  BY <1>1, <1>2 DEF ClosureInv, DestroyedWithTheLast
<1>6. RunsOnce'
  BY <1>1, <1>2 DEF ClosureInv, RunsOnce
<1>7. QED
  BY <1>3, <1>4, <1>5, <1>6 DEF ClosureInv

\* What is held has not been destroyed.
LEMMA HeldIsLive ==
  ASSUME CallbackAssumption, ClosureInv, NEW b \in BindState,
         Holders(b) # {} \/ LocalCopies(b) # {}
  PROVE  binds.refs[b] >= 1 /\ b \notin binds.dead
<1>1. /\ IsFiniteSet(Holders(b)) /\ Cardinality(Holders(b)) \in Nat
      /\ IsFiniteSet(LocalCopies(b)) /\ Cardinality(LocalCopies(b)) \in Nat
  BY HoldersAreFinite DEF ClosureInv
<1>2. Cardinality(Holders(b)) # 0 \/ Cardinality(LocalCopies(b)) # 0
  BY <1>1, FS_EmptySet
<1>3. /\ binds.refs[b] = Cardinality(Holders(b)) + Cardinality(LocalCopies(b))
      /\ b \in binds.dead => binds.refs[b] = 0
  BY DEF ClosureInv, DestroyedWithTheLast
<1>4. QED
  BY <1>1, <1>2, <1>3

\* What a callback has is not destroyed.
LEMMA HeldByCallback ==
  ASSUME CallbackAssumption, ClosureInv, NEW c \in Callbacks
  PROVE  /\ bind_state[c] \in BindState \cup {NoBind} /\ bind_state[c] \notin binds.dead
         /\ bind_state[c] # NoBind => binds.refs[bind_state[c]] >= 1
<1>1. bind_state[c] \in BindState \cup {NoBind} /\ NoBind \notin binds.dead
  BY DEF ClosureInv, ClosureTypeOK, CallbackAssumption
<1>2. ASSUME bind_state[c] # NoBind
      PROVE  bind_state[c] \notin binds.dead /\ binds.refs[bind_state[c]] >= 1
  <2>1. bind_state[c] \in BindState /\ c \in Holders(bind_state[c])
    BY <1>1, <1>2 DEF Holders
  <2>2. QED
    BY <2>1, HeldIsLive
<1>3. QED
  BY <1>1, <1>2

\* The counts as the invariant has them.
LEMMA BindsAreSound ==
  ASSUME ClosureInv
  PROVE  Sound(binds)
  BY DEF ClosureInv, ClosureTypeOK, DestroyedWithTheLast, Sound, Heaps

\* The counts follow the holders.
LEMMA Counted ==
  ASSUME ClosureInv, NEW plus, NEW minus,
         Sound(binds'), Changed(binds, binds', plus, minus),
         \A b \in BindState :
            /\ Cardinality(Holders(b)') \in Nat /\ Cardinality(LocalCopies(b)') \in Nat
            /\ Cardinality(Holders(b)') + Cardinality(LocalCopies(b)')
                 = Cardinality(Holders(b)) + Cardinality(LocalCopies(b)) + One(plus, b) - One(minus, b)
  PROVE  DestroyedWithTheLast'
<1> SUFFICES ASSUME NEW b \in BindState
             PROVE  /\ binds'.refs[b] = Cardinality(Holders(b)') + Cardinality(LocalCopies(b)')
                    /\ b \in binds'.dead => binds'.refs[b] = 0
  BY DEF DestroyedWithTheLast
<1>1. binds.refs[b] = Cardinality(Holders(b)) + Cardinality(LocalCopies(b))
  BY DEF ClosureInv, DestroyedWithTheLast
<1>2. binds'.refs[b] = binds.refs[b] + One(plus, b) - One(minus, b)
  BY DEF Changed
<1>3. b \in binds'.dead => binds'.refs[b] = 0
  BY DEF Sound
<1>4. QED
  BY <1>1, <1>2, <1>3

\* Nothing changes in the stack.
LEMMA CopiesStay ==
  ASSUME CallbackAssumption, ClosureTypeOK, stack' = stack, NEW b \in BindState
  PROVE  Cardinality(LocalCopies(b)') \in Nat /\ Cardinality(LocalCopies(b)') = Cardinality(LocalCopies(b))
<1>1. LocalCopies(b)' = LocalCopies(b)
  BY DEF LocalCopies
<1>2. QED
  BY <1>1, HoldersAreFinite

\* A callback gets x and lets go what it had.
LEMMA CountsBecome ==
  ASSUME CallbackAssumption, ClosureInv, NEW c \in Callbacks, NEW f,
         NEW x \in BindState \cup {NoBind}, x \notin binds.dead, Becomes(c, x, f),
         binds' = ReleaseBind(AddBindRef(binds, x), bind_state[c]), stack' = stack
  PROVE  Sound(binds') /\ DestroyedWithTheLast'
<1>1. ClosureTypeOK /\ Sound(binds)
  BY BindsAreSound DEF ClosureInv
<1>2. /\ bind_state[c] \in BindState \cup {NoBind}
      /\ bind_state[c] # NoBind => binds.refs[bind_state[c]] >= 1
  BY HeldByCallback
<1>3. Sound(binds') /\ Changed(binds, binds', x, bind_state[c])
  BY <1>1, <1>2, ReassignEffect
<1>4. \A b \in BindState :
         /\ Cardinality(Holders(b)') \in Nat /\ Cardinality(LocalCopies(b)') \in Nat
         /\ Cardinality(Holders(b)') = Cardinality(Holders(b)) + One(x, b) - One(bind_state[c], b)
         /\ Cardinality(LocalCopies(b)') = Cardinality(LocalCopies(b))
         /\ Cardinality(Holders(b)) \in Nat /\ Cardinality(LocalCopies(b)) \in Nat
  BY <1>1, HoldersBecome, CopiesStay, HoldersAreFinite
<1>5. \A b \in BindState : One(x, b) \in {0, 1} /\ One(bind_state[c], b) \in {0, 1}
  BY DEF One
<1>6. \A b \in BindState :
         /\ Cardinality(Holders(b)') \in Nat /\ Cardinality(LocalCopies(b)') \in Nat
         /\ Cardinality(Holders(b)') + Cardinality(LocalCopies(b)')
              = Cardinality(Holders(b)) + Cardinality(LocalCopies(b)) + One(x, b) - One(bind_state[c], b)
  BY <1>4, <1>5
<1>7. QED
  BY <1>3, <1>6, Counted

\* A callback gives what it has to a local copy that runs.
LEMMA CountsRunCopy ==
  ASSUME CallbackAssumption, ClosureInv, NEW c \in Callbacks, bind_state[c] # NoBind,
         Becomes(c, NoBind, NoBind), Enter(bind_state[c], NoBind),
         binds' = ReleaseBind(AddBindRef(binds, bind_state[c]), bind_state[c])
  PROVE  Sound(binds') /\ DestroyedWithTheLast'
<1> DEFINE x == bind_state[c]
<1>1. ClosureTypeOK /\ Sound(binds) /\ x \in BindState /\ x \notin binds.dead
  BY BindsAreSound, HeldByCallback DEF ClosureInv
<1>2. Sound(binds') /\ Changed(binds, binds', x, x)
  BY <1>1, ReassignEffect
<1>3. \A b \in BindState :
         /\ Cardinality(Holders(b)') \in Nat /\ Cardinality(LocalCopies(b)') \in Nat
         /\ Cardinality(Holders(b)') = Cardinality(Holders(b)) + One(NoBind, b) - One(x, b)
         /\ Cardinality(LocalCopies(b)') = Cardinality(LocalCopies(b)) + One(x, b)
         /\ Cardinality(Holders(b)) \in Nat /\ Cardinality(LocalCopies(b)) \in Nat
  BY <1>1, HoldersBecome, CopiesPush, HoldersAreFinite
<1>4. \A b \in BindState : One(x, b) \in {0, 1} /\ One(NoBind, b) = 0
  BY DEF One, CallbackAssumption
<1> HIDE DEF x
<1>5. \A b \in BindState :
         /\ Cardinality(Holders(b)') \in Nat /\ Cardinality(LocalCopies(b)') \in Nat
         /\ Cardinality(Holders(b)') + Cardinality(LocalCopies(b)')
              = Cardinality(Holders(b)) + Cardinality(LocalCopies(b)) + One(x, b) - One(x, b)
  BY <1>3, <1>4
<1>6. QED
  BY <1>2, <1>5, Counted

\* A callback takes what another has and lets go what it had.
LEMMA CountsTake ==
  ASSUME CallbackAssumption, ClosureInv, NEW c \in Callbacks, NEW d \in Callbacks, c # d,
         Takes(c, d), stack' = stack, Sound(binds'),
         Changed(binds, binds', NoBind, bind_state[c])
  PROVE  DestroyedWithTheLast'
<1>1. ClosureTypeOK
  BY DEF ClosureInv
<1>2. \A b \in BindState :
         /\ Cardinality(Holders(b)') \in Nat /\ Cardinality(LocalCopies(b)') \in Nat
         /\ Cardinality(Holders(b)') = Cardinality(Holders(b)) - One(bind_state[c], b)
         /\ Cardinality(LocalCopies(b)') = Cardinality(LocalCopies(b))
         /\ Cardinality(Holders(b)) \in Nat /\ Cardinality(LocalCopies(b)) \in Nat
  BY <1>1, HoldersMove, CopiesStay, HoldersAreFinite
<1>3. \A b \in BindState : One(NoBind, b) = 0 /\ One(bind_state[c], b) \in {0, 1}
  BY DEF One, CallbackAssumption
<1>4. \A b \in BindState :
         /\ Cardinality(Holders(b)') \in Nat /\ Cardinality(LocalCopies(b)') \in Nat
         /\ Cardinality(Holders(b)') + Cardinality(LocalCopies(b)')
              = Cardinality(Holders(b)) + Cardinality(LocalCopies(b)) + One(NoBind, b) - One(bind_state[c], b)
  BY <1>2, <1>3
<1>5. QED
  BY <1>4, Counted

\* The holders stay, and what begins to run has no copy.
LEMMA CountsStay ==
  ASSUME CallbackAssumption, ClosureInv, bind_state' = bind_state, binds' = binds,
         \A b \in BindState : LocalCopies(b)' = LocalCopies(b)
  PROVE  Sound(binds') /\ DestroyedWithTheLast'
<1>1. \A b \in BindState : Holders(b)' = Holders(b)
  BY DEF Holders
<1>2. QED
  BY <1>1, BindsAreSound DEF ClosureInv, DestroyedWithTheLast

-----------------------------------------------------------------------------
\* Those that are dying are left alone.
DyingStay == \A q \in Runner : runners[q] = "dying" =>
                 runners'[q] = "dying" /\ bind_state'[q] = bind_state[q]

\* A step that does not touch the stack.
LEMMA FramesStay ==
  ASSUME ClosureInv, stack' = stack, DyingStay
  PROVE  FramesKnown'
  BY DEF ClosureInv, FramesKnown, DyingStay

\* A closure begins to run through y, a runner that is dying from now on or no runner.
LEMMA FramesPush ==
  ASSUME ClosureInv, DyingStay, NEW x \in BindState, NEW y \in Callbacks \cup {NoBind}, Enter(x, y),
         y \in Runner => runners[y] # "dying" /\ runners'[y] = "dying" /\ bind_state'[y] = x
  PROVE  FramesKnown' /\ stack' \in Seq(Frame)
<1> DEFINE n == Len(stack) + 1
           f == [bind |-> x, through |-> y]
<1>1. /\ f \in Frame /\ stack \in Seq(Frame) /\ Len(stack) \in Nat /\ stack' = Append(stack, f)
  BY DEF Enter, ClosureInv, ClosureTypeOK, Frame
<1>2. /\ DOMAIN stack = 1..Len(stack) /\ DOMAIN stack' = 1..n /\ stack'[n] = f
      /\ \A i \in 1..Len(stack) : stack'[i] = stack[i]
      /\ stack' \in Seq(Frame)
  BY <1>1
<1>3. \A i \in 1..n : i = n \/ i \in 1..Len(stack)
  BY <1>1
<1>4. \A i \in 1..Len(stack) : stack[i].through \in Runner =>
         /\ runners[stack[i].through] = "dying"
         /\ bind_state[stack[i].through] = stack[i].bind
         /\ \A j \in 1..Len(stack) : stack[j].through = stack[i].through => j = i
  BY <1>2 DEF ClosureInv, FramesKnown
<1>5. f.bind = x /\ f.through = y
  OBVIOUS
<1> HIDE DEF n, f
<1>6. ASSUME NEW i \in 1..n, stack'[i].through \in Runner
      PROVE  /\ runners'[stack'[i].through] = "dying"
             /\ bind_state'[stack'[i].through] = stack'[i].bind
             /\ \A j \in 1..n : stack'[j].through = stack'[i].through => j = i
  <2>1. CASE i = n
    BY <1>2, <1>3, <1>4, <1>5, <1>6, <2>1
  <2>2. CASE i \in 1..Len(stack)
    BY <1>2, <1>3, <1>4, <1>5, <1>6, <2>2 DEF DyingStay
  <2>3. QED
    BY <1>3, <2>1, <2>2
<1>7. QED
  BY <1>2, <1>6 DEF FramesKnown

\* What runs through a variable has no copy.
LEMMA PushHasNoCopy ==
  ASSUME CallbackAssumption, ClosureInv, NEW x \in BindState, NEW y \in Callbacks, Enter(x, y),
         NEW b \in BindState
  PROVE  LocalCopies(b)' = LocalCopies(b)
<1> DEFINE n == Len(stack) + 1
           f == [bind |-> x, through |-> y]
<1>1. /\ f \in Frame /\ stack \in Seq(Frame) /\ Len(stack) \in Nat /\ stack' = Append(stack, f)
  BY DEF Enter, ClosureInv, ClosureTypeOK, Frame
<1>2. /\ DOMAIN stack = 1..Len(stack) /\ DOMAIN stack' = 1..n /\ stack'[n] = f
      /\ \A i \in 1..Len(stack) : stack'[i] = stack[i]
  BY <1>1
<1>3. \A i \in 1..n : i = n \/ i \in 1..Len(stack)
  BY <1>1
<1>4. 1..Len(stack) \subseteq 1..n
  BY <1>1
<1>5. f # [bind |-> b, through |-> NoBind]
  BY DEF CallbackAssumption, Callbacks
<1> HIDE DEF n, f
<1>6. QED
  BY <1>2, <1>3, <1>4, <1>5 DEF LocalCopies

-----------------------------------------------------------------------------
\* The runners keep what they kept.
LEMMA OwedStay ==
  ASSUME ClosureInv, owed' = owed, \A q \in Runner : Kept(q)' = Kept(q), CallbackAssumption
  PROVE  RunsOnce' /\ owed' \in [BindState -> Int]
<1>1. ASSUME NEW b \in BindState PROVE Keepers(b)' = Keepers(b)
  <2>1. \A q \in Runner : (q \in Keepers(b) <=> Kept(q) = b) /\ (q \in Keepers(b)' <=> Kept(q)' = b)
    BY DEF Keepers, Kept, Live, CallbackAssumption
  <2>2. Keepers(b) \subseteq Runner /\ Keepers(b)' \subseteq Runner
    BY DEF Keepers
  <2>3. QED
    BY <2>1, <2>2
<1>2. QED
  BY <1>1 DEF ClosureInv, ClosureTypeOK, RunsOnce

\* One changes, and what is owed with it.
LEMMA OwedChange ==
  ASSUME CallbackAssumption, ClosureInv, NEW r \in Runner,
         \A q \in Runner \ {r} : Kept(q)' = Kept(q), Owes(Kept(r), Kept(r)')
  PROVE  RunsOnce' /\ owed' \in [BindState -> Int]
<1>1. ClosureTypeOK /\ RunsOnce /\ owed \in [BindState -> Int]
  BY DEF ClosureInv, ClosureTypeOK
<1>2. ASSUME NEW b \in BindState
      PROVE  owed'[b] = Cardinality(Keepers(b)')
  <2>1. Cardinality(Keepers(b)') = Cardinality(Keepers(b)) + One(Kept(r)', b) - One(Kept(r), b)
    BY <1>1, KeepersChange
  <2>2. owed'[b] = owed[b] - One(Kept(r), b) + One(Kept(r)', b)
    BY DEF Owes, One
  <2>3. owed[b] = Cardinality(Keepers(b)) /\ owed[b] \in Int
    BY <1>1 DEF RunsOnce
  <2>4. One(Kept(r), b) \in Int /\ One(Kept(r)', b) \in Int
    BY DEF One
  <2>5. QED
    BY <2>1, <2>2, <2>3, <2>4
<1>3. owed' \in [BindState -> Int]
  BY <1>1 DEF Owes
<1>4. QED
  BY <1>2, <1>3 DEF RunsOnce

\* One takes what another had, and what it kept itself is not owed any more.
LEMMA OwedExchange ==
  ASSUME CallbackAssumption, ClosureInv, NEW r \in Runner, NEW o \in Runner, r # o,
         \A q \in Runner \ {r, o} : Kept(q)' = Kept(q),
         Kept(r)' = Kept(o), Kept(o)' = NoBind, Owes(Kept(r), NoBind)
  PROVE  RunsOnce' /\ owed' \in [BindState -> Int]
<1>1. ClosureTypeOK /\ RunsOnce /\ owed \in [BindState -> Int]
  BY DEF ClosureInv, ClosureTypeOK
<1>2. ASSUME NEW b \in BindState
      PROVE  owed'[b] = Cardinality(Keepers(b)')
  <2>1. Cardinality(Keepers(b)') = Cardinality(Keepers(b)) + One(Kept(r)', b) - One(Kept(r), b)
                                                           + One(Kept(o)', b) - One(Kept(o), b)
    BY <1>1, KeepersExchange
  <2>2. owed'[b] = owed[b] - One(Kept(r), b) + One(NoBind, b)
    BY DEF Owes, One
  <2>3. owed[b] = Cardinality(Keepers(b)) /\ owed[b] \in Int
    BY <1>1 DEF RunsOnce
  <2>4. One(Kept(r), b) \in Int /\ One(Kept(o), b) \in Int /\ One(NoBind, b) \in Int
    BY DEF One
  <2>5. QED
    BY <2>1, <2>2, <2>3, <2>4
<1>3. owed' \in [BindState -> Int]
  BY <1>1 DEF Owes
<1>4. QED
  BY <1>2, <1>3 DEF RunsOnce

-----------------------------------------------------------------------------
(* Callback: the steps.                                                     *)

\* A callback variable is not the closure_ of a runner.
LEMMA CallbackIsNoRunner ==
  ASSUME CallbackAssumption, NEW c \in CallbackVar
  PROVE  c \in Callbacks /\ c \notin Runner
  BY DEF CallbackAssumption, Callbacks

\* An operation on a callback variable leaves the runners alone.
LEMMA BecomesKeepsInv ==
  ASSUME CallbackAssumption, ClosureInv, NEW c \in CallbackVar,
         NEW x \in BindState \cup {NoBind}, x \notin binds.dead,
         NEW f \in BindState \cup {NoBind}, x # NoBind => f = x, Becomes(c, x, f),
         binds' = ReleaseBind(AddBindRef(binds, x), bind_state[c]),
         UNCHANGED <<runners, stack, owed>>
  PROVE  ClosureInv'
<1>1. c \in Callbacks /\ c \notin Runner /\ Runner \subseteq Callbacks
  BY CallbackIsNoRunner DEF Callbacks
<1>2. Sound(binds') /\ DestroyedWithTheLast'
  BY <1>1, CountsBecome
<1>3. ClosureTypeOK /\ RunnersKnown /\ FunctionsKnown
  BY DEF ClosureInv
<1>4. /\ bind_state' \in [Callbacks -> BindState \cup {NoBind}] /\ bind_state'[c] = x
      /\ invoke' \in [Callbacks -> BindState \cup {NoBind}] /\ invoke'[c] = f
      /\ \A d \in Callbacks \ {c} : bind_state'[d] = bind_state[d] /\ invoke'[d] = invoke[d]
  BY <1>1, <1>3 DEF ClosureTypeOK, Becomes
<1>5. \A q \in Runner : bind_state'[q] = bind_state[q] /\ Kept(q)' = Kept(q)
  BY <1>1, <1>4 DEF Kept
<1>6. FramesKnown'
  BY <1>5, FramesStay DEF DyingStay
<1>7. RunsOnce' /\ owed' \in [BindState -> Int]
  BY <1>5, OwedStay
<1>8. ClosureTypeOK'
  BY <1>2, <1>3, <1>4, <1>7 DEF ClosureTypeOK, Sound, Heaps
<1>9. RunnersKnown'
  BY <1>3, <1>5 DEF RunnersKnown
<1>10. FunctionsKnown'
  BY <1>3, <1>4 DEF FunctionsKnown
<1>11. QED
  BY <1>2, <1>6, <1>7, <1>8, <1>9, <1>10 DEF ClosureInv

\* A new bind state has no holder yet.
LEMMA BindKeepsInv ==
  ASSUME CallbackAssumption, ClosureInv, NEW c \in CallbackVar, NEW b \in BindState, Bind(c, b)
  PROVE  ClosureInv'
  BY BecomesKeepsInv DEF Bind

\* It becomes null.
LEMMA ResetKeepsInv ==
  ASSUME CallbackAssumption, ClosureInv, NEW c \in CallbackVar, Reset(c)
  PROVE  ClosureInv'
<1>1. AddBindRef(binds, NoBind) = binds
  BY DEF AddBindRef
<1>2. NoBind \notin binds.dead
  BY DEF ClosureInv, ClosureTypeOK, CallbackAssumption
<1>3. QED
  BY <1>1, <1>2, BecomesKeepsInv DEF Reset

\* One holder more for what d has.
LEMMA CopyAssignKeepsInv ==
  ASSUME CallbackAssumption, ClosureInv, NEW c \in CallbackVar, NEW d \in CallbackVar,
         CopyAssign(c, d)
  PROVE  ClosureInv'
<1>1. d \in Callbacks /\ bind_state[d] \in BindState \cup {NoBind} /\ bind_state[d] \notin binds.dead
  BY CallbackIsNoRunner, HeldByCallback
<1>2. invoke[d] \in BindState \cup {NoBind} /\ (bind_state[d] # NoBind => invoke[d] = bind_state[d])
  BY <1>1 DEF ClosureInv, ClosureTypeOK, FunctionsKnown
<1>3. QED
  BY <1>1, <1>2, BecomesKeepsInv DEF CopyAssign, Reassigned

\* Of two variables one is null then; of one variable nothing changes.
LEMMA MoveAssignKeepsInv ==
  ASSUME CallbackAssumption, ClosureInv, NEW c \in CallbackVar, NEW d \in CallbackVar,
         MoveAssign(c, d)
  PROVE  ClosureInv'
<1>1. /\ c \in Callbacks /\ d \in Callbacks /\ c \notin Runner /\ d \notin Runner
      /\ Runner \subseteq Callbacks
  BY CallbackIsNoRunner DEF Callbacks
<1>2. ClosureTypeOK /\ RunnersKnown /\ FunctionsKnown /\ Sound(binds)
  BY BindsAreSound DEF ClosureInv
<1>3. UNCHANGED <<runners, stack, owed>>
  BY DEF MoveAssign
<1>4. CASE c = d
  <2>1. UNCHANGED <<bind_state, invoke, binds>>
    BY <1>4 DEF MoveAssign, callbacks
  <2>2. UNCHANGED closureVars
    BY <1>3, <2>1 DEF closureVars
  <2>3. QED
    BY <2>2, ClosureStutter
<1>5. CASE c # d
  <2>1. Moves(c, d) /\ binds' = ReleaseBind(binds, bind_state[c]) /\ Takes(c, d)
    BY <1>5 DEF MoveAssign, Moves, Takes
  <2>2. Sound(binds') /\ Changed(binds, binds', NoBind, bind_state[c])
    BY <1>1, <1>2, <2>1, HeldByCallback, ReleaseEffect
  <2>3. DestroyedWithTheLast'
    BY <1>1, <1>3, <1>5, <2>1, <2>2, CountsTake
  <2>4. /\ bind_state' \in [Callbacks -> BindState \cup {NoBind}]
        /\ invoke' \in [Callbacks -> BindState \cup {NoBind}]
        /\ bind_state'[c] = bind_state[d] /\ invoke'[c] = invoke[d] /\ bind_state'[d] = NoBind
        /\ \A e \in Callbacks \ {c, d} : bind_state'[e] = bind_state[e] /\ invoke'[e] = invoke[e]
    BY <1>1, <1>2, <1>5, <2>1 DEF ClosureTypeOK, Moves
  <2>5. \A q \in Runner : bind_state'[q] = bind_state[q] /\ Kept(q)' = Kept(q)
    BY <1>1, <1>3, <2>4 DEF Kept
  <2>6. FramesKnown'
    BY <1>3, <2>5, FramesStay DEF DyingStay
  <2>7. RunsOnce' /\ owed' \in [BindState -> Int]
    BY <1>3, <2>5, OwedStay
  <2>8. ClosureTypeOK'
    BY <1>2, <1>3, <2>2, <2>4, <2>7 DEF ClosureTypeOK, Sound, Heaps
  <2>9. RunnersKnown'
    BY <1>2, <1>3, <2>5 DEF RunnersKnown
  <2>10. FunctionsKnown'
    BY <1>1, <1>2, <2>4 DEF FunctionsKnown
  <2>11. QED
    BY <2>3, <2>6, <2>7, <2>8, <2>9, <2>10 DEF ClosureInv
<1>6. QED
  BY <1>4, <1>5

\* A closure runs in place, through a callback that lives on.
LEMMA RunKeepsInv ==
  ASSUME CallbackAssumption, ClosureInv, NEW c \in CallbackVar, Run(c)
  PROVE  ClosureInv'
<1>1. c \in Callbacks /\ c \notin Runner
  BY CallbackIsNoRunner
<1>2. ClosureTypeOK /\ RunnersKnown /\ FunctionsKnown
  BY DEF ClosureInv
<1>3. /\ bind_state[c] \in BindState /\ Enter(bind_state[c], c)
      /\ UNCHANGED <<bind_state, invoke, binds, runners, owed>>
  BY <1>1, <1>2 DEF Run, is_null, callbacks, ClosureTypeOK
<1>4. Sound(binds') /\ DestroyedWithTheLast'
  BY <1>1, <1>3, PushHasNoCopy, CountsStay
<1>5. FramesKnown' /\ stack' \in Seq(Frame)
  BY <1>1, <1>3, FramesPush DEF DyingStay
<1>6. RunsOnce' /\ owed' \in [BindState -> Int]
  BY <1>3, OwedStay DEF Kept
<1>7. QED
  BY <1>2, <1>3, <1>4, <1>5, <1>6 DEF ClosureInv, ClosureTypeOK, RunnersKnown, FunctionsKnown

\* The callback's reference becomes that of the frame.
LEMMA ResetAndReturnKeepsInv ==
  ASSUME CallbackAssumption, ClosureInv, NEW c \in CallbackVar, ResetAndReturn(c)
  PROVE  ClosureInv'
<1>1. c \in Callbacks /\ c \notin Runner /\ Runner \subseteq Callbacks
  BY CallbackIsNoRunner DEF Callbacks
<1>2. ClosureTypeOK /\ RunnersKnown /\ FunctionsKnown
  BY DEF ClosureInv
<1>3. /\ bind_state[c] # NoBind /\ bind_state[c] \in BindState
      /\ Enter(bind_state[c], NoBind) /\ Becomes(c, NoBind, NoBind)
      /\ binds' = ReleaseBind(AddBindRef(binds, bind_state[c]), bind_state[c])
      /\ UNCHANGED <<runners, owed>>
  BY <1>1, <1>2 DEF ResetAndReturn, is_null, ClosureTypeOK
<1>4. Sound(binds') /\ DestroyedWithTheLast'
  BY <1>1, <1>3, CountsRunCopy
<1>5. /\ bind_state' \in [Callbacks -> BindState \cup {NoBind}] /\ bind_state'[c] = NoBind
      /\ invoke' \in [Callbacks -> BindState \cup {NoBind}]
      /\ \A d \in Callbacks \ {c} : bind_state'[d] = bind_state[d] /\ invoke'[d] = invoke[d]
  BY <1>1, <1>2, <1>3 DEF ClosureTypeOK, Becomes
<1>6. \A q \in Runner : bind_state'[q] = bind_state[q] /\ Kept(q)' = Kept(q)
  BY <1>1, <1>3, <1>5 DEF Kept
<1>7. FramesKnown' /\ stack' \in Seq(Frame)
  <2>1. NoBind \notin Runner
    BY DEF CallbackAssumption
  <2>2. QED
    BY <1>3, <1>6, <2>1, FramesPush DEF DyingStay
<1>8. RunsOnce' /\ owed' \in [BindState -> Int]
  BY <1>3, <1>6, OwedStay
<1>9. ClosureTypeOK'
  BY <1>2, <1>3, <1>4, <1>5, <1>7, <1>8 DEF ClosureTypeOK, Sound, Heaps
<1>10. RunnersKnown'
  BY <1>2, <1>3, <1>6 DEF RunnersKnown
<1>11. FunctionsKnown'
  BY <1>2, <1>5 DEF FunctionsKnown
<1>12. QED
  BY <1>4, <1>7, <1>8, <1>9, <1>10, <1>11 DEF ClosureInv

-----------------------------------------------------------------------------
(* Callback: the steps of a runner.                                         *)

\* A runner's closure_ becomes x, and the runner what its next state says.
LEMMA RunnerBecomesKeepsInv ==
  ASSUME CallbackAssumption, ClosureInv, NEW r \in Runner,
         NEW x \in BindState \cup {NoBind}, NEW f \in BindState \cup {NoBind},
         x # NoBind => f = x, Becomes(r, x, f),
         runners' \in [Runner -> {"none", "live", "dying"}],
         \A q \in Runner \ {r} : runners'[q] = runners[q],
         runners'[r] = "none" => x = NoBind,
         Sound(binds'), DestroyedWithTheLast', FramesKnown', stack' \in Seq(Frame),
         Owes(Kept(r), Kept(r)')
  PROVE  ClosureInv'
<1>1. ClosureTypeOK /\ RunnersKnown /\ FunctionsKnown /\ r \in Callbacks /\ Runner \subseteq Callbacks
  BY DEF ClosureInv, Callbacks
<1>2. /\ bind_state' \in [Callbacks -> BindState \cup {NoBind}] /\ bind_state'[r] = x
      /\ invoke' \in [Callbacks -> BindState \cup {NoBind}] /\ invoke'[r] = f
      /\ \A d \in Callbacks \ {r} : bind_state'[d] = bind_state[d] /\ invoke'[d] = invoke[d]
  BY <1>1 DEF ClosureTypeOK, Becomes
<1>3. \A q \in Runner \ {r} : bind_state'[q] = bind_state[q] /\ Kept(q)' = Kept(q)
  BY <1>1, <1>2 DEF Kept
<1>4. RunsOnce' /\ owed' \in [BindState -> Int]
  BY <1>3, OwedChange
<1>5. ClosureTypeOK'
  BY <1>1, <1>2, <1>4 DEF ClosureTypeOK, Sound, Heaps
<1>6. RunnersKnown'
  BY <1>1, <1>2, <1>3 DEF RunnersKnown
<1>7. FunctionsKnown'
  BY <1>1, <1>2 DEF FunctionsKnown
<1>8. QED
  BY <1>4, <1>5, <1>6, <1>7 DEF ClosureInv

\* The others that are dying are left alone, and this one is not.
LEMMA OthersDying ==
  ASSUME ClosureInv, NEW r \in Runner, runners[r] # "dying", NEW x, NEW f, Becomes(r, x, f),
         \A q \in Runner \ {r} : runners'[q] = runners[q]
  PROVE  DyingStay
<1>1. \A q \in Runner \ {r} : q \in Callbacks /\ bind_state'[q] = bind_state[q]
  BY DEF Callbacks, ClosureInv, ClosureTypeOK, Becomes
<1>2. QED
  BY <1>1 DEF DyingStay

\* A runner that is not there has nothing to let go.
LEMMA ConstructRunnerKeepsInv ==
  ASSUME CallbackAssumption, ClosureInv, NEW r \in Runner, NEW c \in CallbackVar,
         ConstructRunner(r, c)
  PROVE  ClosureInv'
<1>1. c \in Callbacks /\ r \in Callbacks
  BY CallbackIsNoRunner DEF Callbacks
<1>2. ClosureTypeOK /\ RunnersKnown /\ FunctionsKnown
  BY DEF ClosureInv
<1> DEFINE x == bind_state[c]
<1>3. /\ x \in BindState \cup {NoBind} /\ x \notin binds.dead
      /\ invoke[c] \in BindState \cup {NoBind} /\ (x # NoBind => invoke[c] = x)
  BY <1>1, <1>2, HeldByCallback DEF ClosureTypeOK, FunctionsKnown
<1>4. /\ runners[r] = "none" /\ bind_state[r] = NoBind /\ Becomes(r, x, invoke[c])
      /\ binds' = AddBindRef(binds, x) /\ Owes(NoBind, x) /\ stack' = stack
      /\ runners' = [runners EXCEPT ![r] = "live"]
  BY <1>2 DEF ConstructRunner, RunnersKnown
<1> HIDE DEF x
<1>5. binds' = ReleaseBind(AddBindRef(binds, x), bind_state[r])
  BY <1>4 DEF ReleaseBind
<1>6. Sound(binds') /\ DestroyedWithTheLast'
  BY <1>1, <1>3, <1>4, <1>5, CountsBecome
<1>7. /\ runners' \in [Runner -> {"none", "live", "dying"}] /\ runners'[r] = "live"
      /\ \A q \in Runner \ {r} : runners'[q] = runners[q]
  BY <1>2, <1>4 DEF ClosureTypeOK
<1>8. DyingStay
  BY <1>4, <1>7, OthersDying
<1>9. FramesKnown' /\ stack' \in Seq(Frame)
  BY <1>2, <1>4, <1>8, FramesStay DEF ClosureTypeOK
<1>10. Kept(r) = NoBind /\ Kept(r)' = x
  BY <1>1, <1>2, <1>4, <1>7 DEF Kept, Becomes, ClosureTypeOK
<1>11. QED
  BY <1>3, <1>4, <1>6, <1>7, <1>9, <1>10, RunnerBecomesKeepsInv

\* The old closure is not owed any more, the new one is.
LEMMA ReplaceClosureKeepsInv ==
  ASSUME CallbackAssumption, ClosureInv, NEW r \in Runner, NEW c \in CallbackVar,
         ReplaceClosure(r, c)
  PROVE  ClosureInv'
<1>1. c \in Callbacks /\ r \in Callbacks
  BY CallbackIsNoRunner DEF Callbacks
<1>2. ClosureTypeOK /\ RunnersKnown /\ FunctionsKnown
  BY DEF ClosureInv
<1> DEFINE x == bind_state[c]
<1>3. /\ x \in BindState \cup {NoBind} /\ x \notin binds.dead
      /\ invoke[c] \in BindState \cup {NoBind} /\ (x # NoBind => invoke[c] = x)
  BY <1>1, <1>2, HeldByCallback DEF ClosureTypeOK, FunctionsKnown
<1>4. /\ runners[r] = "live" /\ Becomes(r, x, invoke[c])
      /\ binds' = ReleaseBind(AddBindRef(binds, x), bind_state[r])
      /\ Owes(bind_state[r], x) /\ stack' = stack /\ runners' = runners
  BY DEF ReplaceClosure, Reassigned, Live
<1> HIDE DEF x
<1>5. Sound(binds') /\ DestroyedWithTheLast'
  BY <1>1, <1>3, <1>4, CountsBecome
<1>6. runners' \in [Runner -> {"none", "live", "dying"}]
  BY <1>2, <1>4 DEF ClosureTypeOK
<1>7. DyingStay
  BY <1>4, OthersDying
<1>8. FramesKnown' /\ stack' \in Seq(Frame)
  BY <1>2, <1>4, <1>7, FramesStay DEF ClosureTypeOK
<1>9. Kept(r) = bind_state[r] /\ Kept(r)' = x
  BY <1>1, <1>2, <1>4 DEF Kept, Becomes, ClosureTypeOK
<1>10. QED
  BY <1>3, <1>4, <1>5, <1>6, <1>8, <1>9, RunnerBecomesKeepsInv

\* The local old_closure has it while it runs.
LEMMA RunAndResetKeepsInv ==
  ASSUME CallbackAssumption, ClosureInv, NEW r \in Runner, RunAndReset(r)
  PROVE  ClosureInv'
<1>1. r \in Callbacks /\ NoBind \notin Runner
  BY DEF Callbacks, CallbackAssumption
<1>2. ClosureTypeOK
  BY DEF ClosureInv
<1>3. /\ runners[r] = "live" /\ bind_state[r] # NoBind /\ bind_state[r] \in BindState
      /\ Enter(bind_state[r], NoBind) /\ Becomes(r, NoBind, NoBind)
      /\ binds' = ReleaseBind(AddBindRef(binds, bind_state[r]), bind_state[r])
      /\ Owes(bind_state[r], NoBind) /\ runners' = runners
  BY <1>1, <1>2 DEF RunAndReset, Live, is_null, ClosureTypeOK
<1>4. Sound(binds') /\ DestroyedWithTheLast'
  BY <1>1, <1>3, CountsRunCopy
<1>5. runners' \in [Runner -> {"none", "live", "dying"}]
  BY <1>2, <1>3 DEF ClosureTypeOK
<1>6. DyingStay
  BY <1>3, OthersDying
<1>7. FramesKnown' /\ stack' \in Seq(Frame)
  BY <1>1, <1>3, <1>6, FramesPush
<1>8. Kept(r) = bind_state[r] /\ Kept(r)' = NoBind
  BY <1>1, <1>2, <1>3 DEF Kept, Becomes, ClosureTypeOK
<1>9. QED
  BY <1>3, <1>4, <1>5, <1>7, <1>8, RunnerBecomesKeepsInv

\* Writing what is there changes nothing.
LEMMA BecomesTheSame ==
  ASSUME ClosureTypeOK, NEW c \in Callbacks, UNCHANGED callbacks
  PROVE  Becomes(c, bind_state[c], invoke[c])
  BY DEF ClosureTypeOK, callbacks, Becomes

\* What is not null runs in place, and the runner is there until it returns.
LEMMA DestroyRunnerKeepsInv ==
  ASSUME CallbackAssumption, ClosureInv, NEW r \in Runner, DestroyRunner(r)
  PROVE  ClosureInv'
<1>1. r \in Callbacks /\ ClosureTypeOK
  BY DEF Callbacks, ClosureInv
<1> DEFINE x == bind_state[r]
           f == invoke[r]
<1>2. /\ runners[r] = "live" /\ UNCHANGED callbacks /\ binds' = binds /\ bind_state' = bind_state
      /\ x \in BindState \cup {NoBind} /\ f \in BindState \cup {NoBind}
      /\ x # NoBind => f = x
  BY <1>1 DEF DestroyRunner, Live, callbacks, ClosureInv, ClosureTypeOK, FunctionsKnown
<1>3. Becomes(r, x, f)
  BY <1>1, <1>2, BecomesTheSame
<1>4. Kept(r) = x
  BY <1>2 DEF Kept
<1>5. CASE is_null(r)
  <2>1. /\ x = NoBind /\ stack' = stack /\ owed' = owed
        /\ runners' = [runners EXCEPT ![r] = "none"]
    BY <1>5 DEF is_null, DestroyRunner
  <2>2. /\ runners' \in [Runner -> {"none", "live", "dying"}] /\ runners'[r] = "none"
        /\ \A q \in Runner \ {r} : runners'[q] = runners[q]
    BY <1>1, <2>1 DEF ClosureTypeOK
  <2>3. \A b \in BindState : LocalCopies(b)' = LocalCopies(b)
    BY <2>1 DEF LocalCopies
  <2>4. Sound(binds') /\ DestroyedWithTheLast'
    BY <1>2, <2>3, CountsStay
  <2>5. DyingStay
    BY <1>2, <1>3, <2>2, OthersDying
  <2>6. FramesKnown' /\ stack' \in Seq(Frame)
    BY <1>1, <2>1, <2>5, FramesStay DEF ClosureTypeOK
  <2>7. Kept(r)' = NoBind
    BY <2>2 DEF Kept
  <2>8. Owes(NoBind, NoBind)
    BY <1>1, <2>1 DEF Owes, ClosureTypeOK, CallbackAssumption
  <2> HIDE DEF x, f
  <2>9. QED
    BY <1>2, <1>3, <1>4, <2>1, <2>2, <2>4, <2>6, <2>7, <2>8, RunnerBecomesKeepsInv
<1>6. CASE ~is_null(r)
  <2>1. /\ x # NoBind /\ x \in BindState /\ Enter(x, r) /\ Owes(x, NoBind)
        /\ runners' = [runners EXCEPT ![r] = "dying"]
    BY <1>2, <1>6 DEF is_null, DestroyRunner
  <2>2. /\ runners' \in [Runner -> {"none", "live", "dying"}] /\ runners'[r] = "dying"
        /\ \A q \in Runner \ {r} : runners'[q] = runners[q]
    BY <1>1, <2>1 DEF ClosureTypeOK
  <2>3. \A b \in BindState : LocalCopies(b)' = LocalCopies(b)
    BY <1>1, <2>1, PushHasNoCopy
  <2>4. Sound(binds') /\ DestroyedWithTheLast'
    BY <1>2, <2>3, CountsStay
  <2>5. DyingStay
    BY <1>2, <1>3, <2>2, OthersDying
  <2>6. runners[r] # "dying" /\ bind_state'[r] = x
    BY <1>2
  <2>7. Kept(r)' = NoBind
    BY <2>2 DEF Kept
  <2> HIDE DEF x, f
  <2>8. FramesKnown' /\ stack' \in Seq(Frame)
    BY <1>1, <2>1, <2>2, <2>5, <2>6, FramesPush
  <2>9. QED
    BY <1>2, <1>3, <1>4, <2>1, <2>2, <2>4, <2>7, <2>8, RunnerBecomesKeepsInv
<1>7. QED
  BY <1>5, <1>6

\* A closure that goes through the temporary of Release leaves one reference to itself, and
\* what was there before has one less.
LEMMA ReleasedEffect ==
  ASSUME CallbackAssumption, NEW h, Sound(h),
         NEW x \in BindState \cup {NoBind}, x # NoBind => h.refs[x] >= 1,
         NEW old \in BindState \cup {NoBind}, old # NoBind => h.refs[old] >= 1
  PROVE  LET temporary == ReleaseBind(AddBindRef(h, x), x)
             g == ReleaseBind(Reassigned(temporary, x, old), x)
         IN  Sound(g) /\ Changed(h, g, NoBind, old)
<1> DEFINE t == ReleaseBind(AddBindRef(h, x), x)
           k == ReleaseBind(AddBindRef(t, x), old)
           g == ReleaseBind(k, x)
<1>1. x \notin h.dead
  BY DEF Sound, Heaps, CallbackAssumption
<1>2. Sound(t) /\ Changed(h, t, x, x)
  BY <1>1, ReassignEffect
<1> HIDE DEF t
<1>3. /\ \A b \in BindState : t.refs[b] = h.refs[b]
      /\ x \notin t.dead
  <2>1. \A b \in BindState : t.refs[b] = h.refs[b]
    BY <1>2 DEF Changed, Sound, Heaps, One
  <2>2. QED
    BY <1>2, <2>1 DEF Sound, Heaps, CallbackAssumption
<1>4. Sound(k) /\ Changed(t, k, x, old)
  <2>1. old # NoBind => t.refs[old] >= 1 \/ old = x
    BY <1>3
  <2>2. QED
    BY <1>2, <1>3, <2>1, ReassignEffect
<1> HIDE DEF k
<1>5. x # NoBind => k.refs[x] >= 1
  BY <1>2, <1>3, <1>4 DEF Changed, Sound, Heaps, One
<1>6. Sound(g) /\ Changed(k, g, NoBind, x)
  BY <1>4, <1>5, ReleaseEffect
<1> HIDE DEF g
<1>7. Changed(h, g, NoBind, old)
  BY <1>3, <1>4, <1>6 DEF Changed, Sound, Heaps, One, CallbackAssumption
<1>8. QED
  BY <1>6, <1>7 DEF g, k, t, Reassigned

\* c gets the closure that was released from d.
LEMMA ReleasedKeeps ==
  ASSUME CallbackAssumption, ClosureInv, NEW c \in Callbacks, NEW d \in Callbacks, c # d,
         ReleasedInto(c, d), stack' = stack
  PROVE  /\ bind_state' \in [Callbacks -> BindState \cup {NoBind}]
         /\ invoke' \in [Callbacks -> BindState \cup {NoBind}]
         /\ bind_state'[c] = bind_state[d] /\ bind_state'[d] = NoBind
         /\ \A e \in Callbacks \ {c, d} : bind_state'[e] = bind_state[e]
         /\ Sound(binds') /\ DestroyedWithTheLast' /\ FunctionsKnown'
<1>1. ClosureTypeOK /\ FunctionsKnown /\ Sound(binds)
  BY BindsAreSound DEF ClosureInv
<1>2. Takes(c, d) /\ invoke' = [invoke EXCEPT ![d] = NoBind, ![c] = invoke[d]]
  BY DEF ReleasedInto, Takes
<1>3. /\ bind_state' \in [Callbacks -> BindState \cup {NoBind}]
      /\ invoke' \in [Callbacks -> BindState \cup {NoBind}]
      /\ bind_state'[c] = bind_state[d] /\ invoke'[c] = invoke[d]
      /\ bind_state'[d] = NoBind
      /\ \A e \in Callbacks \ {c, d} : bind_state'[e] = bind_state[e] /\ invoke'[e] = invoke[e]
  BY <1>1, <1>2 DEF ClosureTypeOK, Takes
<1>4. FunctionsKnown'
  BY <1>1, <1>3 DEF FunctionsKnown
<1>5. Sound(binds') /\ Changed(binds, binds', NoBind, bind_state[c])
  <2> DEFINE x == bind_state[d]
             old == bind_state[c]
             t == ReleaseBind(AddBindRef(binds, x), x)
  <2>1. /\ x \in BindState \cup {NoBind} /\ (x # NoBind => binds.refs[x] >= 1)
        /\ old \in BindState \cup {NoBind} /\ (old # NoBind => binds.refs[old] >= 1)
    BY HeldByCallback
  <2>2. binds' = ReleaseBind(Reassigned(t, x, old), x)
    BY DEF ReleasedInto
  <2> HIDE DEF x, old
  <2>3. QED
    BY <1>1, <2>1, <2>2, ReleasedEffect DEF old
<1>6. DestroyedWithTheLast'
  BY <1>2, <1>5, CountsTake
<1>7. QED
  BY <1>3, <1>4, <1>5, <1>6

\* What is released is not owed.
LEMMA ReleaseRunnerKeepsInv ==
  ASSUME CallbackAssumption, ClosureInv, NEW r \in Runner, NEW c \in CallbackVar,
         ReleaseRunner(r, c)
  PROVE  ClosureInv'
<1>1. /\ c \in Callbacks /\ c \notin Runner /\ r \in Callbacks /\ c # r /\ Runner \subseteq Callbacks
  BY CallbackIsNoRunner DEF Callbacks
<1>2. ClosureTypeOK /\ RunnersKnown
  BY DEF ClosureInv
<1>3. /\ runners[r] = "live" /\ ReleasedInto(c, r) /\ Owes(bind_state[r], NoBind)
      /\ runners' = runners /\ stack' = stack
  BY DEF ReleaseRunner, Live
<1>4. /\ bind_state' \in [Callbacks -> BindState \cup {NoBind}]
      /\ invoke' \in [Callbacks -> BindState \cup {NoBind}]
      /\ bind_state'[r] = NoBind
      /\ \A e \in Callbacks \ {c, r} : bind_state'[e] = bind_state[e]
      /\ Sound(binds') /\ DestroyedWithTheLast' /\ FunctionsKnown'
  BY <1>1, <1>3, ReleasedKeeps
<1>5. /\ \A q \in Runner \ {r} : bind_state'[q] = bind_state[q] /\ Kept(q)' = Kept(q)
      /\ Kept(r) = bind_state[r] /\ Kept(r)' = NoBind
  BY <1>1, <1>3, <1>4 DEF Kept
<1>6. DyingStay
  BY <1>3, <1>5 DEF DyingStay
<1>7. FramesKnown'
  BY <1>3, <1>6, FramesStay
<1>8. RunsOnce' /\ owed' \in [BindState -> Int]
  BY <1>3, <1>5, OwedChange
<1>9. ClosureTypeOK'
  BY <1>2, <1>3, <1>4, <1>8 DEF ClosureTypeOK, Sound, Heaps
<1>10. RunnersKnown'
  BY <1>2, <1>3, <1>4, <1>5 DEF RunnersKnown
<1>11. QED
  BY <1>4, <1>7, <1>8, <1>9, <1>10 DEF ClosureInv

\* What o kept, r keeps.
LEMMA MoveConstructKeepsInv ==
  ASSUME CallbackAssumption, ClosureInv, NEW r \in Runner, NEW o \in Runner, MoveConstruct(r, o)
  PROVE  ClosureInv'
<1>1. r \in Callbacks /\ o \in Callbacks /\ Runner \subseteq Callbacks
  BY DEF Callbacks
<1>2. ClosureTypeOK /\ RunnersKnown
  BY DEF ClosureInv
<1>3. /\ runners[r] = "none" /\ runners[o] = "live" /\ r # o /\ ReleasedInto(r, o)
      /\ runners' = [runners EXCEPT ![r] = "live"] /\ stack' = stack /\ owed' = owed
  BY DEF MoveConstruct, Live
<1>4. /\ bind_state' \in [Callbacks -> BindState \cup {NoBind}]
      /\ invoke' \in [Callbacks -> BindState \cup {NoBind}]
      /\ bind_state'[r] = bind_state[o] /\ bind_state'[o] = NoBind
      /\ \A e \in Callbacks \ {r, o} : bind_state'[e] = bind_state[e]
      /\ Sound(binds') /\ DestroyedWithTheLast' /\ FunctionsKnown'
  BY <1>1, <1>3, ReleasedKeeps
<1>5. /\ runners' \in [Runner -> {"none", "live", "dying"}] /\ runners'[r] = "live"
      /\ \A q \in Runner \ {r} : runners'[q] = runners[q]
  BY <1>2, <1>3 DEF ClosureTypeOK
<1>6. /\ \A q \in Runner \ {r, o} : bind_state'[q] = bind_state[q] /\ Kept(q)' = Kept(q)
      /\ Kept(r) = NoBind /\ Kept(r)' = Kept(o) /\ Kept(o)' = NoBind
  BY <1>1, <1>3, <1>4, <1>5 DEF Kept
<1>7. DyingStay
  BY <1>3, <1>5, <1>6 DEF DyingStay
<1>8. FramesKnown'
  BY <1>3, <1>7, FramesStay
<1>9. Owes(Kept(r), NoBind)
  BY <1>2, <1>3, <1>6 DEF Owes, ClosureTypeOK, CallbackAssumption
<1>10. RunsOnce' /\ owed' \in [BindState -> Int]
  BY <1>3, <1>6, <1>9, OwedExchange
<1>11. ClosureTypeOK'
  BY <1>2, <1>3, <1>4, <1>5, <1>10 DEF ClosureTypeOK, Sound, Heaps
<1>12. RunnersKnown'
  BY <1>2, <1>4, <1>5, <1>6 DEF RunnersKnown
<1>13. QED
  BY <1>4, <1>8, <1>10, <1>11, <1>12 DEF ClosureInv

\* Onto itself, too: the closure goes through the temporary and comes back.
LEMMA MoveAssignRunnerKeepsInv ==
  ASSUME CallbackAssumption, ClosureInv, NEW r \in Runner, NEW o \in Runner,
         MoveAssignRunner(r, o)
  PROVE  ClosureInv'
<1>1. r \in Callbacks /\ o \in Callbacks /\ Runner \subseteq Callbacks
  BY DEF Callbacks
<1>2. ClosureTypeOK /\ RunnersKnown /\ FunctionsKnown /\ Sound(binds)
  BY BindsAreSound DEF ClosureInv
<1>3. /\ runners[r] = "live" /\ runners[o] = "live" /\ ReleasedInto(r, o)
      /\ runners' = runners /\ stack' = stack
  BY DEF MoveAssignRunner, Live
<1>4. CASE r = o
  <2> DEFINE x == bind_state[r]
             t == ReleaseBind(AddBindRef(binds, x), x)
  <2>1. bind_state' = bind_state /\ invoke' = invoke /\ owed' = owed
    <3>1. /\ bind_state' = [bind_state EXCEPT ![r] = NoBind, ![r] = bind_state[r]]
          /\ invoke' = [invoke EXCEPT ![r] = NoBind, ![r] = invoke[r]]
          /\ owed' = owed
      BY <1>4 DEF ReleasedInto, MoveAssignRunner
    <3>2. QED
      BY <1>1, <1>2, <3>1 DEF ClosureTypeOK
  <2>2. Sound(binds') /\ Changed(binds, binds', NoBind, NoBind)
    <3>1. x \in BindState \cup {NoBind} /\ (x # NoBind => binds.refs[x] >= 1)
      BY <1>1, HeldByCallback
    <3>2. binds' = ReleaseBind(Reassigned(t, x, NoBind), x)
      BY <1>3, <1>4 DEF ReleasedInto
    <3> HIDE DEF x
    <3>3. QED
      BY <1>2, <3>1, <3>2, ReleasedEffect
  <2>3. DestroyedWithTheLast'
    <3>1. ASSUME NEW b \in BindState
          PROVE  /\ Cardinality(Holders(b)') \in Nat /\ Cardinality(LocalCopies(b)') \in Nat
                 /\ Cardinality(Holders(b)') + Cardinality(LocalCopies(b)')
                      = Cardinality(Holders(b)) + Cardinality(LocalCopies(b))
                        + One(NoBind, b) - One(NoBind, b)
      <4>1. Holders(b)' = Holders(b) /\ LocalCopies(b)' = LocalCopies(b)
        BY <1>3, <2>1 DEF Holders, LocalCopies
      <4>2. Cardinality(Holders(b)) \in Nat /\ Cardinality(LocalCopies(b)) \in Nat
        BY <1>2, HoldersAreFinite
      <4>3. One(NoBind, b) \in Int
        BY DEF One
      <4>4. QED
        BY <4>1, <4>2, <4>3
    <3>2. QED
      BY <2>2, <3>1, Counted
  <2>4. FramesKnown'
    BY <1>3, <2>1, FramesStay DEF DyingStay
  <2>5. RunsOnce' /\ owed' \in [BindState -> Int]
    BY <1>3, <2>1, OwedStay DEF Kept
  <2>6. ClosureTypeOK'
    BY <1>2, <1>3, <2>1, <2>2 DEF ClosureTypeOK, Sound, Heaps
  <2>7. RunnersKnown' /\ FunctionsKnown'
    BY <1>2, <1>3, <2>1 DEF RunnersKnown, FunctionsKnown
  <2>8. QED
    BY <2>3, <2>4, <2>5, <2>6, <2>7 DEF ClosureInv
<1>5. CASE r # o
  <2>1. /\ bind_state' \in [Callbacks -> BindState \cup {NoBind}]
        /\ invoke' \in [Callbacks -> BindState \cup {NoBind}]
        /\ bind_state'[r] = bind_state[o] /\ bind_state'[o] = NoBind
        /\ \A e \in Callbacks \ {r, o} : bind_state'[e] = bind_state[e]
        /\ Sound(binds') /\ DestroyedWithTheLast' /\ FunctionsKnown'
    BY <1>1, <1>3, <1>5, ReleasedKeeps
  <2>2. /\ \A q \in Runner \ {r, o} : bind_state'[q] = bind_state[q] /\ Kept(q)' = Kept(q)
        /\ Kept(r) = bind_state[r] /\ Kept(r)' = Kept(o) /\ Kept(o)' = NoBind
    BY <1>1, <1>3, <2>1 DEF Kept
  <2>3. DyingStay
    BY <1>3, <2>2 DEF DyingStay
  <2>4. FramesKnown'
    BY <1>3, <2>3, FramesStay
  <2>5. Owes(Kept(r), NoBind)
    BY <1>5, <2>2 DEF MoveAssignRunner
  <2>6. RunsOnce' /\ owed' \in [BindState -> Int]
    BY <1>5, <2>2, <2>5, OwedExchange
  <2>7. ClosureTypeOK'
    BY <1>2, <1>3, <2>1, <2>6 DEF ClosureTypeOK, Sound, Heaps
  <2>8. RunnersKnown'
    BY <1>2, <1>3, <2>1, <2>2 DEF RunnersKnown
  <2>9. QED
    BY <2>1, <2>4, <2>6, <2>7, <2>8 DEF ClosureInv
<1>6. QED
  BY <1>4, <1>5

-----------------------------------------------------------------------------
(* Callback: a closure returns.                                             *)

\* The frames below stay; a runner has one frame only.
LEMMA FramesPop ==
  ASSUME ClosureInv, stack # <<>>, stack' = SubSeq(stack, 1, Len(stack) - 1),
         \A q \in Runner \ {stack[Len(stack)].through} : runners[q] = "dying" =>
            runners'[q] = "dying" /\ bind_state'[q] = bind_state[q]
  PROVE  FramesKnown' /\ stack' \in Seq(Frame)
<1> DEFINE n == Len(stack)
<1>1. stack \in Seq(Frame) /\ n \in Nat \ {0}
  BY DEF ClosureInv, ClosureTypeOK
<1>2. /\ DOMAIN stack = 1..n /\ DOMAIN stack' = 1..(n - 1) /\ stack' \in Seq(Frame)
      /\ \A i \in 1..(n - 1) : stack'[i] = stack[i]
  BY <1>1
<1>3. \A i \in 1..(n - 1) : i \in 1..n /\ i # n
  BY <1>1
<1>4. n \in 1..n
  BY <1>1
<1>5. \A i \in 1..n : stack[i].through \in Runner =>
         /\ runners[stack[i].through] = "dying"
         /\ bind_state[stack[i].through] = stack[i].bind
         /\ \A j \in 1..n : stack[j].through = stack[i].through => j = i
  BY <1>2 DEF ClosureInv, FramesKnown
<1>6. \A q \in Runner : q # stack[n].through /\ runners[q] = "dying" =>
         runners'[q] = "dying" /\ bind_state'[q] = bind_state[q]
  OBVIOUS
<1> HIDE DEF n
<1>7. ASSUME NEW i \in 1..(n - 1), stack'[i].through \in Runner
      PROVE  /\ runners'[stack'[i].through] = "dying"
             /\ bind_state'[stack'[i].through] = stack'[i].bind
             /\ \A j \in 1..(n - 1) : stack'[j].through = stack'[i].through => j = i
  <2>1. stack'[i] = stack[i] /\ i \in 1..n /\ i # n
    BY <1>2, <1>3
  <2>2. stack[n].through # stack[i].through
    BY <1>4, <1>5, <1>7, <2>1
  <2>3. runners'[stack[i].through] = "dying" /\ bind_state'[stack[i].through] = stack[i].bind
    BY <1>5, <1>6, <1>7, <2>1, <2>2
  <2>4. ASSUME NEW j \in 1..(n - 1), stack'[j].through = stack'[i].through
        PROVE  j = i
    <3>1. stack'[j] = stack[j] /\ j \in 1..n
      BY <1>2, <1>3
    <3>2. QED
      BY <1>5, <1>7, <2>1, <2>4, <3>1
  <2>5. QED
    BY <2>1, <2>3, <2>4
<1>8. QED
  BY <1>2, <1>7 DEF FramesKnown

\* The frame's copy goes, or the runner that it was run by, or nothing.
LEMMA ReturnKeepsInv ==
  ASSUME CallbackAssumption, ClosureInv, Return
  PROVE  ClosureInv'
<1> DEFINE n == Len(stack)
           x == stack[n].bind
           r == stack[n].through
<1>1. ClosureTypeOK /\ RunnersKnown /\ FunctionsKnown /\ Sound(binds)
  BY BindsAreSound DEF ClosureInv
<1>2. stack # <<>> /\ stack' = SubSeq(stack, 1, n - 1) /\ owed' = owed
  BY DEF Return
<1>3. /\ n \in DOMAIN stack /\ x \in BindState /\ r \in Callbacks \cup {NoBind}
      /\ stack[n] = [bind |-> x, through |-> r]
  <2>1. stack \in Seq(Frame) /\ n \in Nat \ {0}
    BY <1>1, <1>2 DEF ClosureTypeOK
  <2>2. n \in DOMAIN stack /\ stack[n] \in Frame
    BY <2>1
  <2>3. QED
    BY <2>2 DEF Frame
<1>4. \A b \in BindState :
         /\ Cardinality(LocalCopies(b)') \in Nat
         /\ Cardinality(LocalCopies(b)') = Cardinality(LocalCopies(b))
                                           - (IF r = NoBind THEN One(x, b) ELSE 0)
  BY <1>1, <1>2, CopiesPop
<1>5. \A b \in BindState : Cardinality(Holders(b)) \in Nat /\ Cardinality(LocalCopies(b)) \in Nat
  BY <1>1, HoldersAreFinite
<1>6. \A b \in BindState : One(NoBind, b) = 0 /\ One(x, b) \in {0, 1}
  BY DEF One, CallbackAssumption
<1>7. NoBind \notin Runner
  BY DEF CallbackAssumption
<1>8. CASE r = NoBind
  <2>1. binds' = ReleaseBind(binds, x) /\ UNCHANGED callbacks /\ runners' = runners
    BY <1>8 DEF Return
  <2>2. bind_state' = bind_state /\ invoke' = invoke
    BY <2>1 DEF callbacks
  <2>3. binds.refs[x] >= 1
    <3>1. n \in LocalCopies(x)
      BY <1>3, <1>8 DEF LocalCopies
    <3>2. QED
      BY <1>3, <3>1, HeldIsLive
  <2>4. Sound(binds') /\ Changed(binds, binds', NoBind, x)
    BY <1>1, <1>3, <2>1, <2>3, ReleaseEffect
  <2>5. \A b \in BindState : Holders(b)' = Holders(b)
    BY <2>2 DEF Holders
  <2>6. DestroyedWithTheLast'
    <3> HIDE DEF x, r, n
    <3>1. \A b \in BindState :
             /\ Cardinality(Holders(b)') \in Nat /\ Cardinality(LocalCopies(b)') \in Nat
             /\ Cardinality(Holders(b)') + Cardinality(LocalCopies(b)')
                  = Cardinality(Holders(b)) + Cardinality(LocalCopies(b)) + One(NoBind, b) - One(x, b)
      BY <1>4, <1>5, <1>6, <1>8, <2>5
    <3>2. QED
      BY <2>4, <3>1, Counted
  <2>7. FramesKnown' /\ stack' \in Seq(Frame)
    BY <1>2, <2>1, <2>2, FramesPop
  <2>8. RunsOnce' /\ owed' \in [BindState -> Int]
    BY <1>2, <2>1, <2>2, OwedStay DEF Kept
  <2>9. ClosureTypeOK'
    BY <1>1, <2>1, <2>2, <2>4, <2>7, <2>8 DEF ClosureTypeOK, Sound, Heaps
  <2>10. RunnersKnown' /\ FunctionsKnown'
    BY <1>1, <2>1, <2>2 DEF RunnersKnown, FunctionsKnown
  <2>11. QED
    BY <2>6, <2>7, <2>8, <2>9, <2>10 DEF ClosureInv
<1>9. CASE r \in Runner
  <2>0. PICK q \in Runner : q = r
    BY <1>9
  <2>1. q # NoBind /\ q \in Callbacks /\ r # NoBind
    BY <1>7, <2>0 DEF Callbacks
  <2>2. /\ runners' = [runners EXCEPT ![q] = "none"] /\ Becomes(q, NoBind, NoBind)
        /\ binds' = ReleaseBind(binds, bind_state[q])
    BY <1>9, <2>0, <2>1 DEF Return
  <2>3. runners[q] = "dying" /\ bind_state[q] = x
    BY <1>3, <2>0 DEF ClosureInv, FramesKnown
  <2>4. binds.refs[x] >= 1
    <3>1. q \in Holders(x)
      BY <2>1, <2>3 DEF Holders
    <3>2. QED
      BY <1>3, <3>1, HeldIsLive
  <2>5. Sound(binds') /\ Changed(binds, binds', NoBind, x)
    BY <1>1, <1>3, <2>2, <2>3, <2>4, ReleaseEffect
  <2>6. \A b \in BindState :
           /\ Cardinality(Holders(b)') \in Nat
           /\ Cardinality(Holders(b)') = Cardinality(Holders(b)) + One(NoBind, b) - One(x, b)
    BY <1>1, <2>1, <2>2, <2>3, HoldersBecome
  <2> HIDE DEF x, r, n
  <2>7. DestroyedWithTheLast'
    <3>1. \A b \in BindState :
             /\ Cardinality(Holders(b)') \in Nat /\ Cardinality(LocalCopies(b)') \in Nat
             /\ Cardinality(Holders(b)') + Cardinality(LocalCopies(b)')
                  = Cardinality(Holders(b)) + Cardinality(LocalCopies(b)) + One(NoBind, b) - One(x, b)
      BY <1>4, <1>5, <1>6, <2>1, <2>6
    <3>2. QED
      BY <2>5, <3>1, Counted
  <2>8. /\ runners' \in [Runner -> {"none", "live", "dying"}] /\ runners'[q] = "none"
        /\ \A p \in Runner \ {q} : runners'[p] = runners[p]
    BY <1>1, <2>2 DEF ClosureTypeOK
  <2>9. \A p \in Runner \ {q} : bind_state'[p] = bind_state[p]
    BY <1>1, <2>2 DEF ClosureTypeOK, Becomes, Callbacks
  <2>10. FramesKnown' /\ stack' \in Seq(Frame)
    BY <1>2, <2>0, <2>8, <2>9, FramesPop DEF r, n
  <2>11. Kept(q) = NoBind /\ Kept(q)' = NoBind
    BY <2>3, <2>8 DEF Kept
  <2>12. Owes(NoBind, NoBind)
    BY <1>1, <1>2 DEF Owes, ClosureTypeOK, CallbackAssumption
  <2>13. QED
    BY <2>2, <2>5, <2>7, <2>8, <2>10, <2>11, <2>12, RunnerBecomesKeepsInv
<1>10. CASE r \in CallbackVar
  <2>1. r # NoBind /\ r \notin Runner
    BY <1>10 DEF CallbackAssumption
  <2>2. UNCHANGED callbacks /\ binds' = binds /\ runners' = runners
    BY <2>1 DEF Return
  <2>3. bind_state' = bind_state /\ invoke' = invoke
    BY <2>2 DEF callbacks
  <2>4. Changed(binds, binds', NoBind, NoBind) /\ Sound(binds')
    BY <1>1, <2>2 DEF Changed, Sound, Heaps, One
  <2>5. \A b \in BindState : Holders(b)' = Holders(b)
    BY <2>3 DEF Holders
  <2>6. DestroyedWithTheLast'
    <3> HIDE DEF x, r, n
    <3>1. \A b \in BindState :
             /\ Cardinality(Holders(b)') \in Nat /\ Cardinality(LocalCopies(b)') \in Nat
             /\ Cardinality(Holders(b)') + Cardinality(LocalCopies(b)')
                  = Cardinality(Holders(b)) + Cardinality(LocalCopies(b))
                    + One(NoBind, b) - One(NoBind, b)
      BY <1>4, <1>5, <1>6, <2>1, <2>5
    <3>2. QED
      BY <2>4, <3>1, Counted
  <2>7. FramesKnown' /\ stack' \in Seq(Frame)
    BY <1>2, <2>2, <2>3, FramesPop
  <2>8. RunsOnce' /\ owed' \in [BindState -> Int]
    BY <1>2, <2>2, <2>3, OwedStay DEF Kept
  <2>9. ClosureTypeOK'
    BY <1>1, <2>2, <2>3, <2>7, <2>8 DEF ClosureTypeOK
  <2>10. RunnersKnown' /\ FunctionsKnown'
    BY <1>1, <2>2, <2>3 DEF RunnersKnown, FunctionsKnown
  <2>11. QED
    BY <2>6, <2>7, <2>8, <2>9, <2>10 DEF ClosureInv
<1>11. QED
  BY <1>3, <1>8, <1>9, <1>10 DEF Callbacks

-----------------------------------------------------------------------------
(* Callback: the invariant.                                                 *)

\* Nothing is bound, nothing runs.
LEMMA ClosureInvInit ==
  ASSUME CallbackAssumption, ClosureInit
  PROVE  ClosureInv
<1>1. /\ bind_state = [c \in Callbacks |-> NoBind] /\ invoke = [c \in Callbacks |-> NoBind]
      /\ binds = [refs |-> [b \in BindState |-> 0], dead |-> {}]
      /\ runners = [r \in Runner |-> "none"] /\ stack = <<>> /\ owed = [b \in BindState |-> 0]
  BY DEF ClosureInit
<1>2. binds.refs = [b \in BindState |-> 0] /\ binds.dead = {}
  BY <1>1
<1>3. \A b \in BindState : Holders(b) = {} /\ LocalCopies(b) = {} /\ Keepers(b) = {}
  BY <1>1 DEF Holders, LocalCopies, Keepers, Live, CallbackAssumption
<1>4. Cardinality({}) = 0
  BY FS_EmptySet
<1>5. ClosureTypeOK
  <2>1. binds \in [refs : [BindState -> Nat], dead : SUBSET BindState]
    BY <1>1
  <2>2. stack \in Seq(Frame)
    BY <1>1
  <2>3. QED
    BY <1>1, <2>1, <2>2 DEF ClosureTypeOK
<1>6. DestroyedWithTheLast
  BY <1>2, <1>3, <1>4 DEF DestroyedWithTheLast
<1>7. RunsOnce
  BY <1>1, <1>3, <1>4 DEF RunsOnce
<1>8. RunnersKnown /\ FunctionsKnown
  BY <1>1 DEF RunnersKnown, FunctionsKnown, Callbacks
<1>9. FramesKnown
  BY <1>1 DEF FramesKnown
<1>10. QED
  BY <1>5, <1>6, <1>7, <1>8, <1>9 DEF ClosureInv

\* One lemma above for each operation.
LEMMA ClosureInvStep ==
  ASSUME CallbackAssumption, ClosureInv, [ClosureNext]_closureVars
  PROVE  ClosureInv'
<1>1. ASSUME NEW c \in CallbackVar, OnCallback(c)
      PROVE  ClosureInv'
  <2>1. ASSUME NEW b \in BindState, Bind(c, b)
        PROVE  ClosureInv'
    BY <2>1, BindKeepsInv
  <2>2. ASSUME NEW d \in CallbackVar, CopyAssign(c, d) \/ MoveAssign(c, d)
        PROVE  ClosureInv'
    BY <2>2, CopyAssignKeepsInv, MoveAssignKeepsInv
  <2>3. ASSUME Reset(c) \/ Run(c) \/ ResetAndReturn(c)
        PROVE  ClosureInv'
    BY <2>3, ResetKeepsInv, RunKeepsInv, ResetAndReturnKeepsInv
  <2>4. QED
    BY <1>1, <2>1, <2>2, <2>3 DEF OnCallback
<1>2. ASSUME NEW r \in Runner, OnRunner(r)
      PROVE  ClosureInv'
  <2>1. ASSUME NEW c \in CallbackVar,
               ConstructRunner(r, c) \/ ReplaceClosure(r, c) \/ ReleaseRunner(r, c)
        PROVE  ClosureInv'
    BY <2>1, ConstructRunnerKeepsInv, ReplaceClosureKeepsInv, ReleaseRunnerKeepsInv
  <2>2. ASSUME NEW o \in Runner, MoveConstruct(r, o) \/ MoveAssignRunner(r, o)
        PROVE  ClosureInv'
    BY <2>2, MoveConstructKeepsInv, MoveAssignRunnerKeepsInv
  <2>3. ASSUME RunAndReset(r) \/ DestroyRunner(r)
        PROVE  ClosureInv'
    BY <2>3, RunAndResetKeepsInv, DestroyRunnerKeepsInv
  <2>4. QED
    BY <1>2, <2>1, <2>2, <2>3 DEF OnRunner
<1>3. CASE Return
  BY <1>3, ReturnKeepsInv
<1>4. CASE UNCHANGED closureVars
  BY <1>4, ClosureStutter
<1>5. QED
  BY <1>1, <1>2, <1>3, <1>4 DEF ClosureNext

\* What runs is held by its own copy, or by the runner that is being destroyed; the
\* functions go where the bind states go.
LEMMA ClosureInvIsSafe ==
  ASSUME CallbackAssumption, ClosureInv
  PROVE  ClosuresAreSafe
<1>1. ClosureTypeOK /\ FramesKnown /\ FunctionsKnown
  BY DEF ClosureInv
<1>2. RunsOnSolidGround
  <2> SUFFICES ASSUME NEW i \in DOMAIN stack, stack[i].bind \in binds.dead
               PROVE  /\ stack[i].through \in CallbackVar
                      /\ bind_state[stack[i].through] # stack[i].bind
    BY DEF RunsOnSolidGround
  <2> DEFINE x == stack[i].bind
             y == stack[i].through
  <2>1. x \in BindState /\ y \in Callbacks \cup {NoBind} /\ stack[i] = [bind |-> x, through |-> y]
    <3>1. stack[i] \in Frame
      BY <1>1 DEF ClosureTypeOK
    <3>2. QED
      BY <3>1 DEF Frame
  <2>2. x \in binds.dead
    OBVIOUS
  <2> HIDE DEF x, y
  <2>3. Holders(x) = {} /\ LocalCopies(x) = {}
    BY <2>1, <2>2, HeldIsLive
  <2>4. y # NoBind
    BY <2>1, <2>3 DEF LocalCopies
  <2>5. y \in Callbacks /\ bind_state[y] # x
    BY <2>1, <2>3, <2>4 DEF Holders
  <2>6. y \notin Runner
    BY <1>1, <2>5 DEF FramesKnown, x, y
  <2>7. QED
    BY <2>5, <2>6 DEF x, y, Callbacks
<1>3. InvokesItsOwn
  BY <1>1 DEF InvokesItsOwn, FunctionsKnown, EqualsInternal, is_null
<1>4. QED
  BY <1>2, <1>3 DEF ClosuresAreSafe, ClosureInv

\* callback.h, callback_internal.cc, callback_helpers.cc: the inductive invariant.  The
\* reference count of a bind state is the number of callbacks, runners and local copies
\* that hold it; a runner that is being destroyed still has the closure that it runs, and
\* one frame runs it.
THEOREM ClosureInvariantHolds ==
  ASSUME CallbackAssumption
  PROVE  ClosureSpec => []ClosureInv
<1>1. ClosureInit => ClosureInv
  BY ClosureInvInit
<1>2. ClosureInv /\ [ClosureNext]_closureVars => ClosureInv'
  BY ClosureInvStep
<1>3. QED
  BY <1>1, <1>2, PTL DEF ClosureSpec

\* callback.h, callback_internal.cc, callback_helpers.cc: whatever a closure does to the
\* callbacks and the runners while it runs, it is not destroyed underneath unless it was run
\* in place through a variable that it changed itself; a bind state dies with its last
\* holder; a callback calls the function of its own arguments; and a ScopedClosureRunner
\* runs what it was given exactly once.
THEOREM ClosuresAlwaysSafe ==
  ASSUME CallbackAssumption
  PROVE  ClosureSpec => []ClosuresAreSafe
<1>1. ClosureInv => ClosuresAreSafe
  BY ClosureInvIsSafe
<1>2. QED
  BY <1>1, ClosureInvariantHolds, PTL

-----------------------------------------------------------------------------
\* The hands, and what is in each.
LEMMA HandsAre ==
  /\ \A s \in Scoper : <<s, "scoper">> \in Hand
  /\ \A t \in Opener : <<t, "opener">> \in Hand
  /\ \A h \in Hand : \/ \E s \in Scoper : h = <<s, "scoper">>
                     \/ \E t \in Opener : h = <<t, "opener">>
BY DEF Hand

LEMMA HandsHold ==
  /\ \A s \in Scoper : /\ HandHolds[<<s, "scoper">>] = IF Closed(s) THEN InvalidValue ELSE generic[s]
                       /\ HandGot[<<s, "scoper">>] = given[s]
  /\ \A t \in Opener :
       /\ HandHolds[<<t, "opener">>] = IF t \in Busy /\ task[t].next # Destroyed
                                       THEN task[t].next ELSE InvalidValue
       /\ HandGot[<<t, "opener">>] = IF t \in Busy THEN task[t].file ELSE 0
BY HandsAre DEF HandHolds, HandGot

LEMMA HandsHoldNext ==
  /\ \A s \in Scoper : /\ HandHolds'[<<s, "scoper">>] = IF Closed(s)' THEN InvalidValue ELSE generic'[s]
                       /\ HandGot'[<<s, "scoper">>] = given'[s]
  /\ \A t \in Opener :
       /\ HandHolds'[<<t, "opener">>] = IF t \in Busy' /\ task'[t].next # Destroyed
                                       THEN task'[t].next ELSE InvalidValue
       /\ HandGot'[<<t, "opener">>] = IF t \in Busy' THEN task'[t].file ELSE 0
BY HandsAre DEF HandHolds, HandGot

\* What InOneHand survives: two hands exchange what they have, ...
LEMMA HandsOver ==
  ASSUME NEW holds, NEW got, NEW holds2, NEW got2, NEW files, NEW free,
         InOneHand(holds, got, files, free), NEW a \in Hand, NEW b \in Hand,
         \A h \in Hand \ {a, b} : holds2[h] = holds[h] /\ got2[h] = got[h],
         holds2[a] = holds[b], holds2[a] # InvalidValue => got2[a] = got[b],
         holds2[b] = holds[a], holds2[b] # InvalidValue => got2[b] = got[a]
  PROVE  InOneHand(holds2, got2, files, free)
BY DEF InOneHand

\* ... an empty hand takes what the program has, or nothing, ...
LEMMA HandTakes ==
  ASSUME NEW holds, NEW got, NEW holds2, NEW got2, NEW files, NEW free,
         InOneHand(holds, got, files, free), NEW a \in Hand, NEW v \in free \cup {InvalidValue},
         holds[a] = InvalidValue, InvalidValue \notin Fd, free \subseteq Fd,
         \A h \in Hand \ {a} : holds2[h] = holds[h] /\ got2[h] = got[h],
         holds2[a] = v, v # InvalidValue => got2[a] = files[v]
  PROVE  InOneHand(holds2, got2, files, free \ {v})
BY DEF InOneHand

\* ... a hand gives to the program what it has, ...
LEMMA HandGives ==
  ASSUME NEW holds, NEW got, NEW holds2, NEW got2, NEW files, NEW free,
         InOneHand(holds, got, files, free), NEW a \in Hand,
         holds[a] # InvalidValue,
         \A h \in Hand \ {a} : holds2[h] = holds[h] /\ got2[h] = got[h],
         holds2[a] = InvalidValue
  PROVE  InOneHand(holds2, got2, files, free \cup {holds[a]})
BY DEF InOneHand

\* ... a hand closes what it has, ...
LEMMA HandCloses ==
  ASSUME NEW holds, NEW got, NEW holds2, NEW got2, NEW files, NEW free,
         InOneHand(holds, got, files, free), NEW a \in Hand,
         files \in [Fd -> 0..MaxFiles], holds[a] \in Fd, holds[a] # InvalidValue, free \subseteq Fd,
         \A h \in Hand : holds[h] \in Fd \cup {InvalidValue},
         \A h \in Hand \ {a} : holds2[h] = holds[h] /\ got2[h] = got[h],
         holds2[a] = InvalidValue
  PROVE  InOneHand(holds2, got2, [files EXCEPT ![holds[a]] = 0], free)
BY DEF InOneHand

\* ... and the program opens a descriptor that is not in use.
LEMMA HandOpens ==
  ASSUME NEW holds, NEW got, NEW files, NEW free, NEW fd \in Fd, NEW n \in Nat \ {0},
         InOneHand(holds, got, files, free), files[fd] = 0,
         files \in [Fd -> 0..MaxFiles], free \subseteq Fd,
         \A h \in Hand : holds[h] \in Fd \cup {InvalidValue}
  PROVE  InOneHand(holds, got, [files EXCEPT ![fd] = n], free \cup {fd})
BY DEF InOneHand

\* A hand has a descriptor or nothing.
LEMMA HandTypes == ASSUME ScopedTypeOK PROVE \A h \in Hand : HandHolds[h] \in Fd \cup {InvalidValue}
<1>1. ASSUME NEW s \in Scoper PROVE HandHolds[<<s, "scoper">>] \in Fd \cup {InvalidValue}
  BY HandsHold DEF ScopedTypeOK
<1>2. ASSUME NEW t \in Opener PROVE HandHolds[<<t, "opener">>] \in Fd \cup {InvalidValue}
  BY HandsHold DEF ScopedTypeOK, ResetTask, Busy
<1> QED BY <1>1, <1>2, HandsAre

-----------------------------------------------------------------------------
\* The operations, one by one: each is one of those.
LEMMA OpenKeeps ==
  ASSUME ScopedFileAssumption, ScopedInv, NEW t \in Opener, Open(t)
  PROVE  ScopedInv'
<1>1. PICK fd \in Fd : /\ file[fd] = 0 /\ file' = [file EXCEPT ![fd] = opened + 1]
                       /\ raw' = raw \cup {fd}
  BY DEF Open
<1>2. ScopedTypeOK'
  BY <1>1 DEF ScopedInv, ScopedTypeOK, Open, Valid, ScopedFileAssumption
<1>3. HandHolds' = HandHolds /\ HandGot' = HandGot
  BY DEF Open, HandHolds, HandGot, Closed, Busy
<1>4. InOneHand(HandHolds, HandGot, file', raw')
  <2>1. opened + 1 \in Nat \ {0}
    BY DEF ScopedInv, ScopedTypeOK, ScopedFileAssumption
  <2> QED BY <1>1, <2>1, HandOpens, HandTypes DEF ScopedInv, ScopedTypeOK
<1>5. InOneHand(HandHolds, HandGot, file, raw)'
  BY <1>3, <1>4
<1> QED
  BY <1>2, <1>5 DEF ScopedInv, Open, Busy, Valid, ClosesItsOwn

LEMMA ConstructKeeps ==
  ASSUME ScopedFileAssumption, ScopedInv, NEW t \in Opener, NEW s \in Scoper, ConstructScoper(t, s)
  PROVE  ScopedInv'
<1>1. PICK v \in raw \cup {InvalidValue} : Gets(s, v) /\ raw' = raw \ {v}
  BY DEF ConstructScoper
<1>2. ScopedTypeOK'
  BY <1>1
  DEF ScopedInv, ScopedTypeOK, ConstructScoper, Valid, ScopedFileAssumption, Gets, FileOf,
      kernel, InvalidValue
<1>3. \A x \in Scoper : Closed(x)' = Closed(x)
  BY DEF Closed, Busy, ConstructScoper
<1> DEFINE a == <<s, "scoper">>
<1>4. ~Closed(s) /\ HandHolds[a] = InvalidValue
  BY HandsHold DEF Closed, Busy, ConstructScoper, ScopedInv, ScopedTypeOK, Valid
<1>5. \A h \in Hand \ {a} : HandHolds'[h] = HandHolds[h] /\ HandGot'[h] = HandGot[h]
  BY <1>1, <1>3, HandsAre, HandsHold, HandsHoldNext
  DEF Gets, ConstructScoper, Busy, ScopedInv, ScopedTypeOK
<1>6. HandHolds'[a] = v /\ (v # InvalidValue => HandGot'[a] = file[v])
  BY <1>1, <1>3, <1>4, HandsHoldNext DEF Gets, ScopedInv, ScopedTypeOK, FileOf
<1>7. InOneHand(HandHolds', HandGot', file, raw \ {v})
  <2>1. InOneHand(HandHolds, HandGot, file, raw) /\ raw \subseteq Fd
    BY DEF ScopedInv, ScopedTypeOK
  <2>2. InvalidValue \notin Fd /\ a \in Hand
    BY HandsAre DEF ScopedFileAssumption, InvalidValue
  <2> HIDE DEF a
  <2> QED BY <1>4, <1>5, <1>6, <2>1, <2>2, HandTakes
<1>8. InOneHand(HandHolds, HandGot, file, raw)'
  BY <1>1, <1>7 DEF ConstructScoper, kernel
<1> QED
  BY <1>1, <1>2, <1>8
  DEF ScopedInv, ScopedTypeOK, ConstructScoper, kernel, Busy, Valid, ClosesItsOwn, Gets

LEMMA MoveConstructKeeps ==
  ASSUME ScopedFileAssumption, ScopedInv, NEW t \in Opener, NEW s \in Scoper, NEW o \in Scoper,
         MoveConstructScoper(t, s, o)
  PROVE  ScopedInv'
<1>1. s # o /\ ~Closed(s) /\ ~Closed(o)
  BY DEF MoveConstructScoper, Closed, Free, Busy, ScopedInv
<1>2. ScopedTypeOK'
  BY <1>1
  DEF ScopedInv, ScopedTypeOK, MoveConstructScoper, Valid, ScopedFileAssumption, kernel,
      InvalidValue
<1>3. \A x \in Scoper : Closed(x)' = Closed(x)
  BY DEF Closed, Busy, MoveConstructScoper
<1> DEFINE a == <<s, "scoper">>
           b == <<o, "scoper">>
<1>4. HandHolds[a] = InvalidValue
  BY <1>1, HandsHold DEF MoveConstructScoper, ScopedInv, ScopedTypeOK, Valid
<1>5. \A h \in Hand \ {a, b} : HandHolds'[h] = HandHolds[h] /\ HandGot'[h] = HandGot[h]
  BY <1>1, <1>3, HandsAre, HandsHold, HandsHoldNext
  DEF MoveConstructScoper, Busy, ScopedInv, ScopedTypeOK
<1>6. /\ HandHolds'[a] = HandHolds[b] /\ HandGot'[a] = HandGot[b]
      /\ HandHolds'[b] = InvalidValue
  BY <1>1, <1>3, HandsHold, HandsHoldNext DEF MoveConstructScoper, ScopedInv, ScopedTypeOK
<1>7. InOneHand(HandHolds', HandGot', file, raw)
  <2>1. InOneHand(HandHolds, HandGot, file, raw) /\ a \in Hand /\ b \in Hand
    BY HandsAre DEF ScopedInv
  <2> HIDE DEF a, b
  <2> QED BY <1>4, <1>5, <1>6, <2>1, HandsOver
<1>8. InOneHand(HandHolds, HandGot, file, raw)'
  BY <1>7 DEF MoveConstructScoper, kernel
<1> QED
  BY <1>1, <1>2, <1>8
  DEF ScopedInv, ScopedTypeOK, MoveConstructScoper, kernel, Busy, Free, Valid, ClosesItsOwn

\* A thread begins a reset of a scoper that has something.
LEMMA ResetBegins ==
  ASSUME ScopedInv, NEW t \in Opener, NEW s \in Scoper, NEW v \in Fd \cup {InvalidValue, Destroyed},
         NEW f \in 0..MaxFiles, Ready(t), s \in exists, Free(s), Valid(s),
         task' = [task EXCEPT ![t] = [do |-> "close", scoper |-> s, next |-> v, file |-> f]],
         exists' = exists, \A x \in Scoper : (Free(x) /\ x # s) \/ generic'[x] = generic[x]
  PROVE  /\ task' \in [Opener -> ResetTask \cup {NoTask}]
         /\ t \notin Busy /\ t \in Busy' /\ task'[t].next = v /\ task'[t].file = f
         /\ \A u \in Opener \ {t} : task'[u] = task[u] /\ (u \in Busy' <=> u \in Busy)
         /\ ~Closed(s) /\ \A x \in Scoper : Closed(x)' = Closed(x)
         /\ \A u \in Busy' : /\ task'[u].scoper \in exists'
                             /\ generic'[task'[u].scoper] # InvalidValue
         /\ \A u, w \in Busy' : task'[u].scoper = task'[w].scoper => u = w
<1> DEFINE new == [do |-> "close", scoper |-> s, next |-> v, file |-> f]
<1>1. /\ task' \in [Opener -> ResetTask \cup {NoTask}]
      /\ task'[t] = new /\ \A u \in Opener \ {t} : task'[u] = task[u]
  BY DEF ScopedInv, ScopedTypeOK, ResetTask
<1>2. t \notin Busy /\ t \in Busy' /\ \A u \in Opener \ {t} : u \in Busy' <=> u \in Busy
  BY <1>1 DEF Busy, NoTask, Ready
<1>3. ~Closed(s) /\ \A x \in Scoper : Closed(x)' = Closed(x)
  BY <1>1, <1>2 DEF Closed, Busy, Free
<1>4. \A u \in Busy : /\ task[u].scoper \in exists /\ generic[task[u].scoper] # InvalidValue
                      /\ task[u].scoper # s /\ generic'[task[u].scoper] = generic[task[u].scoper]
  BY DEF ScopedInv, ScopedTypeOK, Valid, Free
<1>5. generic'[s] # InvalidValue /\ task'[t].scoper = s
  BY <1>1 DEF Valid
<1>6. \A u \in Busy' : u = t \/ (u \in Busy /\ task'[u] = task[u])
  BY <1>1, <1>2 DEF Busy
<1>7. \A u \in Busy' : task'[u].scoper \in exists' /\ generic'[task'[u].scoper] # InvalidValue
  BY <1>4, <1>5, <1>6
<1>8. \A u, w \in Busy' : task'[u].scoper = task'[w].scoper => u = w
  BY <1>4, <1>5, <1>6 DEF ScopedInv
<1> QED
  BY <1>1, <1>2, <1>3, <1>7, <1>8

LEMMA ResetKeeps ==
  ASSUME ScopedFileAssumption, ScopedInv, NEW t \in Opener, NEW s \in Scoper, ResetScoper(t, s)
  PROVE  ScopedInv'
<1>1. t \notin Busy /\ ~Closed(s) /\ s \in exists
  BY DEF ResetScoper, Ready, Closed, Free, Busy
<1>2. PICK v \in raw \cup {InvalidValue, generic[s]} :
        IF Valid(s) /\ v = generic[s]
        THEN aborted' = TRUE /\ UNCHANGED <<generic, given, task, raw>>
        ELSE /\ ResetFrom(t, s, generic[s], v)
             /\ IF Valid(s) THEN UNCHANGED <<generic, given>> ELSE Gets(s, v)
             /\ raw' = raw \ {v} /\ UNCHANGED aborted
  BY DEF ResetScoper
<1>3. file' = file /\ opened' = opened /\ lost' = lost /\ exists' = exists
  BY DEF ResetScoper, kernel
<1>4. InOneHand(HandHolds, HandGot, file, raw) /\ raw \subseteq Fd /\ InvalidValue \notin Fd
  BY DEF ScopedInv, ScopedTypeOK, ScopedFileAssumption, InvalidValue
<1>5. CASE Valid(s) /\ v = generic[s]
  <2>1. HandHolds' = HandHolds /\ HandGot' = HandGot
    BY <1>2, <1>5 DEF HandHolds, HandGot, Closed, Busy
  <2> QED
    BY <1>2, <1>3, <1>5, <2>1 DEF ScopedInv, ScopedTypeOK, Busy, Valid, ClosesItsOwn, InOneHand
<1>6. CASE Valid(s) /\ v # generic[s]
  <2> DEFINE a == <<t, "opener">>
  <2>1. /\ task' = [task EXCEPT ![t] = [do |-> "close", scoper |-> s, next |-> v,
                                   file |-> FileOf(v)]]
        /\ generic' = generic /\ given' = given
        /\ raw' = raw \ {v} /\ aborted' = aborted /\ v \in raw \cup {InvalidValue}
    BY <1>2, <1>6 DEF ResetFrom, Valid
  <2>2. FileOf(v) \in 0..MaxFiles /\ (v # InvalidValue => FileOf(v) = file[v])
    BY <2>1, <1>4 DEF FileOf, ScopedInv, ScopedTypeOK, ScopedFileAssumption
  <2>3. /\ task' \in [Opener -> ResetTask \cup {NoTask}]
        /\ t \notin Busy /\ t \in Busy' /\ task'[t].next = v /\ task'[t].file = FileOf(v)
        /\ \A u \in Opener \ {t} : task'[u] = task[u] /\ (u \in Busy' <=> u \in Busy)
        /\ \A x \in Scoper : Closed(x)' = Closed(x)
        /\ \A u \in Busy' : /\ task'[u].scoper \in exists'
                            /\ generic'[task'[u].scoper] # InvalidValue
        /\ \A u, w \in Busy' : task'[u].scoper = task'[w].scoper => u = w
    <3>1. /\ Ready(t) /\ Free(s) /\ v \in Fd \cup {InvalidValue, Destroyed}
          /\ \A x \in Scoper : (Free(x) /\ x # s) \/ generic'[x] = generic[x]
      BY <1>4, <2>1 DEF ResetScoper
    <3>2. task' = [task EXCEPT ![t] = [do |-> "close", scoper |-> s, next |-> v, file |-> FileOf(v)]]
      BY <2>1
    <3> QED BY <1>1, <1>3, <1>6, <2>2, <3>1, <3>2, ResetBegins
  <2>4. HandHolds[a] = InvalidValue /\ HandHolds'[a] = v
    <3>1. v # Destroyed
      BY <2>1, <1>4 DEF Destroyed, InvalidValue, ScopedFileAssumption
    <3> QED BY <2>3, <3>1, HandsHold, HandsHoldNext
  <2>5. \A h \in Hand \ {a} : HandHolds'[h] = HandHolds[h] /\ HandGot'[h] = HandGot[h]
    BY <2>1, <2>3, HandsAre, HandsHold, HandsHoldNext
  <2>6. v # InvalidValue => HandGot'[a] = file[v]
    BY <2>2, <2>3, HandsHoldNext
  <2>7. InOneHand(HandHolds', HandGot', file, raw \ {v})
    <3>1. a \in Hand /\ v \in raw \cup {InvalidValue}
      BY HandsAre, <2>1
    <3> HIDE DEF a
    <3> QED BY <1>4, <2>4, <2>5, <2>6, <3>1, HandTakes
  <2>8. InOneHand(HandHolds, HandGot, file, raw)'
    BY <2>7, <1>3, <2>1
  <2>9. ScopedTypeOK'
    BY <1>3, <2>1, <2>3 DEF ScopedInv, ScopedTypeOK, Valid
  <2> QED
    BY <1>3, <2>3, <2>8, <2>9 DEF ScopedInv, Valid, ClosesItsOwn
<1>7. CASE ~Valid(s)
  <2> DEFINE a == <<s, "scoper">>
  <2>1. /\ Gets(s, v) /\ raw' = raw \ {v} /\ aborted' = aborted /\ task' = task
        /\ v \in raw \cup {InvalidValue}
    BY <1>2, <1>7 DEF ResetFrom, Valid
  <2>2. ScopedTypeOK'
    BY <1>1, <1>3, <2>1
    DEF ScopedInv, ScopedTypeOK, Valid, ScopedFileAssumption, Gets, FileOf, InvalidValue
  <2>3. \A x \in Scoper : Closed(x)' = Closed(x)
    BY <2>1 DEF Closed, Busy
  <2>4. HandHolds[a] = InvalidValue
    BY <1>7, HandsHold DEF Valid
  <2>5. \A h \in Hand \ {a} : HandHolds'[h] = HandHolds[h] /\ HandGot'[h] = HandGot[h]
    BY <2>1, <2>3, HandsAre, HandsHold, HandsHoldNext DEF Gets, Busy, ScopedInv, ScopedTypeOK
  <2>6. HandHolds'[a] = v /\ (v # InvalidValue => HandGot'[a] = file[v])
    BY <1>1, <2>1, <2>3, HandsHoldNext DEF Gets, ScopedInv, ScopedTypeOK, FileOf
  <2>7. InOneHand(HandHolds', HandGot', file, raw \ {v})
    <3>1. a \in Hand /\ v \in raw \cup {InvalidValue}
      BY HandsAre, <2>1
    <3> HIDE DEF a
    <3> QED BY <1>4, <2>4, <2>5, <2>6, <3>1, HandTakes
  <2>8. InOneHand(HandHolds, HandGot, file, raw)'
    BY <2>7, <1>3, <2>1
  <2> QED
    BY <1>3, <1>7, <2>1, <2>2, <2>8
    DEF ScopedInv, ScopedTypeOK, Busy, Valid, ClosesItsOwn, Gets
<1> QED
  BY <1>5, <1>6, <1>7

LEMMA MoveAssignKeeps ==
  ASSUME ScopedFileAssumption, ScopedInv, NEW t \in Opener, NEW s \in Scoper, NEW o \in Scoper,
         MoveAssignScoper(t, s, o)
  PROVE  ScopedInv'
<1>1. /\ file' = file /\ opened' = opened /\ lost' = lost /\ exists' = exists /\ raw' = raw
      /\ aborted' = aborted /\ Ready(t) /\ s \in exists /\ o \in exists /\ Free(s) /\ Free(o)
  BY DEF MoveAssignScoper, kernel
<1>2. /\ ~Closed(s) /\ ~Closed(o) /\ InvalidValue \notin Fd
      /\ InOneHand(HandHolds, HandGot, file, raw)
  BY <1>1 DEF Closed, Free, ScopedInv, ScopedFileAssumption, InvalidValue
<1>3. CASE s = o
  <2>1. generic' = generic /\ given' = given /\ task' = task
    BY <1>3 DEF MoveAssignScoper, ResetFrom, ScopedInv, ScopedTypeOK
  <2>2. HandHolds' = HandHolds /\ HandGot' = HandGot
    BY <2>1 DEF HandHolds, HandGot, Closed, Busy
  <2> QED
    BY <1>1, <2>1, <2>2 DEF ScopedInv, ScopedTypeOK, Busy, Valid, ClosesItsOwn, InOneHand
<1>4. CASE s # o /\ ~Valid(s)
  <2> DEFINE a == <<s, "scoper">>
             b == <<o, "scoper">>
  <2>1. /\ generic' = [generic EXCEPT ![o] = InvalidValue, ![s] = generic[o]]
        /\ given' = [given EXCEPT ![o] = 0, ![s] = given[o]] /\ task' = task
    BY <1>4 DEF MoveAssignScoper, ResetFrom, Valid
  <2>2. ScopedTypeOK'
    BY <1>1, <1>4, <2>1 DEF ScopedInv, ScopedTypeOK, Valid, ScopedFileAssumption, InvalidValue
  <2>3. \A x \in Scoper : Closed(x)' = Closed(x)
    BY <2>1 DEF Closed, Busy
  <2>4. HandHolds[a] = InvalidValue
    BY <1>4, HandsHold DEF Valid
  <2>5. \A h \in Hand \ {a, b} : HandHolds'[h] = HandHolds[h] /\ HandGot'[h] = HandGot[h]
    BY <2>1, <2>3, HandsAre, HandsHold, HandsHoldNext DEF Busy, ScopedInv, ScopedTypeOK
  <2>6. /\ HandHolds'[a] = HandHolds[b] /\ HandGot'[a] = HandGot[b]
        /\ HandHolds'[b] = InvalidValue
    BY <1>2, <1>4, <2>1, <2>3, HandsHold, HandsHoldNext DEF ScopedInv, ScopedTypeOK
  <2>7. InOneHand(HandHolds', HandGot', file, raw)
    <3>1. a \in Hand /\ b \in Hand
      BY HandsAre
    <3> HIDE DEF a, b
    <3> QED BY <1>2, <2>4, <2>5, <2>6, <3>1, HandsOver
  <2>8. InOneHand(HandHolds, HandGot, file, raw)'
    BY <2>7, <1>1
  <2> QED
    BY <1>1, <1>4, <2>1, <2>2, <2>8
    DEF ScopedInv, ScopedTypeOK, Busy, Free, Valid, ClosesItsOwn
<1>5. CASE s # o /\ Valid(s)
  <2> DEFINE a == <<t, "opener">>
             b == <<o, "scoper">>
             v == generic[o]
  <2>1. /\ generic' = [generic EXCEPT ![o] = InvalidValue] /\ given' = [given EXCEPT ![o] = 0]
        /\ task' = [task EXCEPT ![t] = [do |-> "close", scoper |-> s, next |-> v,
                                        file |-> FileOf(v)]]
    BY <1>5 DEF MoveAssignScoper, ResetFrom, Valid
  <2>2. FileOf(v) \in 0..MaxFiles /\ (v # InvalidValue => FileOf(v) = file[v])
        /\ v \in Fd \cup {InvalidValue}
    <3>1. v \in Fd \cup {InvalidValue}
      BY DEF ScopedInv, ScopedTypeOK
    <3> HIDE DEF v
    <3> QED BY <3>1 DEF FileOf, ScopedInv, ScopedTypeOK, ScopedFileAssumption
  <2>3. /\ task' \in [Opener -> ResetTask \cup {NoTask}]
        /\ t \notin Busy /\ t \in Busy' /\ task'[t].next = v /\ task'[t].file = FileOf(v)
        /\ \A u \in Opener \ {t} : task'[u] = task[u] /\ (u \in Busy' <=> u \in Busy)
        /\ \A x \in Scoper : Closed(x)' = Closed(x)
        /\ \A u \in Busy' : /\ task'[u].scoper \in exists'
                            /\ generic'[task'[u].scoper] # InvalidValue
        /\ \A u, w \in Busy' : task'[u].scoper = task'[w].scoper => u = w
    <3>1. \A x \in Scoper : (Free(x) /\ x # s) \/ generic'[x] = generic[x]
      BY <1>1, <1>5, <2>1 DEF ScopedInv, ScopedTypeOK
    <3>2. v \in Fd \cup {InvalidValue, Destroyed}
      BY <2>2
    <3> HIDE DEF v
    <3> QED BY <1>1, <1>5, <2>1, <2>2, <3>1, <3>2, ResetBegins
  <2>4. /\ HandHolds[a] = InvalidValue /\ HandHolds'[a] = HandHolds[b]
        /\ HandHolds'[b] = InvalidValue
    <3>1. v # Destroyed
      BY <2>2 DEF Destroyed, InvalidValue, ScopedFileAssumption
    <3>2. HandHolds'[b] = InvalidValue
      BY <1>2, <2>1, <2>3, HandsHoldNext DEF ScopedInv, ScopedTypeOK
    <3> QED BY <1>2, <2>3, <3>1, <3>2, HandsHold, HandsHoldNext
  <2>5. \A h \in Hand \ {a, b} : HandHolds'[h] = HandHolds[h] /\ HandGot'[h] = HandGot[h]
    BY <2>1, <2>3, HandsAre, HandsHold, HandsHoldNext DEF ScopedInv, ScopedTypeOK
  <2>6. HandHolds'[a] # InvalidValue => HandGot'[a] = HandGot[b]
    <3>1. HandGot'[a] = FileOf(v) /\ HandHolds[b] = v /\ b \in Hand
      BY <1>2, <2>3, HandsAre, HandsHold, HandsHoldNext
    <3>2. v # InvalidValue => file[v] = HandGot[b]
      BY <1>2, <3>1 DEF InOneHand
    <3> QED BY <2>2, <2>4, <3>1, <3>2
  <2>7. InOneHand(HandHolds', HandGot', file, raw)
    <3>1. a \in Hand /\ b \in Hand
      BY HandsAre
    <3> HIDE DEF a, b
    <3> QED BY <1>2, <2>4, <2>5, <2>6, <3>1, HandsOver
  <2>8. InOneHand(HandHolds, HandGot, file, raw)'
    BY <2>7, <1>1
  <2>9. ScopedTypeOK'
    BY <1>1, <1>5, <2>1, <2>3 DEF ScopedInv, ScopedTypeOK, Valid, ScopedFileAssumption
  <2> QED
    BY <1>1, <2>3, <2>8, <2>9 DEF ScopedInv, Valid, ClosesItsOwn
<1> QED
  BY <1>3, <1>4, <1>5

LEMMA SwapKeeps ==
  ASSUME ScopedFileAssumption, ScopedInv, NEW t \in Opener, NEW s \in Scoper, NEW o \in Scoper,
         SwapScopers(t, s, o)
  PROVE  ScopedInv'
<1>1. ~Closed(s) /\ ~Closed(o)
  BY DEF SwapScopers, Closed, Free
<1>2. ScopedTypeOK'
  BY DEF ScopedInv, ScopedTypeOK, SwapScopers, Valid, kernel
<1>3. \A x \in Scoper : Closed(x)' = Closed(x)
  BY DEF Closed, Busy, SwapScopers
<1> DEFINE a == <<s, "scoper">>
           b == <<o, "scoper">>
<1>4. \A h \in Hand \ {a, b} : HandHolds'[h] = HandHolds[h] /\ HandGot'[h] = HandGot[h]
  BY <1>3, HandsAre, HandsHold, HandsHoldNext DEF SwapScopers, Busy, ScopedInv, ScopedTypeOK
<1>5. /\ HandHolds'[a] = HandHolds[b] /\ HandGot'[a] = HandGot[b]
      /\ HandHolds'[b] = HandHolds[a] /\ HandGot'[b] = HandGot[a]
  BY <1>1, <1>3, HandsHold, HandsHoldNext DEF SwapScopers, ScopedInv, ScopedTypeOK
<1>6. InOneHand(HandHolds', HandGot', file, raw)
  <2>1. InOneHand(HandHolds, HandGot, file, raw) /\ a \in Hand /\ b \in Hand
    BY HandsAre DEF ScopedInv
  <2> HIDE DEF a, b
  <2> QED BY <1>4, <1>5, <2>1, HandsOver
<1>7. InOneHand(HandHolds, HandGot, file, raw)'
  BY <1>6 DEF SwapScopers, kernel
<1> QED
  BY <1>1, <1>2, <1>7
  DEF ScopedInv, ScopedTypeOK, SwapScopers, kernel, Busy, Free, Valid, ClosesItsOwn

LEMMA ReleaseKeeps ==
  ASSUME ScopedFileAssumption, ScopedInv, NEW t \in Opener, NEW s \in Scoper, ReleaseScoper(t, s)
  PROVE  ScopedInv'
<1>1. ~Closed(s) /\ generic[s] # InvalidValue
  BY DEF ReleaseScoper, Closed, Free, Valid
<1>2. ScopedTypeOK'
  <2>1. generic[s] \in Fd /\ 0 \in 0..MaxFiles
    BY <1>1 DEF ScopedInv, ScopedTypeOK, ScopedFileAssumption
  <2>2. /\ generic' = [generic EXCEPT ![s] = InvalidValue] /\ given' = [given EXCEPT ![s] = 0]
        /\ raw' = raw \cup {generic[s]}
    BY DEF ReleaseScoper, Gets, FileOf
  <2> QED
    BY <2>1, <2>2 DEF ScopedInv, ScopedTypeOK, ReleaseScoper, Valid, kernel
<1>3. \A x \in Scoper : Closed(x)' = Closed(x)
  BY DEF Closed, Busy, ReleaseScoper
<1> DEFINE a == <<s, "scoper">>
<1>4. HandHolds[a] = generic[s] /\ HandHolds'[a] = InvalidValue
  BY <1>1, <1>3, HandsHold, HandsHoldNext DEF ReleaseScoper, Gets, ScopedInv, ScopedTypeOK
<1>5. \A h \in Hand \ {a} : HandHolds'[h] = HandHolds[h] /\ HandGot'[h] = HandGot[h]
  BY <1>3, HandsAre, HandsHold, HandsHoldNext
  DEF ReleaseScoper, Gets, Busy, ScopedInv, ScopedTypeOK
<1>6. InOneHand(HandHolds', HandGot', file, raw \cup {HandHolds[a]})
  <2>1. InOneHand(HandHolds, HandGot, file, raw) /\ a \in Hand
    BY HandsAre DEF ScopedInv
  <2> HIDE DEF a
  <2> QED BY <1>1, <1>4, <1>5, <2>1, HandGives
<1>7. InOneHand(HandHolds, HandGot, file, raw)'
  BY <1>4, <1>6 DEF ReleaseScoper, kernel
<1> QED
  BY <1>1, <1>2, <1>7
  DEF ScopedInv, ScopedTypeOK, ReleaseScoper, Gets, kernel, Busy, Free, Valid, ClosesItsOwn

LEMMA DestroyKeeps ==
  ASSUME ScopedFileAssumption, ScopedInv, NEW t \in Opener, NEW s \in Scoper, DestroyScoper(t, s)
  PROVE  ScopedInv'
<1>1. /\ file' = file /\ opened' = opened /\ lost' = lost /\ raw' = raw /\ generic' = generic
      /\ given' = given /\ aborted' = aborted /\ Ready(t) /\ s \in exists /\ Free(s)
  BY DEF DestroyScoper, kernel
<1>2. CASE ~Valid(s)
  <2>1. exists' = exists \ {s} /\ task' = task
    BY <1>2 DEF DestroyScoper
  <2>2. HandHolds' = HandHolds /\ HandGot' = HandGot
    BY <1>1, <2>1 DEF HandHolds, HandGot, Closed, Busy
  <2> QED
    BY <1>1, <1>2, <2>1, <2>2
    DEF ScopedInv, ScopedTypeOK, Busy, Free, Valid, ClosesItsOwn, InOneHand
<1>3. CASE Valid(s)
  <2>1. /\ exists' = exists
        /\ task' = [task EXCEPT ![t] = [do |-> "close", scoper |-> s, next |-> Destroyed,
                                        file |-> 0]]
    BY <1>3 DEF DestroyScoper
  <2>2. /\ task' \in [Opener -> ResetTask \cup {NoTask}]
        /\ t \notin Busy /\ t \in Busy' /\ task'[t].next = Destroyed /\ task'[t].file = 0
        /\ \A u \in Opener \ {t} : task'[u] = task[u] /\ (u \in Busy' <=> u \in Busy)
        /\ \A x \in Scoper : Closed(x)' = Closed(x)
        /\ \A u \in Busy' : /\ task'[u].scoper \in exists'
                            /\ generic'[task'[u].scoper] # InvalidValue
        /\ \A u, w \in Busy' : task'[u].scoper = task'[w].scoper => u = w
    <3>1. 0 \in 0..MaxFiles /\ Destroyed \in Fd \cup {InvalidValue, Destroyed}
          /\ \A x \in Scoper : (Free(x) /\ x # s) \/ generic'[x] = generic[x]
      BY <1>1 DEF ScopedFileAssumption
    <3> QED BY <1>1, <1>3, <2>1, <3>1, ResetBegins
  <2>3. \A h \in Hand : HandHolds'[h] = HandHolds[h] /\ HandGot'[h] = HandGot[h]
    BY <1>1, <2>2, HandsAre, HandsHold, HandsHoldNext
  <2>4. InOneHand(HandHolds', HandGot', file, raw)
    BY <2>3 DEF InOneHand, ScopedInv
  <2>5. InOneHand(HandHolds, HandGot, file, raw)'
    BY <2>4, <1>1
  <2>6. ScopedTypeOK'
    BY <1>1, <2>1, <2>2 DEF ScopedInv, ScopedTypeOK, Valid
  <2> QED
    BY <1>1, <2>2, <2>5, <2>6 DEF ScopedInv, Valid, ClosesItsOwn
<1> QED
  BY <1>2, <1>3

LEMMA CloseKeeps ==
  ASSUME ScopedFileAssumption, ScopedInv, NEW t \in Opener, Close(t)
  PROVE  ScopedInv'
<1>1. PICK s \in Scoper : /\ t \in Busy /\ task[t].do = "close" /\ s = task[t].scoper
                           /\ generic[s] \in Fd /\ generic[s] # InvalidValue
                           /\ InvalidValue \notin Fd
  BY DEF Close, Busy, ScopedInv, ScopedTypeOK, Valid, NoTask, InvalidValue, ScopedFileAssumption
<1> DEFINE a == <<s, "scoper">>
<1>2. /\ task' = [task EXCEPT ![t].do = "set"] /\ file' = [file EXCEPT ![generic[s]] = 0]
      /\ generic' = generic /\ given' = given /\ raw' = raw /\ exists' = exists
      /\ opened' = opened /\ aborted' = aborted
  BY <1>1 DEF Close, Closes
<1>3. task[t] \in ResetTask
  BY <1>1 DEF ScopedInv, ScopedTypeOK, Busy
<1>4. /\ task'[t] \in ResetTask
      /\ task'[t].do = "set" /\ task'[t].scoper = s /\ task'[t].next = task[t].next
      /\ task'[t].file = task[t].file /\ \A u \in Opener \ {t} : task'[u] = task[u]
  BY <1>1, <1>2, <1>3 DEF ScopedInv, ScopedTypeOK, ResetTask
<1>5. Busy' = Busy
  BY <1>1, <1>4 DEF Busy, NoTask
<1>6. ~Closed(s) /\ Closed(s)'
  BY <1>1, <1>4, <1>5 DEF Closed, ScopedInv
<1>7. \A x \in Scoper \ {s} : Closed(x)' = Closed(x)
  BY <1>1, <1>4, <1>5 DEF Closed, Busy
<1>8. HandHolds[a] = generic[s] /\ HandGot[a] = given[s] /\ HandHolds'[a] = InvalidValue
  BY <1>1, <1>6, HandsHold, HandsHoldNext
<1>9. \A h \in Hand \ {a} : HandHolds'[h] = HandHolds[h] /\ HandGot'[h] = HandGot[h]
  <2>1. \A u \in Opener : /\ HandHolds'[<<u, "opener">>] = HandHolds[<<u, "opener">>]
                          /\ HandGot'[<<u, "opener">>] = HandGot[<<u, "opener">>]
    <3> SUFFICES ASSUME NEW u \in Opener
                 PROVE  /\ HandHolds'[<<u, "opener">>] = HandHolds[<<u, "opener">>]
                        /\ HandGot'[<<u, "opener">>] = HandGot[<<u, "opener">>]
      OBVIOUS
    <3>1. task'[u].next = task[u].next /\ task'[u].file = task[u].file
      BY <1>4
    <3> QED BY <1>5, <3>1, HandsHold, HandsHoldNext
  <2>2. \A x \in Scoper \ {s} : /\ HandHolds'[<<x, "scoper">>] = HandHolds[<<x, "scoper">>]
                                /\ HandGot'[<<x, "scoper">>] = HandGot[<<x, "scoper">>]
    <3> SUFFICES ASSUME NEW x \in Scoper \ {s}
                 PROVE  /\ HandHolds'[<<x, "scoper">>] = HandHolds[<<x, "scoper">>]
                        /\ HandGot'[<<x, "scoper">>] = HandGot[<<x, "scoper">>]
      OBVIOUS
    <3>1. Closed(x)' = Closed(x)
      BY <1>7
    <3> QED BY <1>2, <3>1, HandsHold, HandsHoldNext
  <2> QED BY <2>1, <2>2, HandsAre
<1>10. a \in Hand /\ InOneHand(HandHolds, HandGot, file, raw)
  BY <1>1, HandsAre DEF ScopedInv
<1>11. lost' = {}
  <2>1. file[generic[s]] = given[s]
    BY <1>1, <1>8, <1>10 DEF InOneHand
  <2> QED BY <1>1, <2>1 DEF Close, Closes, ScopedInv, ClosesItsOwn
<1>12. InOneHand(HandHolds', HandGot', [file EXCEPT ![HandHolds[a]] = 0], raw)
  <2>1. /\ \A h \in Hand : HandHolds[h] \in Fd \cup {InvalidValue}
        /\ file \in [Fd -> 0..MaxFiles] /\ raw \subseteq Fd
        /\ HandHolds[a] \in Fd /\ HandHolds[a] # InvalidValue
    BY <1>1, <1>8, HandTypes DEF ScopedInv, ScopedTypeOK
  <2> HIDE DEF a
  <2> QED BY <1>8, <1>9, <1>10, <2>1, HandCloses
<1>13. InOneHand(HandHolds, HandGot, file, raw)'
  BY <1>2, <1>8, <1>12
<1>14. ScopedTypeOK'
  <2>1. /\ task' \in [Opener -> ResetTask \cup {NoTask}]
        /\ file' \in [Fd -> 0..MaxFiles]
    <3>1. /\ task' = [u \in Opener |-> task'[u]]
          /\ task \in [Opener -> ResetTask \cup {NoTask}]
      BY <1>2 DEF ScopedInv, ScopedTypeOK
    <3>2. \A u \in Opener : task'[u] \in
              ResetTask \cup {NoTask}
      BY <3>1, <1>4
    <3>3. file' \in [Fd -> 0..MaxFiles]
      <4>1. 0 \in 0..MaxFiles /\ file \in [Fd -> 0..MaxFiles]
        BY DEF ScopedInv, ScopedTypeOK, ScopedFileAssumption
      <4> QED BY <1>2, <4>1
    <3> QED BY <3>1, <3>2, <3>3
  <2> QED BY <1>2, <2>1 DEF ScopedInv, ScopedTypeOK, Valid
<1>15. \A u \in Busy : task'[u].scoper = task[u].scoper
  BY <1>1, <1>4 DEF Busy
<1> QED
  BY <1>2, <1>5, <1>11, <1>13, <1>14, <1>15 DEF ScopedInv, Valid, ClosesItsOwn

LEMMA SetValueKeeps ==
  ASSUME ScopedFileAssumption, ScopedInv, NEW t \in Opener, SetValue(t)
  PROVE  ScopedInv'
<1>1. /\ t \in Busy /\ task[t].do = "set"
      /\ task[t] \in ResetTask
  BY DEF SetValue, Busy, ScopedInv, ScopedTypeOK
<1>2. PICK s \in Scoper, v \in Fd \cup {InvalidValue} :
        /\ s = task[t].scoper /\ task[t].file \in 0..MaxFiles
        /\ v = IF task[t].next = Destroyed THEN InvalidValue ELSE task[t].next
  BY <1>1 DEF ResetTask
<1> DEFINE a == <<s, "scoper">>
           b == <<t, "opener">>
<1>3. /\ task' = [task EXCEPT ![t] = NoTask] /\ generic' = [generic EXCEPT ![s] = v]
      /\ given' = [given EXCEPT ![s] = task[t].file] /\ raw' = raw /\ file' = file
      /\ opened' = opened /\ lost' = lost /\ aborted' = aborted
      /\ exists' = (IF task[t].next = Destroyed THEN exists \ {s} ELSE exists)
  BY <1>2 DEF SetValue, kernel
<1>4. Busy' = Busy \ {t} /\ task'[t] = NoTask /\ \A u \in Opener \ {t} : task'[u] = task[u]
  BY <1>3 DEF Busy, ScopedInv, ScopedTypeOK
<1>5. Closed(s) /\ ~Closed(s)'
  BY <1>1, <1>2, <1>4 DEF Closed, ScopedInv, Busy
<1>6. \A x \in Scoper \ {s} : Closed(x)' = Closed(x)
  BY <1>1, <1>2, <1>4 DEF Closed, Busy
<1>7. ScopedTypeOK'
  <2>1. ASSUME NEW x \in Scoper \ exists' PROVE generic'[x] = InvalidValue
    <3>1. CASE x \in exists
      <4>1. x = s /\ task[t].next = Destroyed
        BY <1>3, <2>1, <3>1
      <4> QED BY <1>2, <1>3, <4>1 DEF ScopedInv, ScopedTypeOK
    <3>2. CASE x \notin exists
      <4>1. x # s
        BY <1>1, <1>2, <3>2 DEF ScopedInv
      <4> QED BY <1>3, <3>2, <4>1 DEF ScopedInv, ScopedTypeOK, Valid
    <3> QED BY <3>1, <3>2
  <2> QED BY <1>2, <1>3, <2>1 DEF ScopedInv, ScopedTypeOK, Valid
<1>8. /\ HandHolds[a] = InvalidValue /\ HandHolds[b] = v /\ HandGot[b] = task[t].file
      /\ HandHolds'[b] = InvalidValue /\ HandHolds'[a] = v /\ HandGot'[a] = task[t].file
  <2>1. t \notin Busy' /\ generic'[s] = v /\ given'[s] = task[t].file
    BY <1>2, <1>3, <1>4 DEF ScopedInv, ScopedTypeOK
  <2>2. HandHolds[a] = InvalidValue /\ HandHolds'[a] = v /\ HandGot'[a] = task[t].file
    BY <1>2, <1>5, <2>1, HandsHold, HandsHoldNext
  <2>3. HandHolds[b] = v /\ HandGot[b] = task[t].file /\ HandHolds'[b] = InvalidValue
    BY <1>1, <1>2, <2>1, HandsHold, HandsHoldNext
  <2> QED BY <2>2, <2>3
<1>9. \A h \in Hand \ {a, b} : HandHolds'[h] = HandHolds[h] /\ HandGot'[h] = HandGot[h]
  <2>1. \A u \in Opener \ {t} : /\ HandHolds'[<<u, "opener">>] = HandHolds[<<u, "opener">>]
                                /\ HandGot'[<<u, "opener">>] = HandGot[<<u, "opener">>]
    <3> SUFFICES ASSUME NEW u \in Opener \ {t}
                 PROVE  /\ HandHolds'[<<u, "opener">>] = HandHolds[<<u, "opener">>]
                        /\ HandGot'[<<u, "opener">>] = HandGot[<<u, "opener">>]
      OBVIOUS
    <3> QED BY <1>4, HandsHold, HandsHoldNext
  <2>2. \A x \in Scoper \ {s} : /\ HandHolds'[<<x, "scoper">>] = HandHolds[<<x, "scoper">>]
                                /\ HandGot'[<<x, "scoper">>] = HandGot[<<x, "scoper">>]
    <3> SUFFICES ASSUME NEW x \in Scoper \ {s}
                 PROVE  /\ HandHolds'[<<x, "scoper">>] = HandHolds[<<x, "scoper">>]
                        /\ HandGot'[<<x, "scoper">>] = HandGot[<<x, "scoper">>]
      OBVIOUS
    <3>1. Closed(x)' = Closed(x) /\ generic'[x] = generic[x] /\ given'[x] = given[x]
      BY <1>3, <1>6 DEF ScopedInv, ScopedTypeOK
    <3> QED BY <3>1, HandsHold, HandsHoldNext
  <2> QED BY <2>1, <2>2, HandsAre
<1>10. InOneHand(HandHolds', HandGot', file, raw)
  <2>1. a \in Hand /\ b \in Hand /\ InOneHand(HandHolds, HandGot, file, raw)
    BY <1>2, HandsAre DEF ScopedInv
  <2> HIDE DEF a, b
  <2> QED BY <1>8, <1>9, <2>1, HandsOver
<1>11. InOneHand(HandHolds, HandGot, file, raw)'
  BY <1>3, <1>10
<1>12. \A u \in Busy' : /\ u \in Busy /\ task'[u] = task[u] /\ task[u].scoper # s
                        /\ task[u].scoper \in exists' /\ generic'[task[u].scoper] # InvalidValue
  <2>1. \A u \in Busy' : u \in Busy /\ task'[u] = task[u] /\ task[u].scoper # s
    BY <1>1, <1>2, <1>4 DEF Busy, ScopedInv
  <2> QED BY <1>3, <2>1 DEF ScopedInv, ScopedTypeOK, Valid
<1> QED
  BY <1>3, <1>7, <1>11, <1>12 DEF ScopedInv, Valid, ClosesItsOwn

-----------------------------------------------------------------------------
\* The invariant holds at the start, and a step keeps it.
LEMMA ScopedInitHolds == ASSUME ScopedFileAssumption, ScopedInit PROVE ScopedInv
<1>1. Busy = {} /\ \A s \in Scoper : ~Closed(s)
  BY DEF Busy, Closed, ScopedInit
<1>2. ScopedTypeOK
  <2>1. 0 \in 0..MaxFiles
    BY DEF ScopedFileAssumption
  <2> QED BY <2>1 DEF ScopedInit, ScopedTypeOK, Valid
<1>3. \A h \in Hand : HandHolds[h] = InvalidValue
  BY <1>1, HandsAre, HandsHold DEF ScopedInit
<1>4. InOneHand(HandHolds, HandGot, file, raw)
  BY <1>3 DEF InOneHand, ScopedInit
<1> QED
  BY <1>1, <1>2, <1>4 DEF ScopedInv, ClosesItsOwn, ScopedInit

LEMMA ScopedStepHolds ==
  ASSUME ScopedFileAssumption, ScopedInv, [ScopedNext]_scopedVars
  PROVE  ScopedInv'
<1>1. CASE UNCHANGED scopedVars
  <2>1. HandHolds' = HandHolds /\ HandGot' = HandGot
    BY <1>1 DEF scopedVars, HandHolds, HandGot, Closed, Busy
  <2> QED
    BY <1>1, <2>1
    DEF scopedVars, ScopedInv, ScopedTypeOK, Busy, Valid, ClosesItsOwn, InOneHand
<1>2. CASE ScopedNext
  BY <1>2, OpenKeeps, CloseKeeps, SetValueKeeps, ConstructKeeps, ResetKeeps, ReleaseKeeps,
     DestroyKeeps, MoveConstructKeeps, MoveAssignKeeps, SwapKeeps DEF ScopedNext
<1> QED
  BY <1>1, <1>2

\* Whatever threads open files and pass them between scopers (scoped_generic.h), an open
\* file is in one hand: a scoper, the reset it was handed to, or the program; and the
\* descriptor that a hand has is open on the file it was when the hand got it.
THEOREM ScopedInvariantHolds ==
  ASSUME ScopedFileAssumption
  PROVE  ScopedSpec => []ScopedInv
<1>1. ScopedInit => ScopedInv
  BY ScopedInitHolds
<1>2. ScopedInv /\ [ScopedNext]_scopedVars => ScopedInv'
  BY ScopedStepHolds
<1> QED
  BY <1>1, <1>2, PTL DEF ScopedSpec

\* Who has fd, by cases: the program or nobody, a scoper that no thread is in, a scoper that
\* a reset is about to close, a reset that has yet to store it.
LEMMA ScopedInvIsSafe == ASSUME ScopedFileAssumption, ScopedInv PROVE ScopersAreSafe
<1> SUFFICES ASSUME NEW fd \in Fd
             PROVE  Cardinality({s \in Settled : generic[s] = fd})
                      + Cardinality({t \in Busy :
                          \/ /\ task[t].do = "close" /\ generic[task[t].scoper] = fd
                             /\ file[fd] = given[task[t].scoper]
                          \/ task[t].next = fd})
                      + (IF fd \in raw THEN 1 ELSE 0)
                    = (IF file[fd] = 0 THEN 0 ELSE 1)
  BY DEF ScopersAreSafe, OneOwnerEach, ScopedInv
<1> DEFINE holders == {s \in Settled : generic[s] = fd}
           closing(t) == /\ task[t].do = "close" /\ generic[task[t].scoper] = fd
                         /\ file[fd] = given[task[t].scoper]
           busy == {t \in Busy : closing(t) \/ task[t].next = fd}
           scoperHas(s) == HandHolds[<<s, "scoper">>] = fd
           openerHas(t) == HandHolds[<<t, "opener">>] = fd
<1>1. fd # InvalidValue /\ fd # Destroyed
  BY DEF ScopedFileAssumption, InvalidValue, Destroyed
<1>2. \A t \in Busy : /\ t \in Opener /\ task[t].scoper \in Scoper
                      /\ task[t].do \in {"close", "set"}
                      /\ task[t].do = "close" => ~Closed(task[t].scoper)
  BY DEF Busy, ScopedInv, ScopedTypeOK, ResetTask, Closed
<1>3. \A s \in Scoper : scoperHas(s) <=> ~Closed(s) /\ generic[s] = fd
  BY <1>1, HandsHold
<1>4. \A t \in Opener : openerHas(t) <=> t \in Busy /\ task[t].next = fd
  BY <1>1, HandsHold
<1>5. ASSUME NEW s \in holders PROVE s \in Scoper /\ scoperHas(s) /\ Free(s)
  <2>1. s \in exists /\ Free(s) /\ generic[s] = fd
    BY DEF Settled
  <2>2. s \in Scoper
    BY <2>1 DEF ScopedInv, ScopedTypeOK
  <2>3. ~Closed(s)
    BY <2>1 DEF Closed, Free
  <2> HIDE DEF scoperHas, holders
  <2>4. scoperHas(s)
    BY <1>3, <2>1, <2>2, <2>3
  <2> QED BY <2>1, <2>2, <2>4
<1>6. \A t \in busy : \/ task[t].do = "close" /\ scoperHas(task[t].scoper)
                      \/ openerHas(t)
  BY <1>2, <1>3, <1>4
<1>7. /\ \A s \in Scoper : scoperHas(s) =>
           /\ file[fd] = given[s] /\ file[fd] # 0 /\ fd \notin raw
           /\ \A r \in Scoper : scoperHas(r) => r = s
           /\ \A t \in Opener : ~openerHas(t)
      /\ \A t \in Opener : openerHas(t) =>
           /\ file[fd] # 0 /\ fd \notin raw
           /\ \A u \in Opener : openerHas(u) => u = t
  <2>1. InOneHand(HandHolds, HandGot, file, raw)
    BY DEF ScopedInv
  <2>2. ASSUME NEW h \in Hand, HandHolds[h] = fd
        PROVE  /\ file[fd] = HandGot[h] /\ file[fd] # 0 /\ fd \notin raw
               /\ \A k \in Hand : HandHolds[k] = fd => k = h
    BY <1>1, <2>1, <2>2 DEF InOneHand
  <2>3. ASSUME NEW s \in Scoper, scoperHas(s)
        PROVE  /\ file[fd] = given[s] /\ file[fd] # 0 /\ fd \notin raw
               /\ \A r \in Scoper : scoperHas(r) => r = s
               /\ \A t \in Opener : ~openerHas(t)
    BY <2>2, <2>3, HandsAre, HandsHold
  <2>4. ASSUME NEW t \in Opener, openerHas(t)
        PROVE  /\ file[fd] # 0 /\ fd \notin raw
               /\ \A u \in Opener : openerHas(u) => u = t
    BY <2>2, <2>4, HandsAre
  <2> QED BY <2>3, <2>4
<1>8. /\ fd \in raw => file[fd] # 0
      /\ file[fd] # 0 => \/ fd \in raw \/ \E s \in Scoper : scoperHas(s)
                         \/ \E t \in Opener : openerHas(t)
  BY HandsAre DEF ScopedInv, InOneHand
<1> SUFFICES Cardinality(holders) + Cardinality(busy) + (IF fd \in raw THEN 1 ELSE 0)
               = (IF file[fd] = 0 THEN 0 ELSE 1)
  OBVIOUS
<1>9. CASE /\ \A s \in Scoper : ~scoperHas(s)
           /\ \A t \in Opener : ~openerHas(t)
  <2>1. holders = {} /\ busy = {}
    BY <1>2, <1>5, <1>6, <1>9
  <2>2. Cardinality(holders) = 0 /\ Cardinality(busy) = 0
    BY <2>1, FS_EmptySet
  <2>3. fd \in raw <=> file[fd] # 0
    BY <1>8, <1>9
  <2> HIDE DEF holders, busy
  <2> QED BY <2>2, <2>3
<1>10. ASSUME NEW s \in Scoper, scoperHas(s), Free(s)
       PROVE  Cardinality(holders) + Cardinality(busy) + (IF fd \in raw THEN 1 ELSE 0)
                = (IF file[fd] = 0 THEN 0 ELSE 1)
  <2>1. s \in Settled
    BY <1>1, <1>3, <1>10 DEF Settled, Valid, ScopedInv, ScopedTypeOK
  <2>2. holders = {s}
    <3>1. generic[s] = fd
      BY <1>3, <1>10
    <3>2. s \in holders
      BY <2>1, <3>1
    <3> HIDE DEF holders, scoperHas
    <3>3. ASSUME NEW r \in holders PROVE r = s
      BY <1>5, <1>7, <1>10, <3>3
    <3> QED BY <3>2, <3>3
  <2>3. busy = {}
    <3> SUFFICES ASSUME NEW t \in busy PROVE FALSE
      OBVIOUS
    <3>1. t \in Opener /\ ~openerHas(t)
      BY <1>2, <1>7, <1>10
    <3>2. task[t].scoper \in Scoper /\ scoperHas(task[t].scoper)
      BY <1>2, <1>6, <3>1
    <3>3. task[t].scoper = s
      BY <1>7, <1>10, <3>2
    <3> QED BY <1>10, <3>3 DEF Free
  <2>4. Cardinality(holders) = 1 /\ Cardinality(busy) = 0
    BY <2>2, <2>3, FS_EmptySet, FS_Singleton
  <2>5. file[fd] # 0 /\ fd \notin raw
    BY <1>7, <1>10
  <2> HIDE DEF holders, busy
  <2> QED BY <2>4, <2>5
<1>11. ASSUME NEW s \in Scoper, scoperHas(s), ~Free(s)
       PROVE  Cardinality(holders) + Cardinality(busy) + (IF fd \in raw THEN 1 ELSE 0)
                = (IF file[fd] = 0 THEN 0 ELSE 1)
  <2>1. PICK t \in Busy : task[t].scoper = s /\ task[t].do = "close"
    BY <1>2, <1>3, <1>11 DEF Free, Closed
  <2>2. t \in busy
    BY <1>3, <1>7, <1>11, <2>1
  <2>3. ASSUME NEW u \in busy PROVE u = t
    <3>1. u \in Busy /\ u \in Opener /\ ~openerHas(u) /\ task[u].scoper \in Scoper
      BY <1>2, <1>7, <1>11
    <3>2. scoperHas(task[u].scoper)
      BY <1>6, <3>1
    <3>3. task[u].scoper = s
      BY <1>7, <1>11, <3>1, <3>2
    <3> QED BY <2>1, <3>1, <3>3 DEF ScopedInv
  <2>4. ASSUME NEW r \in holders PROVE FALSE
    <3>1. r \in Scoper /\ scoperHas(r) /\ Free(r)
      BY <1>5
    <3>2. r = s
      BY <1>7, <1>11, <3>1
    <3> QED BY <1>11, <3>1, <3>2
  <2>5. holders = {} /\ busy = {t}
    <3> HIDE DEF holders, busy
    <3> QED BY <2>2, <2>3, <2>4
  <2>6. Cardinality(holders) = 0 /\ Cardinality(busy) = 1
    BY <2>5, FS_EmptySet, FS_Singleton
  <2>7. file[fd] # 0 /\ fd \notin raw
    BY <1>7, <1>11
  <2> HIDE DEF holders, busy
  <2> QED BY <2>6, <2>7
<1>12. ASSUME NEW t \in Opener, openerHas(t)
       PROVE  Cardinality(holders) + Cardinality(busy) + (IF fd \in raw THEN 1 ELSE 0)
                = (IF file[fd] = 0 THEN 0 ELSE 1)
  <2>1. holders = {} /\ busy = {t}
    BY <1>2, <1>4, <1>5, <1>6, <1>7, <1>12
  <2>2. Cardinality(holders) = 0 /\ Cardinality(busy) = 1
    BY <2>1, FS_EmptySet, FS_Singleton
  <2>3. file[fd] # 0 /\ fd \notin raw
    BY <1>7, <1>12
  <2> HIDE DEF holders, busy
  <2> QED BY <2>2, <2>3
<1> QED
  BY <1>9, <1>10, <1>11, <1>12

\* A scoper only ever closes the file that it was given (FreeIfNecessary in
\* scoped_generic.h, ScopedFDCloseTraits::Free in scoped_file.cc), and every open file has
\* one owner.
THEOREM ScopersAlwaysSafe ==
  ASSUME ScopedFileAssumption
  PROVE  ScopedSpec => []ScopersAreSafe
<1>1. ScopedInv => ScopersAreSafe
  BY ScopedInvIsSafe
<1> QED
  BY <1>1, ScopedInvariantHolds, PTL
=============================================================================

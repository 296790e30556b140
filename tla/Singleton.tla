------------------------------ MODULE Singleton ------------------------------
(***************************************************************************)
(* base::Singleton (src/base/singleton.h) on the OnceInit of module Once:  *)
(* GetInstance and ShutDown by several threads.  The closure makes the     *)
(* instance and stores the pointer; the once stays DONE after ShutDown, so *)
(* there is no second instance.  A thread that is not sure to see the      *)
(* effects of the closure may read the pointer as it was before.           *)
(***************************************************************************)
EXTENDS Once, FiniteSets

CONSTANTS once_,         \* the once of this class; others may exist
          MaxShutDowns   \* bound

SingletonAssumption == /\ once_ \in OnceId /\ Needs[once_] = <<>>
                       /\ MaxShutDowns \in Nat

VARIABLES instance_, \* 0 (a null pointer) or the number of an object
          made,      \* objects made so far
          dead,      \* objects deleted
          again,     \* history: one was deleted again, with no other ShutDown going on
          doing,     \* what each thread does: "idle", "init", "read" or "clear"
          got,       \* what its last GetInstance returned
          raced,     \* history: threads whose call overlaps a ShutDown of another
          downs      \* history: calls of ShutDown that have ended

singleton == <<instance_, made, dead, again, doing, got, raced, downs>>
all == <<vars, singleton>>

Nothing == [object |-> -1, deleted |-> FALSE, raced |-> FALSE, late |-> FALSE]
Does(t, what) == doing' = [doing EXCEPT ![t] = what]
ShuttingDown == {t \in Thread : doing[t] = "clear"}

\* t begins a call: it overlaps those ShutDowns that are going on.
Begins(t) == raced' = IF ShuttingDown = {} THEN raced \ {t} ELSE raced \cup {t}

-----------------------------------------------------------------------------
\* Variant: the pointer is looked at first.
GetInstanceChecking(t) ==
    /\ doing[t] = "idle" /\ Begins(t)
    /\ IF instance_ # 0 THEN Does(t, "read") /\ UNCHANGED vars
       ELSE Does(t, "init") /\ Call(t, once_)
    /\ UNCHANGED <<instance_, made, dead, again, got, downs>>
GetInstance(t) ==
    /\ doing[t] = "idle" /\ Begins(t)
    /\ Does(t, "init") /\ Call(t, once_)
    /\ UNCHANGED <<instance_, made, dead, again, got, downs>>

\* In OnceInit.
InOnce(t) == /\ FastLoad(t) \/ FirstLoad(t) \/ CompareAndSwap(t) \/ Spin(t) \/ StoreDone(t)
             /\ doing' = IF stack'[t] = <<>> THEN [doing EXCEPT ![t] = "read"] ELSE doing
             /\ UNCHANGED <<instance_, made, dead, again, got, raced, downs>>

\* Singleton::Init: instance_ = new T(), or T's constructor throws.
InitInstance(t) == /\ ClosureEnds(t)
                   /\ made' = made + 1 /\ instance_' = made'
                   /\ UNCHANGED <<dead, again, doing, got, raced, downs>>
InitThrows(t) == /\ Throw(t) /\ Does(t, "idle")
                 /\ UNCHANGED <<instance_, made, dead, again, got, raced, downs>>

\* return instance_
ReturnInstance(t) ==
    /\ doing[t] = "read" /\ Does(t, "idle")
    /\ \E p \in {instance_} \cup (IF once_ \in seen[t] THEN {} ELSE {0}) :
         got' = [got EXCEPT ![t] = [object |-> p, deleted |-> p \in dead,
                                    raced |-> t \in raced, late |-> downs > 0]]
    /\ UNCHANGED <<vars, instance_, made, dead, again, raced, downs>>

\* Variant: the pointer is not cleared.
ShutDownKeeping(t) ==
    /\ doing[t] = "idle" /\ downs + Cardinality(ShuttingDown) < MaxShutDowns
    /\ dead' = dead \cup ({instance_} \ {0})
    /\ again' = (again \/ (instance_ \in dead /\ ShuttingDown = {}))
    /\ downs' = downs + 1
    /\ UNCHANGED <<vars, instance_, made, doing, got, raced>>
\* delete instance_ ...
ShutDown(t) ==
    /\ doing[t] = "idle" /\ downs + Cardinality(ShuttingDown) < MaxShutDowns
    /\ dead' = dead \cup ({instance_} \ {0})
    /\ again' = (again \/ (instance_ \in dead /\ ShuttingDown = {}))
    /\ Does(t, "clear")
    /\ raced' = LET others == {u \in Thread \ {t} : doing[u] # "idle"}
                IN  (raced \ {t}) \cup others \cup (IF ShuttingDown = {} THEN {} ELSE {t})
    /\ UNCHANGED <<vars, instance_, made, got, downs>>

\* ... and instance_ = nullptr.
Clear(t) == /\ doing[t] = "clear" /\ Does(t, "idle")
            /\ instance_' = 0 /\ downs' = downs + 1
            /\ UNCHANGED <<vars, made, dead, again, got, raced>>

-----------------------------------------------------------------------------
SingletonInit == /\ Init
                 /\ instance_ = 0 /\ made = 0 /\ dead = {} /\ again = FALSE
                 /\ doing = [t \in Thread |-> "idle"]
                 /\ got = [t \in Thread |-> Nothing]
                 /\ raced = {} /\ downs = 0

SingletonNext == \E t \in Thread :
                   \/ GetInstance(t) \/ InOnce(t) \/ InitInstance(t) \/ InitThrows(t)
                   \/ ReturnInstance(t) \/ ShutDown(t) \/ Clear(t)

SingletonSpec == SingletonInit /\ [][SingletonNext]_all

-----------------------------------------------------------------------------
\* GetInstance returns the instance, with all that its constructor did, as long as nobody
\* has called ShutDown.  Later it may return a null pointer; a pointer to a deleted
\* instance is only returned by a call that overlaps a ShutDown.
GetsTheInstance ==
    \A t \in Thread :
      got[t] # Nothing /\ ~got[t].raced =>
        ~got[t].deleted /\ (got[t].late \/ got[t].object = 1)

\* singleton.h: there is one instance, and it is deleted once, also by two calls of
\* ShutDown, unless these overlap; GetInstance returns it, complete.
OneInstance ==
    /\ made <= 1 /\ instance_ \in 0..made
    /\ ~again
    /\ GetsTheInstance

-----------------------------------------------------------------------------
(* The inductive invariant.  A thread is inside OnceInit exactly while its  *)
(* call of GetInstance waits for it; the instance is made once because its  *)
(* closure runs once; and a call that nobody's ShutDown overlaps finds the  *)
(* pointer as it was left by the closure or by the last ShutDown.           *)

Got == [object : Int, deleted : BOOLEAN, raced : BOOLEAN, late : BOOLEAN]

SingletonTypeOK ==
    /\ made \in {0, 1} /\ instance_ \in 0..made /\ dead \subseteq 1..made
    /\ doing \in [Thread -> {"idle", "init", "read", "clear"}]
    /\ got \in [Thread -> Got]
    /\ raced \subseteq Thread /\ downs \in Nat

\* The class calls OnceInit for its own once, and the constructor calls it for none.
OnlyThisOnce == \A t \in Thread : stack[t] # <<>> => Len(stack[t]) = 1 /\ Top(t).once = once_

CallsMatch == \A t \in Thread : doing[t] = "init" <=> stack[t] # <<>>

\* The closure has ended once it stores DONE, and does not end again.
MadeKnown ==
    /\ made = 0 => state[once_] # "DONE" /\ \A t \in Thread : ~At(t, "store")
    /\ made = 1 => state[once_] # "UNINITIALIZED" /\ \A t \in Thread : ~At(t, "closure")

\* Who has returned from OnceInit returns after the closure.
ReturnedKnown == \A t \in Thread : /\ once_ \in returned[t] => made = 1
                                   /\ doing[t] = "read" => once_ \in returned[t]

\* The pointer is to a deleted object only between the two steps of a ShutDown, and
\* every call of that time knows it.
PointerKnown ==
    /\ instance_ \in dead => ShuttingDown # {}
    /\ downs = 0 /\ ShuttingDown = {} => instance_ = made
    /\ \A t \in Thread \ raced : doing[t] \in {"init", "read"} => ShuttingDown = {}

SingletonInv == /\ SingletonTypeOK /\ CallsMatch /\ MadeKnown /\ ReturnedKnown
                /\ PointerKnown /\ ~again /\ GetsTheInstance
=============================================================================

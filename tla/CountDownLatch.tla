----------------------------- MODULE CountDownLatch -------------------------
(***************************************************************************)
(* net::CountDownLatch (net/count_down_latch.h, net/count_down_latch.cc):  *)
(* threads wait until a counter, which other threads count down, is 0.     *)
(* Each operation holds the mutex throughout, except while Wait sleeps on  *)
(* the condition variable (external, as in PCQueue).                       *)
(***************************************************************************)
EXTENDS Integers

CONSTANTS Waiter,          \* the threads
          InitialCount      \* the constructor's argument

ASSUME LatchAssumption == InitialCount \in Nat

VARIABLES count,      \* count_
          locking,    \* threads in Wait about to test count_ > 0
          sleeping,   \* threads in Wait asleep in cond_.wait
          passed      \* history: threads whose last Wait has returned

latchVars == <<count, locking, sleeping, passed>>

-----------------------------------------------------------------------------
Outside(t) == t \notin locking \cup sleeping

CallWait(t) ==
    /\ Outside(t)
    /\ locking' = locking \cup {t}
    /\ passed' = passed \ {t}
    /\ UNCHANGED <<count, sleeping>>

\* One turn of the loop of Wait: the counter is 0, or the thread sleeps.
\* Variant: a thread that has been woken does not test the counter again.
ReturnUntested(t) ==
    /\ t \in locking
    /\ locking' = locking \ {t}
    /\ passed' = passed \cup {t}
    /\ UNCHANGED <<count, sleeping>>

Leave(t) ==
    /\ t \in locking /\ count = 0
    /\ locking' = locking \ {t}
    /\ passed' = passed \cup {t}
    /\ UNCHANGED <<count, sleeping>>

Sleep(t) ==
    /\ t \in locking /\ count > 0
    /\ locking' = locking \ {t}
    /\ sleeping' = sleeping \cup {t}
    /\ UNCHANGED <<count, passed>>

SpuriousWakeup(t) ==
    /\ t \in sleeping
    /\ sleeping' = sleeping \ {t}
    /\ locking' = locking \cup {t}
    /\ UNCHANGED <<count, passed>>

\* cond_.notify_all().
NotifyAll == locking' = locking \cup sleeping /\ sleeping' = {}

\* CountDown, on a counter that is 0 already, that becomes 0, or neither.  The
\* first case keeps the uint32_t from wrapping.
\* Variants: it does not; one waiter is woken for all.
Wrapped == 65535    \* stands for 2^32 - 1

CountDownWakingOne(t) ==
    /\ Outside(t)
    /\ count' = IF count = 0 THEN 0 ELSE count - 1
    /\ \/ (sleeping = {} \/ count # 1) /\ UNCHANGED <<locking, sleeping>>
       \/ \E s \in sleeping : /\ count = 1
                              /\ sleeping' = sleeping \ {s}
                              /\ locking' = locking \cup {s}
    /\ UNCHANGED passed

CountDownWrapping(t) ==
    /\ Outside(t)
    /\ count' = IF count = 0 THEN Wrapped ELSE count - 1
    /\ IF count = 1 THEN NotifyAll ELSE UNCHANGED <<locking, sleeping>>
    /\ UNCHANGED passed

CountDown(t) ==
    /\ Outside(t)
    /\ \/ /\ count = 0
          /\ UNCHANGED <<count, locking, sleeping>>
       \/ /\ count = 1
          /\ count' = 0
          /\ NotifyAll
       \/ /\ count > 1
          /\ count' = count - 1
          /\ UNCHANGED <<locking, sleeping>>
    /\ UNCHANGED passed
-----------------------------------------------------------------------------
LatchInit == /\ count = InitialCount
             /\ locking = {} /\ sleeping = {} /\ passed = {}

Proceed(t) == Leave(t) \/ Sleep(t)

LatchNext == \E t \in Waiter : \/ CallWait(t) \/ Proceed(t) \/ SpuriousWakeup(t)
                                \/ CountDown(t)

LatchSpec == LatchInit /\ [][LatchNext]_latchVars

\* A thread that is awake inside Wait gets the mutex.  Nothing makes a thread
\* count down, and only notify_all wakes a sleeper.
LatchFairSpec == LatchSpec /\ \A t \in Waiter : WF_latchVars(Proceed(t))
-----------------------------------------------------------------------------
\* Every variable has its type, and no thread is in two places.
LatchTypeOK == /\ count \in 0..InitialCount
               /\ locking \subseteq Waiter /\ sleeping \subseteq Waiter
               /\ locking \cap sleeping = {}
               /\ passed \subseteq Waiter \ (locking \cup sleeping)

\* No wakeup is lost: once the counter is 0 no thread sleeps in Wait, although
\* CountDown notifies only in the call that reaches 0.
NoLostWakeup == count = 0 => sleeping = {}

\* The latch implements a gate that opens once, lets nobody through before and
\* everybody who waits through afterwards.
G == INSTANCE Gate WITH Visitor <- Waiter, open <- count = 0,
                        waiting <- locking \cup sleeping

ImplementsGate == G!FairSpec
=============================================================================

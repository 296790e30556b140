-------------------------------- MODULE PCQueue -----------------------------
(***************************************************************************)
(* net::PCQueue (net/pc_queue.h, net/pc_queue.cc): a queue guarded by one  *)
(* mutex, with one condition variable for the threads that wait in         *)
(* Dequeue.                                                                *)
(*                                                                         *)
(* Every operation holds the mutex from its first to its last statement,   *)
(* except where Dequeue waits, so an operation is one step and Dequeue one *)
(* step per turn of its loop.  The condition variable is external: waiting *)
(* releases the mutex and sleeps at once, notify_one wakes one sleeper if  *)
(* there is any (nobody can tell which), and a sleeper may wake by itself. *)
(***************************************************************************)
EXTENDS Integers, Sequences, FiniteSets

CONSTANTS Thread, Item,
          MaxLen,        \* bound of the model: items the producers leave in queue_
          MaxBatch       \* bound of the model: the largest ntimes and n

ASSUME PCQueueAssumption == /\ IsFiniteSet(Thread)
                            /\ MaxLen \in Nat
                            /\ MaxBatch \in Nat \ {0}

VARIABLES queue,     \* queue_
          locking,   \* threads in Dequeue that are about to test queue_.empty()
          sleeping,  \* threads in Dequeue asleep in cond_.wait
          got,       \* what each thread's last call returned, in order
          surplus    \* history: how many items of the queue may be there
                     \* because EnqueueN notified one thread for all of its

vars == <<queue, locking, sleeping, got, surplus>>

-----------------------------------------------------------------------------
Outside(t) == t \notin locking \cup sleeping

Times(item, n) == [i \in 1..n |-> item]

\* cond_.notify_one(), called with the mutex held.
NotifyOne ==
    \/ /\ sleeping = {}
       /\ UNCHANGED <<locking, sleeping>>
    \/ \E s \in sleeping : /\ sleeping' = sleeping \ {s}
                           /\ locking' = locking \cup {s}

\* The history variable: q is the queue after the step, which has pushed extra
\* items nobody was notified of.
Owing(q, extra) ==
    surplus' = IF surplus + extra < Len(q) THEN surplus + extra ELSE Len(q)

\* Variant: only an item that finds the queue empty is announced.
EnqueueQuietly(t, item) ==
    /\ Outside(t) /\ Len(queue) < MaxLen
    /\ queue' = Append(queue, item)
    /\ IF queue = <<>> THEN NotifyOne ELSE UNCHANGED <<locking, sleeping>>
    /\ got' = [got EXCEPT ![t] = <<>>]
    /\ Owing(queue', 0)

Enqueue(t, item) ==
    /\ Outside(t) /\ Len(queue) < MaxLen
    /\ queue' = Append(queue, item)
    /\ NotifyOne
    /\ got' = [got EXCEPT ![t] = <<>>]
    /\ Owing(queue', 0)

\* One notification, however many items; also if ntimes is 0.
EnqueueN(t, item, ntimes) ==
    /\ Outside(t) /\ Len(queue) + ntimes <= MaxLen
    /\ queue' = queue \o Times(item, ntimes)
    /\ NotifyOne
    /\ got' = [got EXCEPT ![t] = <<>>]
    /\ Owing(queue', IF ntimes = 0 THEN 0 ELSE ntimes - 1)

CallDequeue(t) ==
    /\ Outside(t)
    /\ locking' = locking \cup {t}
    /\ UNCHANGED <<queue, sleeping, got, surplus>>

\* One turn of the loop of Dequeue, with the mutex.
\* Variant: back() and pop_back().
TakeLast(t) ==
    /\ t \in locking /\ queue # <<>>
    /\ got' = [got EXCEPT ![t] = <<queue[Len(queue)]>>]
    /\ queue' = SubSeq(queue, 1, Len(queue) - 1)
    /\ locking' = locking \ {t}
    /\ Owing(queue', 0)
    /\ UNCHANGED sleeping

Take(t) ==
    /\ t \in locking /\ queue # <<>>
    /\ got' = [got EXCEPT ![t] = <<Head(queue)>>]
    /\ queue' = Tail(queue)
    /\ locking' = locking \ {t}
    /\ Owing(queue', 0)
    /\ UNCHANGED sleeping

Sleep(t) ==
    /\ t \in locking /\ queue = <<>>
    /\ locking' = locking \ {t}
    /\ sleeping' = sleeping \cup {t}
    /\ UNCHANGED <<queue, got, surplus>>

SpuriousWakeup(t) ==
    /\ t \in sleeping
    /\ sleeping' = sleeping \ {t}
    /\ locking' = locking \cup {t}
    /\ UNCHANGED <<queue, got, surplus>>

\* TryDequeueN; TryDequeue is the case n = 1 with another way to report.
TryDequeueN(t, n) ==
    /\ Outside(t)
    /\ LET k == IF n < Len(queue) THEN n ELSE Len(queue) IN
       /\ got' = [got EXCEPT ![t] = SubSeq(queue, 1, k)]
       /\ queue' = SubSeq(queue, k + 1, Len(queue))
    /\ Owing(queue', 0)
    /\ UNCHANGED <<locking, sleeping>>

-----------------------------------------------------------------------------
Init == /\ queue = <<>>
        /\ locking = {} /\ sleeping = {}
        /\ got = [t \in Thread |-> <<>>]
        /\ surplus = 0

Produce(t) == \E item \in Item : \/ Enqueue(t, item)
                                 \/ \E n \in 0..MaxBatch : n # 1 /\ EnqueueN(t, item, n)

Proceed(t) == Take(t) \/ Sleep(t)

Next == \E t \in Thread : \/ Produce(t)
                          \/ CallDequeue(t) \/ Proceed(t) \/ SpuriousWakeup(t)
                          \/ \E n \in 0..MaxBatch : TryDequeueN(t, n)

Spec == Init /\ [][Next]_vars

\* A thread that is not asleep gets the mutex and runs on.  Nothing makes a
\* thread produce, and nothing wakes a sleeper but a notification.
FairSpec == Spec /\ \A t \in Thread : WF_vars(Proceed(t))
-----------------------------------------------------------------------------
\* Every variable has its type, and no thread is in two places.
TypeOK == /\ queue \in Seq(Item)
          /\ locking \subseteq Thread /\ sleeping \subseteq Thread
          /\ locking \cap sleeping = {}
          /\ got \in [Thread -> Seq(Item)]
          /\ surplus \in Nat

\* No wakeup is lost: while a thread sleeps in Dequeue, every item in the queue
\* has an awakened thread coming for it, except items a batch pushed behind its
\* single notification.
NoLostWakeup == sleeping # {} => Len(queue) <= Cardinality(locking) + surplus

\* The queue implements a first-in first-out channel on which a taker waits
\* only while there is nothing to take.
F == INSTANCE Fifo WITH Taker <- Thread, items <- queue,
                        wanting <- locking \cup sleeping, given <- got

ImplementsFifo == F!FairSpec
=============================================================================

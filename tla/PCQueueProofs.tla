----------------------------- MODULE PCQueueProofs --------------------------
(***************************************************************************)
(* Proofs about PCQueue, for every finite set of threads, every set of     *)
(* items and all bounds.  TypeOK and NoLostWakeup are inductive together.  *)
(***************************************************************************)
EXTENDS PCQueue, FiniteSetTheorems, SequenceTheorems, TLAPS

QueueInv == TypeOK /\ NoLostWakeup

-----------------------------------------------------------------------------
\* The sequences of the model.
LEMMA TimesType == ASSUME NEW item \in Item, NEW n \in Nat
                   PROVE  Times(item, n) \in Seq(Item) /\ Len(Times(item, n)) = n
  BY DEF Times

\* Taking the first item of a queue.
LEMMA TakeHead == ASSUME NEW q \in Seq(Item), q # <<>>
                  PROVE  /\ Head(q) \in Item /\ Tail(q) \in Seq(Item)
                         /\ Len(Tail(q)) = Len(q) - 1
                         /\ Len(q) \in Nat \ {0}
                         /\ <<Head(q)>> = SubSeq(q, 1, 1)
                         /\ Tail(q) = SubSeq(q, 2, Len(q))
  OBVIOUS

\* Taking the first k of them.
LEMMA SplitSeq == ASSUME NEW q \in Seq(Item), NEW k \in 0..Len(q)
                  PROVE  /\ SubSeq(q, 1, k) \in Seq(Item)
                         /\ SubSeq(q, k + 1, Len(q)) \in Seq(Item)
                         /\ Len(SubSeq(q, k + 1, Len(q))) = Len(q) - k
  OBVIOUS

\* How many threads are awake after one wakes, or goes.
LEMMA LockingGrows ==
  ASSUME TypeOK, NEW s \in Thread
  PROVE  /\ Cardinality(locking) \in Nat
         /\ Cardinality(locking \cup {s}) \in Nat
         /\ Cardinality(locking) <= Cardinality(locking \cup {s})
         /\ s \notin locking
              => Cardinality(locking \cup {s}) = Cardinality(locking) + 1
  <1>1. IsFiniteSet(locking)
    BY PCQueueAssumption, FS_Subset DEF TypeOK
  <1>2. Cardinality(locking) \in Nat
    BY <1>1, FS_CardinalityType
  <1>3. CASE s \in locking
    <2>1. locking \cup {s} = locking
      BY <1>3
    <2>2. Cardinality(locking \cup {s}) = Cardinality(locking)
      BY <2>1
    <2>3. QED
      BY <1>2, <1>3, <2>2
  <1>4. CASE s \notin locking
    <2>1. Cardinality(locking \cup {s}) = Cardinality(locking) + 1
      BY <1>1, <1>4, FS_AddElement
    <2>2. QED
      BY <1>2, <1>4, <2>1
  <1>5. QED
    BY <1>3, <1>4

\* A thread that stops locking makes the set one smaller.
LEMMA LockingShrinks ==
  ASSUME TypeOK, NEW t \in locking
  PROVE  /\ Cardinality(locking) \in Nat
         /\ Cardinality(locking \ {t}) = Cardinality(locking) - 1
  <1>1. IsFiniteSet(locking)
    BY PCQueueAssumption, FS_Subset DEF TypeOK
  <1>2. QED
    BY <1>1, FS_RemoveElement, FS_CardinalityType

\* notify_one leaves every thread in Dequeue, and if anybody slept there is one
\* more awake.
LEMMA NotifyFacts ==
  ASSUME TypeOK, NotifyOne
  PROVE  /\ locking' \subseteq Thread /\ sleeping' \subseteq Thread
         /\ locking' \cap sleeping' = {}
         /\ locking' \cup sleeping' = locking \cup sleeping
         /\ sleeping' # {} =>
               /\ sleeping # {}
               /\ Cardinality(locking) \in Nat
               /\ Cardinality(locking') = Cardinality(locking) + 1
  <1>1. CASE sleeping = {} /\ UNCHANGED <<locking, sleeping>>
    BY <1>1 DEF TypeOK
  <1>2. ASSUME NEW s \in sleeping,
               sleeping' = sleeping \ {s}, locking' = locking \cup {s}
        PROVE  /\ locking' \subseteq Thread /\ sleeping' \subseteq Thread
               /\ locking' \cap sleeping' = {}
               /\ locking' \cup sleeping' = locking \cup sleeping
               /\ sleeping # {}
               /\ Cardinality(locking) \in Nat
               /\ Cardinality(locking') = Cardinality(locking) + 1
    BY <1>2, LockingGrows DEF TypeOK
  <1>3. QED
    BY <1>1, <1>2 DEF NotifyOne
-----------------------------------------------------------------------------
\* The invariant holds at first.
LEMMA QueueInvInit == Init => QueueInv
  BY DEF Init, QueueInv, TypeOK, NoLostWakeup

\* Enqueue adds one item and wakes one consumer for it.
LEMMA EnqueueStep ==
  ASSUME QueueInv, NEW t \in Thread, NEW item \in Item, Enqueue(t, item)
  PROVE  QueueInv'
<1> USE DEF QueueInv
<1>1. queue' \in Seq(Item) /\ Len(queue') = Len(queue) + 1 /\ Len(queue) \in Nat
  BY DEF Enqueue, TypeOK
<1>2. surplus' \in Nat /\ (surplus' = surplus \/ surplus' = Len(queue'))
  BY <1>1 DEF Enqueue, Owing, TypeOK
<1>3. TypeOK'
  <2>1. got' \in [Thread -> Seq(Item)]
    BY DEF Enqueue, TypeOK
  <2>2. QED
    BY <1>1, <1>2, <2>1, NotifyFacts DEF Enqueue, TypeOK
<1>4. ASSUME sleeping' # {} PROVE Len(queue') <= Cardinality(locking') + surplus'
  <2>1. /\ sleeping # {}
        /\ Cardinality(locking) \in Nat
        /\ Cardinality(locking') = Cardinality(locking) + 1
    BY <1>4, NotifyFacts DEF Enqueue
  <2>2. Len(queue) <= Cardinality(locking) + surplus
    BY <2>1 DEF NoLostWakeup
  <2>3. QED
    BY <1>1, <1>2, <2>1, <2>2 DEF TypeOK
<1>5. QED
  BY <1>3, <1>4 DEF NoLostWakeup

\* The single notification pays for one item, surplus for the rest.
LEMMA EnqueueNStep ==
  ASSUME QueueInv, NEW t \in Thread, NEW item \in Item, NEW n \in Nat,
         EnqueueN(t, item, n)
  PROVE  QueueInv'
<1> USE DEF QueueInv
<1>1. queue' \in Seq(Item) /\ Len(queue') = Len(queue) + n /\ Len(queue) \in Nat
  BY TimesType DEF EnqueueN, TypeOK
<1>2. /\ surplus' \in Nat
      /\ \/ surplus' = surplus + (IF n = 0 THEN 0 ELSE n - 1)
         \/ surplus' = Len(queue')
  BY <1>1 DEF EnqueueN, Owing, TypeOK
<1>3. TypeOK'
  <2>1. got' \in [Thread -> Seq(Item)]
    BY DEF EnqueueN, TypeOK
  <2>2. QED
    BY <1>1, <1>2, <2>1, NotifyFacts DEF EnqueueN, TypeOK
<1>4. ASSUME sleeping' # {} PROVE Len(queue') <= Cardinality(locking') + surplus'
  <2>1. /\ sleeping # {}
        /\ Cardinality(locking) \in Nat
        /\ Cardinality(locking') = Cardinality(locking) + 1
    BY <1>4, NotifyFacts DEF EnqueueN
  <2>2. Len(queue) <= Cardinality(locking) + surplus
    BY <2>1 DEF NoLostWakeup
  <2>3. QED
    BY <1>1, <1>2, <2>1, <2>2 DEF TypeOK
<1>5. QED
  BY <1>3, <1>4 DEF NoLostWakeup

\* Threads that come or wake only add to those awake.
LEMMA WakeStep ==
  ASSUME QueueInv, NEW t \in Thread, CallDequeue(t) \/ SpuriousWakeup(t)
  PROVE  QueueInv'
<1> USE DEF QueueInv
<1>1. locking' = locking \cup {t} /\ UNCHANGED <<queue, got, surplus>>
      /\ sleeping' \subseteq sleeping /\ t \notin sleeping'
  BY DEF CallDequeue, SpuriousWakeup, Outside
<1>2. TypeOK'
  BY <1>1 DEF TypeOK
<1>3. NoLostWakeup'
  <2>1. /\ Cardinality(locking) \in Nat /\ Cardinality(locking') \in Nat
        /\ Cardinality(locking) <= Cardinality(locking')
    BY <1>1, LockingGrows
  <2>2. Len(queue) \in Nat /\ surplus \in Nat
    BY DEF TypeOK
  <2>3. QED
    BY <1>1, <2>1, <2>2 DEF NoLostWakeup
<1>4. QED
  BY <1>2, <1>3

\* Dequeue takes an item.
LEMMA TakeStep ==
  ASSUME QueueInv, NEW t \in Thread, Take(t)
  PROVE  QueueInv'
<1> USE DEF QueueInv
<1>1. /\ Head(queue) \in Item /\ queue' \in Seq(Item)
      /\ Len(queue') = Len(queue) - 1 /\ Len(queue) \in Nat \ {0}
  BY TakeHead DEF Take, TypeOK
<1>2. surplus' \in Nat /\ (surplus' = surplus \/ surplus' = Len(queue'))
  BY <1>1 DEF Take, Owing, TypeOK
<1>3. TypeOK'
  BY <1>1, <1>2 DEF Take, TypeOK
<1>4. NoLostWakeup'
  <2>1. /\ Cardinality(locking) \in Nat
        /\ Cardinality(locking') = Cardinality(locking) - 1
        /\ Cardinality(locking') \in Nat
    <3>1. IsFiniteSet(locking')
      BY <1>3, PCQueueAssumption, FS_Subset DEF TypeOK
    <3>2. QED
      BY <3>1, LockingShrinks, FS_CardinalityType DEF Take
  <2>2. sleeping # {} => Len(queue) <= Cardinality(locking) + surplus
    BY DEF NoLostWakeup
  <2>3. sleeping' = sleeping
    BY DEF Take
  <2>4. QED
    BY <1>1, <1>2, <2>1, <2>2, <2>3 DEF NoLostWakeup, TypeOK
<1>5. QED
  BY <1>3, <1>4

\* Dequeue finds the queue empty and sleeps.
LEMMA SleepStep ==
  ASSUME QueueInv, NEW t \in Thread, Sleep(t)
  PROVE  QueueInv'
<1> USE DEF QueueInv
<1>1. TypeOK'
  BY DEF Sleep, TypeOK
<1>2. NoLostWakeup'
  <2>1. Cardinality(locking') \in Nat
    <3>1. IsFiniteSet(locking')
      BY <1>1, PCQueueAssumption, FS_Subset DEF TypeOK
    <3>2. QED
      BY <3>1, FS_CardinalityType
  <2>2. Len(queue') = 0 /\ surplus' \in Nat
    BY <1>1 DEF Sleep, TypeOK
  <2>3. QED
    BY <2>1, <2>2 DEF NoLostWakeup
<1>3. QED
  BY <1>1, <1>2

\* TryDequeueN takes what there is and never sleeps.
LEMMA TryDequeueNStep ==
  ASSUME QueueInv, NEW t \in Thread, NEW n \in Nat, TryDequeueN(t, n)
  PROVE  QueueInv'
<1> USE DEF QueueInv
<1> DEFINE k == IF n < Len(queue) THEN n ELSE Len(queue)
<1>1. k \in 0..Len(queue) /\ queue \in Seq(Item) /\ Len(queue) \in Nat
  BY DEF TypeOK
<1>2. /\ SubSeq(queue, 1, k) \in Seq(Item)
      /\ queue' \in Seq(Item)
      /\ Len(queue') = Len(queue) - k
  <2>1. queue' = SubSeq(queue, k + 1, Len(queue))
    BY DEF TryDequeueN
  <2> HIDE DEF k
  <2>2. QED
    BY <1>1, <2>1, SplitSeq
<1>3. surplus' \in Nat /\ (surplus' = surplus \/ surplus' = Len(queue'))
  <2>1. surplus' = IF surplus + 0 < Len(queue') THEN surplus + 0 ELSE Len(queue')
    BY DEF TryDequeueN, Owing
  <2> HIDE DEF k
  <2>2. QED
    BY <1>1, <1>2, <2>1 DEF TypeOK
<1>4. TypeOK'
  <2>1. got' = [got EXCEPT ![t] = SubSeq(queue, 1, k)]
    BY DEF TryDequeueN
  <2>2. UNCHANGED <<locking, sleeping>>
    BY DEF TryDequeueN
  <2> HIDE DEF k
  <2>3. QED
    BY <1>2, <1>3, <2>1, <2>2 DEF TypeOK
<1>5. NoLostWakeup'
  <2>1. Cardinality(locking) \in Nat
    <3>1. IsFiniteSet(locking)
      BY PCQueueAssumption, FS_Subset DEF TypeOK
    <3>2. QED
      BY <3>1, FS_CardinalityType
  <2>2. UNCHANGED <<locking, sleeping>>
    BY DEF TryDequeueN
  <2> HIDE DEF k
  <2>3. QED
    BY <1>1, <1>2, <1>3, <2>1, <2>2 DEF NoLostWakeup, TypeOK
<1>6. QED
  BY <1>4, <1>5

\* Every step keeps the invariant.
LEMMA QueueInvStep == QueueInv /\ [Next]_vars => QueueInv'
<1> SUFFICES ASSUME QueueInv, [Next]_vars PROVE QueueInv'
  OBVIOUS
<1>1. CASE UNCHANGED vars
  BY <1>1 DEF vars, QueueInv, TypeOK, NoLostWakeup
<1>2. CASE Next
  <2>1. 0..MaxBatch \subseteq Nat
    BY PCQueueAssumption
  <2>2. QED
    BY <1>2, <2>1, EnqueueStep, EnqueueNStep, WakeStep, TakeStep, SleepStep,
       TryDequeueNStep DEF Next, Produce, Proceed
<1>3. QED
  BY <1>1, <1>2

\* Every variable has its type, and no thread is both awake and asleep.
THEOREM QueueTypes == Spec => []TypeOK
<1>1. QueueInv => TypeOK
  BY DEF QueueInv
<1>2. QED
  BY <1>1, QueueInvInit, QueueInvStep, PTL DEF Spec

\* While a thread sleeps in Dequeue, each item has an awakened thread coming
\* for it or stands behind the single notification of a batch.
THEOREM QueueNoLostWakeup == Spec => []NoLostWakeup
<1>1. QueueInv => NoLostWakeup
  BY DEF QueueInv
<1>2. QED
  BY <1>1, QueueInvInit, QueueInvStep, PTL DEF Spec
-----------------------------------------------------------------------------
\* What one step of the queue is to the channel.
LEMMA PutExtends ==
  ASSUME NEW q \in Seq(Item), NEW item \in Item, NEW n \in Nat
  PROVE  LET r == q \o Times(item, n) IN
         /\ Len(r) >= Len(q)
         /\ SubSeq(r, 1, Len(q)) = q
         /\ \A i \in (Len(q) + 1)..Len(r) : r[i] = item
<1>1. Times(item, n) \in Seq(Item) /\ Len(Times(item, n)) = n
  BY TimesType
<1>2. \A i \in 1..n : Times(item, n)[i] = item
  BY DEF Times
<1> DEFINE r == q \o Times(item, n)
<1>3. /\ r \in Seq(Item) /\ Len(r) = Len(q) + n
      /\ \A i \in 1..Len(q) : r[i] = q[i]
      /\ \A i \in (Len(q) + 1)..Len(r) : r[i] = item
  BY <1>1, <1>2
<1>4. SubSeq(r, 1, Len(q)) = q
  <2> HIDE DEF r
  <2>1. Len(q) \in Nat /\ SubSeq(r, 1, Len(q)) \in Seq(Item)
        /\ Len(SubSeq(r, 1, Len(q))) = Len(q)
        /\ \A i \in 1..Len(q) : SubSeq(r, 1, Len(q))[i] = r[i]
    BY <1>3
  <2>2. QED
    BY <1>3, <2>1, SeqEqual
<1>5. QED
  BY <1>3, <1>4

\* Enqueue and EnqueueN put at the end of the channel.
LEMMA PutStep ==
  ASSUME QueueInv, NEW t \in Thread, NEW item \in Item, NEW n \in Nat,
         Outside(t), queue' = queue \o Times(item, n), NotifyOne,
         got' = [got EXCEPT ![t] = <<>>]
  PROVE  F!Put(t)
<1>1. queue \in Seq(Item)
  BY DEF QueueInv, TypeOK
<1>2. /\ Len(queue') >= Len(queue)
      /\ SubSeq(queue', 1, Len(queue)) = queue
      /\ \A i \in (Len(queue) + 1)..Len(queue') : queue'[i] = item
  BY <1>1, PutExtends
<1>3. locking' \cup sleeping' = locking \cup sleeping
  BY NotifyFacts DEF QueueInv
<1>4. QED
  BY <1>2, <1>3 DEF F!Put, Outside

\* Dequeue takes the first item of the channel.
LEMMA SatisfyStep ==
  ASSUME QueueInv, NEW t \in Thread, Take(t)
  PROVE  F!Satisfy(t)
<1>1. queue \in Seq(Item) /\ queue # <<>> /\ locking \cap sleeping = {}
  BY DEF QueueInv, TypeOK, Take
<1>2. /\ Len(queue) \in Nat \ {0}
      /\ <<Head(queue)>> = SubSeq(queue, 1, 1)
      /\ Tail(queue) = SubSeq(queue, 1 + 1, Len(queue))
  BY <1>1, TakeHead
<1>3. F!Give(t, 1)
  <2>1. got' = [got EXCEPT ![t] = SubSeq(queue, 1, 1)]
    BY <1>2 DEF Take
  <2>2. queue' = SubSeq(queue, 1 + 1, Len(queue))
    BY <1>2 DEF Take
  <2>3. 1 \in 0..Len(queue)
    BY <1>2
  <2>4. QED
    BY <2>1, <2>2, <2>3, Zenon DEF F!Give
<1>4. QED
  BY <1>1, <1>3 DEF Take, F!Satisfy

\* TryDequeue and TryDequeueN take the first ones there are.
LEMMA TryStep ==
  ASSUME QueueInv, NEW t \in Thread, NEW n \in Nat, TryDequeueN(t, n)
  PROVE  F!Try(t)
<1> DEFINE k == IF n < Len(queue) THEN n ELSE Len(queue)
<1>1. k \in 0..Len(queue)
  BY DEF QueueInv, TypeOK
<1>2. /\ got' = [got EXCEPT ![t] = SubSeq(queue, 1, k)]
      /\ queue' = SubSeq(queue, k + 1, Len(queue))
  BY DEF TryDequeueN
<1>3. F!Give(t, k)
  BY <1>1, <1>2 DEF F!Give
<1>4. QED
  BY <1>1, <1>3 DEF TryDequeueN, Outside, F!Try

\* Every step of the queue is one of the channel, or none.
LEMMA QueueStepsAreFifoSteps == QueueInv /\ [Next]_vars => [F!Next]_(F!vars)
<1> SUFFICES ASSUME QueueInv, [Next]_vars PROVE [F!Next]_(F!vars)
  OBVIOUS
<1>1. CASE UNCHANGED vars
  BY <1>1 DEF vars, F!vars
<1>2. ASSUME NEW t \in Thread, NEW item \in Item, Enqueue(t, item) PROVE F!Put(t)
  <2>1. queue' = queue \o Times(item, 1)
    <3>1. Times(item, 1) = <<item>>
      BY DEF Times
    <3>2. Append(queue, item) = queue \o <<item>>
      BY DEF QueueInv, TypeOK
    <3>3. QED
      BY <1>2, <3>1, <3>2 DEF Enqueue
  <2>2. QED
    BY <1>2, <2>1, PutStep DEF Enqueue
<1>3. ASSUME NEW t \in Thread, NEW item \in Item, NEW n \in 0..MaxBatch,
             EnqueueN(t, item, n)
      PROVE F!Put(t)
  <2>1. n \in Nat
    BY <1>3, PCQueueAssumption
  <2>2. /\ Outside(t) /\ queue' = queue \o Times(item, n) /\ NotifyOne
        /\ got' = [got EXCEPT ![t] = <<>>]
    BY <1>3 DEF EnqueueN
  <2>3. QED
    BY <2>1, <2>2, PutStep
<1>4. ASSUME NEW t \in Thread, CallDequeue(t) PROVE F!Insist(t)
  BY <1>4 DEF CallDequeue, Outside, F!Insist
<1>5. ASSUME NEW t \in Thread, Take(t) PROVE F!Satisfy(t)
  BY <1>5, SatisfyStep
<1>6. ASSUME NEW t \in Thread, Sleep(t) \/ SpuriousWakeup(t) PROVE UNCHANGED F!vars
  BY <1>6 DEF Sleep, SpuriousWakeup, F!vars
<1>7. ASSUME NEW t \in Thread, NEW n \in 0..MaxBatch, TryDequeueN(t, n) PROVE F!Try(t)
  BY <1>7, PCQueueAssumption, TryStep
<1>8. QED
  BY <1>1, <1>2, <1>3, <1>4, <1>5, <1>6, <1>7 DEF Next, Produce, Proceed, F!Next

\* The queue implements the first-in first-out channel, batches included (its
\* safety; that items do not lie there while a taker insists is checked by TLC).
THEOREM QueueImplementsFifo == Spec => F!Spec
<1>1. Init => F!Init
  BY DEF Init, F!Init
<1>2. QED
  BY <1>1, QueueInvInit, QueueInvStep, QueueStepsAreFifoSteps, PTL
     DEF Spec, F!Spec
=============================================================================

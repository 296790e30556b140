------------------------------ MODULE OnceProofs ----------------------------
(***************************************************************************)
(* Proofs about Once, for every set of threads and onces and every needs   *)
(* relation, cyclic ones included, about Singleton, which calls it, and    *)
(* about CountDownLatch, for every set of threads and every initial count. *)
(***************************************************************************)
EXTENDS OnceInvariant, Singleton, CountDownLatch, SequenceTheorems, TLAPS

-----------------------------------------------------------------------------
\* What pushing a call on a call stack and popping one do to it.
LEMMA PushFacts ==
  ASSUME NEW T, NEW s \in Seq(T), NEW f \in T
  PROVE  /\ Append(s, f) \in Seq(T)
         /\ Len(Append(s, f)) = Len(s) + 1
         /\ Len(s) \in Nat
         /\ Append(s, f) # <<>>
         /\ \A i \in 1..Len(s) : Append(s, f)[i] = s[i]
         /\ Append(s, f)[Len(s) + 1] = f
  OBVIOUS

\* Popping the innermost call.
LEMMA PopFacts ==
  ASSUME NEW T, NEW s \in Seq(T), s # <<>>
  PROVE  /\ SubSeq(s, 1, Len(s) - 1) \in Seq(T)
         /\ Len(SubSeq(s, 1, Len(s) - 1)) = Len(s) - 1
         /\ \A i \in 1..(Len(s) - 1) : SubSeq(s, 1, Len(s) - 1)[i] = s[i]
         /\ s[Len(s)] \in T
         /\ Len(s) \in Nat \ {0}
         /\ Len(s) = 1 => SubSeq(s, 1, Len(s) - 1) = <<>>
<1>1. Len(s) \in Nat \ {0}
  OBVIOUS
<1>2. s[Len(s)] \in T
  BY <1>1
<1>3. \A i \in 1..(Len(s) - 1) : s[i] \in T
  BY <1>1
<1> DEFINE m == Len(s) - 1
<1>4. m \in Int
  BY <1>1
<1>5. /\ SubSeq(s, 1, m) \in Seq(T)
      /\ Len(SubSeq(s, 1, m)) = IF 1 <= m THEN m - 1 + 1 ELSE 0
      /\ \A i \in 1..(m - 1 + 1) : SubSeq(s, 1, m)[i] = s[1 + i - 1]
  <2> HIDE DEF m
  <2>1. \A i \in 1..m : s[i] \in T
    BY <1>3 DEF m
  <2>2. QED
    BY <1>4, <2>1, SubSeqProperties
<1>6. m \in Nat
  BY <1>1
<1> HIDE DEF m
<1>7. Len(SubSeq(s, 1, m)) = m
  BY <1>5, <1>6
<1>8. ASSUME NEW i \in 1..m
      PROVE  SubSeq(s, 1, m)[i] = s[i]
  <2>1. 1 + i - 1 = i /\ i \in 1..(m - 1 + 1)
    BY <1>6
  <2>2. SubSeq(s, 1, m)[i] = s[1 + i - 1]
    BY <2>1, <1>5
  <2>3. QED
    BY <2>1, <2>2
<1>9. m = 0 => SubSeq(s, 1, m) = <<>>
  BY <1>5, <1>7, EmptySeq
<1>10. QED
  BY <1>1, <1>2, <1>5, <1>7, <1>8, <1>9 DEF m

\* The innermost call is replaced.
LEMMA ReplaceFacts ==
  ASSUME NEW T, NEW s \in Seq(T), s # <<>>, NEW f \in T
  PROVE  LET r == Append(SubSeq(s, 1, Len(s) - 1), f) IN
         /\ r \in Seq(T) /\ Len(s) \in Nat \ {0} /\ Len(r) = Len(s)
         /\ r[Len(s)] = f
         /\ \A i \in 1..(Len(s) - 1) : r[i] = s[i]
<1> DEFINE q == SubSeq(s, 1, Len(s) - 1)
<1>1. /\ q \in Seq(T) /\ Len(q) = Len(s) - 1 /\ Len(s) \in Nat \ {0}
      /\ \A i \in 1..(Len(s) - 1) : q[i] = s[i]
  BY PopFacts
<1> HIDE DEF q
<1>2. /\ Append(q, f) \in Seq(T) /\ Len(Append(q, f)) = Len(s)
      /\ Append(q, f)[Len(s)] = f
      /\ \A i \in 1..(Len(s) - 1) : Append(q, f)[i] = s[i]
  BY <1>1, PushFacts
<1>3. QED
  BY <1>1, <1>2 DEF q

\* The innermost call is a frame.
LEMMA TopIsFrame ==
  ASSUME TypeOK, NEW t \in Thread, stack[t] # <<>>
  PROVE  /\ stack[t] \in Seq(Frame) /\ Len(stack[t]) \in Nat \ {0}
         /\ Top(t) \in Frame
         /\ Top(t).once \in OnceId /\ Top(t).at \in Place /\ Top(t).next \in Nat
<1>1. stack[t] \in Seq(Frame) /\ Len(stack[t]) \in Nat \ {0}
  BY DEF TypeOK
<1>2. Top(t) \in Frame
  BY <1>1 DEF Top
<1>3. QED
  BY <1>1, <1>2 DEF Frame

\* What Goto does: only the place of the innermost call changes.
Moved(s, r, p) ==
    /\ r \in Seq(Frame) /\ Len(s) \in Nat \ {0} /\ Len(r) = Len(s)
    /\ \A i \in 1..(Len(s) - 1) : r[i] = s[i]
    /\ r[Len(s)].once = s[Len(s)].once
    /\ r[Len(s)].next = s[Len(s)].next
    /\ r[Len(s)].at = p

\* What Return does to a call stack.
Popped(s, r) ==
    /\ r \in Seq(Frame) /\ Len(s) \in Nat \ {0} /\ Len(r) = Len(s) - 1
    /\ \A i \in 1..(Len(s) - 1) : r[i] = s[i]

OthersKept(t) == /\ stack' \in [Thread -> Seq(Frame)]
                 /\ \A u \in Thread \ {t} : stack'[u] = stack[u]

\* Goto moves the innermost call of one thread.
LEMMA GotoFacts ==
  ASSUME TypeOK, NEW t \in Thread, stack[t] # <<>>, NEW p \in Place, Goto(t, p)
  PROVE  OthersKept(t) /\ Moved(stack[t], stack'[t], p)
<1> DEFINE f == [Top(t) EXCEPT !.at = p]
<1>1. stack[t] \in Seq(Frame) /\ Top(t) \in Frame
  BY TopIsFrame
<1>2. f \in Frame /\ f.once = Top(t).once /\ f.next = Top(t).next /\ f.at = p
  BY <1>1 DEF Frame
<1>3. /\ stack' = [stack EXCEPT ![t] = Append(Callers(t), f)]
      /\ stack \in [Thread -> Seq(Frame)]
  BY DEF Goto, TypeOK
<1>4. stack'[t] = Append(SubSeq(stack[t], 1, Len(stack[t]) - 1), f)
  BY <1>3 DEF Callers
<1> HIDE DEF f
<1>5. /\ stack'[t] \in Seq(Frame) /\ Len(stack'[t]) = Len(stack[t])
      /\ Len(stack[t]) \in Nat \ {0} /\ stack'[t][Len(stack[t])] = f
      /\ \A i \in 1..(Len(stack[t]) - 1) : stack'[t][i] = stack[t][i]
  BY <1>1, <1>2, <1>4, ReplaceFacts
<1>6. OthersKept(t)
  BY <1>3, <1>5 DEF OthersKept
<1>7. QED
  BY <1>2, <1>5, <1>6 DEF Moved, Top

\* Return pops it, and notes that the thread is back from that once.
LEMMA ReturnFacts ==
  ASSUME TypeOK, NEW t \in Thread, stack[t] # <<>>, Return(t)
  PROVE  /\ OthersKept(t) /\ Popped(stack[t], stack'[t])
         /\ returned' \in [Thread -> SUBSET OnceId]
         /\ returned'[t] = returned[t] \cup {Top(t).once}
         /\ \A u \in Thread \ {t} : returned'[u] = returned[u]
<1>1. stack[t] \in Seq(Frame) /\ Top(t).once \in OnceId
  BY TopIsFrame
<1>2. /\ stack' = [stack EXCEPT ![t] = Callers(t)]
      /\ stack \in [Thread -> Seq(Frame)]
  BY DEF Return, TypeOK
<1>3. stack'[t] = SubSeq(stack[t], 1, Len(stack[t]) - 1)
  BY <1>2 DEF Callers
<1>4. /\ stack'[t] \in Seq(Frame) /\ Len(stack'[t]) = Len(stack[t]) - 1
      /\ Len(stack[t]) \in Nat \ {0}
      /\ \A i \in 1..(Len(stack[t]) - 1) : stack'[t][i] = stack[t][i]
  BY <1>1, <1>3, PopFacts
<1>5. OthersKept(t)
  BY <1>2, <1>4 DEF OthersKept
<1>6. /\ returned' \in [Thread -> SUBSET OnceId]
      /\ returned'[t] = returned[t] \cup {Top(t).once}
      /\ \A u \in Thread \ {t} : returned'[u] = returned[u]
  BY <1>1 DEF Return, TypeOK
<1>7. QED
  BY <1>4, <1>5, <1>6 DEF Popped

-----------------------------------------------------------------------------
\* Going on and returning keep a call stack in order ...
LEMMA MovedMatches ==
  ASSUME NEW s \in Seq(Frame), NEW r, NEW p \in Place,
         Matched(s), Moved(s, r, p),
         p \in {"closure", "store"} \/ s[Len(s)].next = 0
  PROVE  Matched(r)
<1>1. /\ Len(s) \in Nat \ {0} /\ Len(r) = Len(s)
      /\ \A i \in 1..(Len(s) - 1) : r[i] = s[i]
      /\ r[Len(s)].once = s[Len(s)].once
      /\ r[Len(s)].next = s[Len(s)].next
      /\ r[Len(s)].at = p
  BY DEF Moved
<1>2. ASSUME NEW i \in 1..(Len(s) - 1)
      PROVE  /\ r[i].next <= Len(Needs[r[i].once])
             /\ ~InClosure(r[i]) => r[i].next = 0
             /\ r[i].at = "closure" /\ r[i].next >= 1
             /\ r[i + 1].once = Needs[r[i].once][r[i].next]
  <2>1. i \in 1..Len(s) /\ i < Len(s) /\ i + 1 \in 1..Len(s) /\ r[i] = s[i]
    BY <1>1
  <2>2. r[i + 1].once = s[i + 1].once
    BY <1>1, <2>1
  <2>3. QED
    BY <2>1, <2>2 DEF Matched
<1>3. /\ r[Len(s)].next <= Len(Needs[r[Len(s)].once])
      /\ ~InClosure(r[Len(s)]) => r[Len(s)].next = 0
  BY <1>1 DEF Matched, InClosure
<1>4. QED
  BY <1>1, <1>2, <1>3 DEF Matched

\* ... and so does returning.
LEMMA PoppedMatches ==
  ASSUME NEW s \in Seq(Frame), NEW r, Matched(s), Popped(s, r)
  PROVE  Matched(r)
<1>1. /\ Len(s) \in Nat \ {0} /\ Len(r) = Len(s) - 1
      /\ \A i \in 1..(Len(s) - 1) : r[i] = s[i]
  BY DEF Popped
<1>2. QED
  BY <1>1 DEF Matched

\* ... and what its closures have achieved, if the thread sees the effect of the
\* call that returns.
LEMMA MovedAchieves ==
  ASSUME NEW s \in Seq(Frame), NEW r, NEW p \in Place, NEW e, NEW d,
         Achieved(s, e), Moved(s, r, p), e \subseteq d,
         p = "closure" => s[Len(s)].next = 0,
         p = "store" => s[Len(s)].once \in d
  PROVE  Achieved(r, d)
<1>1. /\ Len(s) \in Nat \ {0} /\ Len(r) = Len(s)
      /\ \A i \in 1..(Len(s) - 1) : r[i] = s[i]
      /\ r[Len(s)].once = s[Len(s)].once
      /\ r[Len(s)].next = s[Len(s)].next
      /\ r[Len(s)].at = p
  BY DEF Moved
<1>2. QED
  BY <1>1 DEF Achieved

\* A return to a closure that has got one step further.
LEMMA PoppedAchieves ==
  ASSUME NEW s \in Seq(Frame), NEW r, NEW e, NEW d,
         Matched(s), Achieved(s, e), Popped(s, r), e \subseteq d,
         s[Len(s)].once \in d
  PROVE  Achieved(r, d)
<1>1. /\ Len(s) \in Nat \ {0} /\ Len(r) = Len(s) - 1
      /\ \A i \in 1..(Len(s) - 1) : r[i] = s[i]
  BY DEF Popped
<1>2. ASSUME NEW i \in 1..Len(r), i = Len(r)
      PROVE  Needs[s[i].once][s[i].next] \in d
  BY <1>1, <1>2 DEF Matched
<1>3. ASSUME NEW i \in 1..Len(r), r[i].at = "closure", NEW k \in 1..r[i].next,
             k < r[i].next \/ i = Len(r)
      PROVE  Needs[r[i].once][k] \in d
  <2>1. i \in 1..Len(s) /\ r[i] = s[i] /\ s[i].next \in Nat
    <3>1. i \in 1..Len(s) /\ r[i] = s[i]
      BY <1>1
    <3>2. s[i] \in Frame
      BY <3>1
    <3>3. QED
      BY <3>1, <3>2 DEF Frame
  <2>2. CASE k < r[i].next
    BY <1>3, <2>1, <2>2 DEF Achieved
  <2>3. CASE ~(k < r[i].next)
    <3>1. k = s[i].next
      BY <2>1, <2>3
    <3>2. QED
      BY <1>2, <1>3, <2>1, <2>3, <3>1
  <2>4. QED
    BY <2>2, <2>3
<1>4. ASSUME NEW i \in 1..Len(r), r[i].at = "store" PROVE r[i].once \in d
  BY <1>1, <1>4 DEF Achieved
<1>5. QED
  BY <1>3, <1>4 DEF Achieved

\* To see more does no harm.
LEMMA AchievedMore ==
  ASSUME NEW s, NEW e, NEW d, Achieved(s, e), e \subseteq d
  PROVE  Achieved(s, d)
  BY DEF Achieved

-----------------------------------------------------------------------------
\* The conjuncts of the invariant, after a step of thread t.
LEMMA StacksKept ==
  ASSUME StacksMatch, NEW t \in Thread, OthersKept(t), Matched(stack'[t])
  PROVE  StacksMatch'
<1> SUFFICES ASSUME NEW u \in Thread PROVE Matched(stack'[u])
  BY DEF StacksMatch, Matched
<1>1. CASE u = t
  BY <1>1
<1>2. CASE u # t
  <2>1. stack'[u] = stack[u] /\ Matched(stack[u])
    BY <1>2 DEF OthersKept, StacksMatch
  <2>2. QED
    BY <2>1
<1>3. QED
  BY <1>1, <1>2

\* Only the stack of the thread that moves has to be looked at.
LEMMA ProgressKept ==
  ASSUME ProgressInv, NEW t \in Thread, OthersKept(t),
         \A u \in Thread : seen[u] \subseteq seen'[u],
         Achieved(stack'[t], seen'[t])
  PROVE  ProgressInv'
<1> SUFFICES ASSUME NEW u \in Thread PROVE Achieved(stack'[u], seen'[u])
  BY DEF ProgressInv, Achieved
<1>1. CASE u = t
  BY <1>1
<1>2. CASE u # t
  <2>1. stack'[u] = stack[u] /\ Achieved(stack[u], seen[u])
    BY <1>2 DEF OthersKept, ProgressInv
  <2>2. Achieved(stack[u], seen'[u])
    BY <2>1, AchievedMore
  <2>3. QED
    BY <2>1, <2>2
<1>3. QED
  BY <1>1, <1>2

\* The frames at work on o in s and in r are the same.
SameWork(s, r, o) ==
    /\ \A i \in 1..Len(s) : InClosure(s[i]) /\ s[i].once = o =>
          i \in 1..Len(r) /\ InClosure(r[i]) /\ r[i].once = o
    /\ \A i \in 1..Len(r) : InClosure(r[i]) /\ r[i].once = o =>
          i \in 1..Len(s) /\ InClosure(s[i]) /\ s[i].once = o

\* A step that does not touch the work on a once keeps what is known of it ...
LEMMA WorkersOfKept ==
  ASSUME NEW o \in OnceId, WorkersOf(o), NEW t \in Thread, OthersKept(t),
         SameWork(stack[t], stack'[t], o),
         state'[o] = state[o], thrown \subseteq thrown'
  PROVE  WorkersOf(o)'
<1>1. ASSUME NEW u \in Thread, NEW i
      PROVE  i \in Depth(u)' /\ WorksOn(u, i, o)' <=> i \in Depth(u) /\ WorksOn(u, i, o)
  <2>1. CASE u = t
    BY <2>1 DEF SameWork, Depth, WorksOn, InClosure
  <2>2. CASE u # t
    <3>1. stack'[u] = stack[u]
      BY <2>2 DEF OthersKept
    <3>2. QED
      BY <3>1 DEF Depth, WorksOn, InClosure
  <2>3. QED
    BY <2>1, <2>2
<1>2. OneWorker(o)'
  <2> SUFFICES ASSUME NEW u \in Thread, NEW v \in Thread,
                      NEW i \in Depth(u)', NEW j \in Depth(v)',
                      WorksOn(u, i, o)', WorksOn(v, j, o)'
               PROVE  u = v /\ i = j
    BY DEF OneWorker
  <2>1. i \in Depth(u) /\ WorksOn(u, i, o) /\ j \in Depth(v) /\ WorksOn(v, j, o)
    BY <1>1
  <2>2. QED
    BY <2>1 DEF WorkersOf, OneWorker
<1>3. WorkersExecute(o)'
  <2> SUFFICES ASSUME NEW u \in Thread, NEW i \in Depth(u)', WorksOn(u, i, o)'
               PROVE  state'[o] = "EXECUTING_CLOSURE"
    BY DEF WorkersExecute
  <2>1. i \in Depth(u) /\ WorksOn(u, i, o)
    BY <1>1
  <2>2. QED
    BY <2>1 DEF WorkersOf, WorkersExecute
<1>4. ExecutionWorked(o)'
  <2> SUFFICES ASSUME state'[o] = "EXECUTING_CLOSURE", ~(o \in thrown')
               PROVE  \E u \in Thread : \E i \in Depth(u)' : WorksOn(u, i, o)'
    BY DEF ExecutionWorked
  <2>1. PICK u \in Thread : \E i \in Depth(u) : WorksOn(u, i, o)
    BY DEF WorkersOf, ExecutionWorked
  <2>2. PICK i \in Depth(u) : WorksOn(u, i, o)
    BY <2>1
  <2>3. i \in Depth(u)' /\ WorksOn(u, i, o)'
    BY <1>1, <2>2
  <2>4. QED
    BY <2>3
<1>5. QED
  BY <1>2, <1>3, <1>4 DEF WorkersOf

\* ... and on all of them.
LEMMA WorkersKept ==
  ASSUME WorkersInv, NEW t \in Thread, OthersKept(t),
         \A o \in OnceId : SameWork(stack[t], stack'[t], o),
         state' = state, thrown \subseteq thrown'
  PROVE  WorkersInv'
<1> SUFFICES ASSUME NEW o \in OnceId PROVE WorkersOf(o)'
  BY DEF WorkersInv
<1>1. WorkersOf(o) /\ SameWork(stack[t], stack'[t], o) /\ state'[o] = state[o]
  BY DEF WorkersInv
<1>2. QED
  BY <1>1, WorkersOfKept

\* Going on without entering or leaving the closure is no change of work ...
LEMMA MovedWork ==
  ASSUME NEW s \in Seq(Frame), NEW r, NEW p \in Place, Moved(s, r, p), NEW o,
         InClosure(s[Len(s)]) <=> p \in {"closure", "store"}
  PROVE  SameWork(s, r, o)
<1>1. /\ Len(s) \in Nat \ {0} /\ Len(r) = Len(s)
      /\ \A i \in 1..(Len(s) - 1) : r[i] = s[i]
      /\ r[Len(s)].once = s[Len(s)].once
      /\ r[Len(s)].at = p
  BY DEF Moved
<1>2. InClosure(r[Len(s)]) <=> InClosure(s[Len(s)])
  BY <1>1 DEF InClosure
<1>3. ASSUME NEW i \in 1..Len(s)
      PROVE  (InClosure(r[i]) <=> InClosure(s[i])) /\ r[i].once = s[i].once
  <2>1. CASE i = Len(s)
    BY <1>1, <1>2, <2>1
  <2>2. CASE i # Len(s)
    <3>1. i \in 1..(Len(s) - 1)
      BY <1>1, <2>2
    <3>2. QED
      BY <1>1, <3>1
  <2>3. QED
    BY <2>1, <2>2
<1>4. QED
  BY <1>1, <1>3 DEF SameWork

\* ... and neither is returning from a call that did none.
LEMMA PoppedWork ==
  ASSUME NEW s \in Seq(Frame), NEW r, Popped(s, r), NEW o,
         ~InClosure(s[Len(s)]) \/ s[Len(s)].once # o
  PROVE  SameWork(s, r, o)
<1>1. /\ Len(s) \in Nat \ {0} /\ Len(r) = Len(s) - 1
      /\ \A i \in 1..(Len(s) - 1) : r[i] = s[i]
  BY DEF Popped
<1>2. \A i \in 1..Len(s) : i = Len(s) \/ i \in 1..Len(r)
  BY <1>1
<1>3. \A i \in 1..Len(r) : i \in 1..Len(s) /\ r[i] = s[i]
  BY <1>1
<1>4. QED
  BY <1>2, <1>3 DEF SameWork

-----------------------------------------------------------------------------
\* The innermost call of a thread, as the invariant knows it.
LEMMA TopFacts ==
  ASSUME OnceInv, NEW t \in Thread, stack[t] # <<>>
  PROVE  /\ stack[t] \in Seq(Frame) /\ Len(stack[t]) \in Depth(t)
         /\ Top(t) = stack[t][Len(stack[t])]
         /\ Top(t).once \in OnceId /\ Top(t).at \in Place /\ Top(t).next \in Nat
         /\ Matched(stack[t]) /\ Achieved(stack[t], seen[t])
         /\ ~InClosure(Top(t)) => Top(t).next = 0
         /\ InClosure(Top(t)) => WorksOn(t, Len(stack[t]), Top(t).once)
<1>1. /\ stack[t] \in Seq(Frame) /\ Len(stack[t]) \in Nat \ {0}
      /\ Top(t).once \in OnceId /\ Top(t).at \in Place /\ Top(t).next \in Nat
  BY TopIsFrame DEF OnceInv
<1>2. Len(stack[t]) \in 1..Len(stack[t])
  BY <1>1
<1>3. Matched(stack[t]) /\ Achieved(stack[t], seen[t])
  BY DEF OnceInv, StacksMatch, ProgressInv
<1>4. ~InClosure(Top(t)) => Top(t).next = 0
  BY <1>2, <1>3 DEF Matched, Top
<1>5. QED
  BY <1>1, <1>2, <1>3, <1>4 DEF Depth, Top, WorksOn

\* A load either finds the once done, or the call goes on.
LEMMA LoadKeepsInv ==
  ASSUME OnceInv, NEW t \in Thread, stack[t] # <<>>, ~InClosure(Top(t)),
         NEW p \in {"load", "swap", "spin"}, LoadOrGoto(t, p),
         UNCHANGED <<state, published, runs, thrown>>
  PROVE  OnceInv'
<1> DEFINE o == Top(t).once
           s == stack[t]
<1>1. /\ s \in Seq(Frame) /\ Top(t) = s[Len(s)] /\ o \in OnceId /\ Top(t).next = 0
      /\ Matched(s) /\ Achieved(s, seen[t])
  BY TopFacts
<1>2. TypeOK /\ p \in Place /\ ~(p \in {"closure", "store"})
  BY DEF OnceInv, Place
<1>3. CASE /\ state[o] = "DONE" /\ seen' = [seen EXCEPT ![t] = Acquired(t, o)]
           /\ Return(t)
  <2>1. /\ OthersKept(t) /\ Popped(s, stack'[t])
        /\ returned' \in [Thread -> SUBSET OnceId]
        /\ returned'[t] = returned[t] \cup {o}
        /\ \A u \in Thread \ {t} : returned'[u] = returned[u]
    BY <1>2, <1>3, ReturnFacts
  <2>2. /\ seen' \in [Thread -> SUBSET OnceId]
        /\ seen'[t] = seen[t] \cup published[o]
        /\ \A u \in Thread \ {t} : seen'[u] = seen[u]
    BY <1>1, <1>2, <1>3 DEF TypeOK, Acquired
  <2>3. /\ o \in published[o] /\ Closed(published[o])
        /\ Closed(seen[t]) /\ returned[t] \subseteq seen[t]
    BY <1>1, <1>3 DEF OnceInv, SeenInv
  <2>4. TypeOK'
    BY <1>2, <2>1, <2>2 DEF TypeOK, OthersKept
  <2>5. StacksMatch'
    BY <1>1, <2>1, PoppedMatches, StacksKept DEF OnceInv
  <2>6. SeenInv'
    <3>1. ASSUME NEW u \in Thread
          PROVE  Closed(seen'[u]) /\ returned'[u] \subseteq seen'[u]
      <4>1. CASE u = t
        BY <2>1, <2>2, <2>3, <4>1 DEF Closed
      <4>2. CASE u # t
        BY <2>1, <2>2, <4>2 DEF OnceInv, SeenInv
      <4>3. QED
        BY <4>1, <4>2
    <3>2. QED
      BY <3>1 DEF OnceInv, SeenInv, Closed, NeedsOf
  <2>7. ProgressInv'
    <3>1. Achieved(stack'[t], seen'[t])
      BY <1>1, <2>1, <2>2, <2>3, PoppedAchieves
    <3>2. \A u \in Thread : seen[u] \subseteq seen'[u]
      BY <2>2
    <3>3. QED
      BY <2>1, <3>1, <3>2, ProgressKept DEF OnceInv
  <2>8. WorkersInv'
    <3>1. \A x \in OnceId : SameWork(s, stack'[t], x)
      BY <1>1, <2>1, PoppedWork
    <3>2. QED
      BY <2>1, <3>1, WorkersKept DEF OnceInv
  <2>9. RunsInv'
    BY DEF OnceInv, RunsInv
  <2>10. QED
    BY <2>4, <2>5, <2>6, <2>7, <2>8, <2>9 DEF OnceInv
<1>4. CASE Goto(t, p) /\ UNCHANGED <<seen, returned>>
  <2>1. OthersKept(t) /\ Moved(s, stack'[t], p)
    BY <1>2, <1>4, GotoFacts
  <2>2. TypeOK'
    BY <1>2, <1>4, <2>1 DEF TypeOK, OthersKept
  <2>3. StacksMatch'
    BY <1>1, <1>2, <2>1, MovedMatches, StacksKept DEF OnceInv
  <2>4. SeenInv' /\ RunsInv'
    BY <1>4 DEF OnceInv, SeenInv, RunsInv, Closed, NeedsOf
  <2>5. ProgressInv'
    <3>1. Achieved(stack'[t], seen'[t])
      BY <1>1, <1>2, <1>4, <2>1, MovedAchieves
    <3>2. QED
      BY <1>4, <2>1, <3>1, ProgressKept DEF OnceInv
  <2>6. WorkersInv'
    <3>1. \A x \in OnceId : SameWork(s, stack'[t], x)
      BY <1>1, <1>2, <2>1, MovedWork
    <3>2. QED
      BY <2>1, <3>1, WorkersKept DEF OnceInv
  <2>7. QED
    BY <2>2, <2>3, <2>4, <2>5, <2>6 DEF OnceInv
<1>5. QED
  BY <1>3, <1>4 DEF LoadOrGoto

\* The thread that wins a once is the only one at work on it.
LEMMA WonWorkers ==
  ASSUME WorkersInv, NEW t \in Thread, stack[t] \in Seq(Frame),
         OthersKept(t), Moved(stack[t], stack'[t], "closure"),
         NEW o \in OnceId, o = stack[t][Len(stack[t])].once,
         state \in [OnceId -> OnceState], state[o] = "UNINITIALIZED",
         state' = [state EXCEPT ![o] = "EXECUTING_CLOSURE"], thrown' = thrown
  PROVE  WorkersInv'
<1>1. state'[o] = "EXECUTING_CLOSURE" /\ \A x \in OnceId \ {o} : state'[x] = state[x]
  OBVIOUS
<1>2. \A u \in Thread : \A i \in Depth(u) : ~WorksOn(u, i, o)
  BY DEF WorkersInv, WorkersOf, WorkersExecute
<1>3. PICK n \in Nat \ {0} : n = Len(stack[t])
  BY DEF Moved
<1>4. /\ Len(stack'[t]) = n
      /\ \A i \in 1..(n - 1) : stack'[t][i] = stack[t][i]
      /\ stack'[t][n].once = o /\ stack'[t][n].at = "closure"
  BY <1>3 DEF Moved
<1>5. ASSUME NEW u \in Thread, NEW i \in Depth(u)'
      PROVE  WorksOn(u, i, o)' <=> u = t /\ i = n
  <2>1. CASE u = t /\ i = n
    BY <1>4, <2>1 DEF WorksOn, InClosure
  <2>2. CASE u = t /\ i # n
    <3>1. i \in Depth(t) /\ i \in 1..(n - 1)
      BY <1>3, <1>4, <2>2 DEF Depth
    <3>2. ~WorksOn(t, i, o) /\ stack'[t][i] = stack[t][i]
      BY <1>2, <1>4, <3>1
    <3>3. QED
      BY <2>2, <3>2 DEF WorksOn, InClosure
  <2>3. CASE u # t
    <3>1. stack'[u] = stack[u]
      BY <2>3 DEF OthersKept
    <3>2. i \in Depth(u) /\ ~WorksOn(u, i, o)
      BY <1>2, <3>1 DEF Depth
    <3>3. QED
      BY <2>3, <3>1, <3>2 DEF WorksOn, InClosure
  <2>4. QED
    BY <2>1, <2>2, <2>3
<1>6. WorkersOf(o)'
  <2>1. OneWorker(o)'
    BY <1>5 DEF OneWorker
  <2>2. WorkersExecute(o)'
    BY <1>1 DEF WorkersExecute
  <2>3. n \in Depth(t)'
    BY <1>3, <1>4 DEF Depth
  <2>4. ExecutionWorked(o)'
    BY <1>5, <2>3 DEF ExecutionWorked
  <2>5. QED
    BY <2>1, <2>2, <2>4 DEF WorkersOf
<1>7. ASSUME NEW x \in OnceId, x # o PROVE WorkersOf(x)'
  <2>1. SameWork(stack[t], stack'[t], x)
    <3>1. stack[t][n].once # x /\ stack'[t][n].once # x
      BY <1>3, <1>4, <1>7
    <3>2. ASSUME NEW i \in 1..n, i # n
          PROVE  stack'[t][i] = stack[t][i]
      BY <1>4, <3>2
    <3>3. QED
      BY <1>3, <1>4, <3>1, <3>2 DEF SameWork
  <2>2. WorkersOf(x) /\ state'[x] = state[x]
    BY <1>1, <1>7 DEF WorkersInv
  <2>3. QED
    BY <2>1, <2>2, WorkersOfKept
<1>8. QED
  BY <1>6, <1>7 DEF WorkersInv

\* The winner of the compare and swap starts the closure: nobody worked on the
\* once, which was not initialized.
LEMMA SwapKeepsInv ==
  ASSUME OnceInv, NEW t \in Thread, CompareAndSwap(t)
  PROVE  OnceInv'
<1> DEFINE o == Top(t).once
           s == stack[t]
<1>1. stack[t] # <<>> /\ ~InClosure(Top(t))
  BY DEF CompareAndSwap, At, InClosure
<1>2. /\ s \in Seq(Frame) /\ Top(t) = s[Len(s)] /\ o \in OnceId /\ Top(t).next = 0
      /\ Len(s) \in Depth(t) /\ Matched(s) /\ Achieved(s, seen[t])
  BY <1>1, TopFacts
<1>3. TypeOK /\ "closure" \in Place
  BY DEF OnceInv, Place
<1>4. CASE /\ state[o] = "UNINITIALIZED"
           /\ state' = [state EXCEPT ![o] = "EXECUTING_CLOSURE"]
           /\ Goto(t, "closure")
           /\ runs' = [runs EXCEPT ![o] = @ + 1]
           /\ UNCHANGED <<seen, returned, published, thrown>>
  <2>1. OthersKept(t) /\ Moved(s, stack'[t], "closure")
    BY <1>1, <1>3, <1>4, GotoFacts
  <2>2. TypeOK'
    BY <1>2, <1>3, <1>4, <2>1 DEF TypeOK, OthersKept, OnceState
  <2>3. StacksMatch'
    BY <1>2, <1>3, <2>1, MovedMatches, StacksKept DEF OnceInv
  <2>4. state'[o] = "EXECUTING_CLOSURE" /\ \A x \in OnceId \ {o} : state'[x] = state[x]
    BY <1>2, <1>3, <1>4 DEF TypeOK
  <2>5. SeenInv'
    BY <1>4, <2>4 DEF OnceInv, SeenInv, Closed, NeedsOf
  <2>6. ProgressInv'
    <3>1. Achieved(stack'[t], seen'[t])
      BY <1>2, <1>3, <1>4, <2>1, MovedAchieves
    <3>2. QED
      BY <1>4, <2>1, <3>1, ProgressKept DEF OnceInv
  <2>7. RunsInv'
    BY <1>2, <1>3, <1>4, <2>4 DEF OnceInv, RunsInv, TypeOK
  <2>8. WorkersInv'
    BY <1>2, <1>3, <1>4, <2>1, WonWorkers DEF OnceInv, TypeOK
  <2>9. QED
    BY <2>2, <2>3, <2>5, <2>6, <2>7, <2>8 DEF OnceInv
<1>5. CASE LoadOrGoto(t, "spin") /\ UNCHANGED <<state, runs, published, thrown>>
  BY <1>1, <1>5, LoadKeepsInv
<1>6. QED
  BY <1>4, <1>5 DEF CompareAndSwap

\* A closure that calls OnceInit is still the one at work.
LEMMA NeedsKeepsInv ==
  ASSUME OnceInv, NEW t \in Thread, ClosureNeeds(t)
  PROVE  OnceInv'
<1> DEFINE s == stack[t]
           f == [Top(t) EXCEPT !.next = @ + 1]
           g == NewCall(Needs[Top(t).once][Top(t).next + 1])
           r == stack'[t]
<1>1. stack[t] # <<>> /\ Top(t).at = "closure"
  BY DEF ClosureNeeds, At
<1>2. /\ s \in Seq(Frame) /\ Top(t) = s[Len(s)] /\ Top(t).once \in OnceId
      /\ Top(t).next \in Nat /\ Top(t) \in Frame
      /\ Matched(s) /\ Achieved(s, seen[t]) /\ TypeOK
  BY <1>1, TopFacts, TopIsFrame DEF OnceInv
<1>3. /\ Top(t).next < Len(Needs[Top(t).once])
      /\ stack' = [stack EXCEPT ![t] = Append(Append(Callers(t), f), g)]
      /\ UNCHANGED <<state, seen, published, runs, returned, thrown>>
  BY DEF ClosureNeeds
<1>4. /\ f \in Frame /\ f.once = Top(t).once /\ f.next = Top(t).next + 1
      /\ f.at = "closure"
  BY <1>1, <1>2 DEF Frame
<1>5. Needs[Top(t).once][Top(t).next + 1] \in OnceId
  <2>1. Needs[Top(t).once] \in Seq(OnceId)
    BY <1>2, OnceAssumption
  <2>2. Top(t).next + 1 \in 1..Len(Needs[Top(t).once])
    BY <1>2, <1>3, <2>1
  <2>3. QED
    BY <2>1, <2>2
<1>6. /\ g \in Frame /\ g.once = Needs[Top(t).once][Top(t).next + 1]
      /\ g.at = "fast" /\ g.next = 0
  BY <1>5 DEF NewCall, Frame, Place
<1>7. r = Append(Append(SubSeq(s, 1, Len(s) - 1), f), g)
  BY <1>2, <1>3 DEF TypeOK, Callers
<1> HIDE DEF f, g
<1>8. /\ r \in Seq(Frame) /\ Len(s) \in Nat \ {0} /\ Len(r) = Len(s) + 1
      /\ r[Len(s)] = f /\ r[Len(s) + 1] = g
      /\ \A i \in 1..(Len(s) - 1) : r[i] = s[i]
  <2> DEFINE q == Append(SubSeq(s, 1, Len(s) - 1), f)
  <2>1. /\ q \in Seq(Frame) /\ Len(s) \in Nat \ {0} /\ Len(q) = Len(s)
        /\ q[Len(s)] = f /\ \A i \in 1..(Len(s) - 1) : q[i] = s[i]
    BY <1>1, <1>2, <1>4, ReplaceFacts
  <2>2. r = Append(q, g)
    BY <1>7
  <2> HIDE DEF q
  <2>3. /\ Append(q, g) \in Seq(Frame) /\ Len(Append(q, g)) = Len(q) + 1
        /\ Append(q, g)[Len(q) + 1] = g
        /\ \A i \in 1..Len(q) : Append(q, g)[i] = q[i]
    BY <1>6, <2>1, PushFacts
  <2>4. QED
    BY <2>1, <2>2, <2>3
<1>9. OthersKept(t)
  BY <1>2, <1>3, <1>8 DEF OthersKept, TypeOK
<1>10. \A i \in 1..Len(r) : i \in 1..(Len(s) - 1) \/ i = Len(s) \/ i = Len(s) + 1
  BY <1>8
<1>11. TypeOK'
  BY <1>2, <1>3, <1>9 DEF TypeOK, OthersKept
<1>12. Matched(r)
  <2>1. ASSUME NEW i \in 1..(Len(s) - 1)
        PROVE  /\ i \in 1..Len(s) /\ i < Len(s) /\ r[i] = s[i]
               /\ r[i + 1].once = s[i + 1].once
    <3>1. i \in 1..Len(s) /\ i < Len(s) /\ r[i] = s[i]
      BY <1>8
    <3>2. CASE i + 1 = Len(s)
      BY <1>2, <1>4, <1>8, <3>1, <3>2
    <3>3. CASE i + 1 # Len(s)
      <4>1. i + 1 \in 1..(Len(s) - 1)
        BY <1>8, <3>1, <3>3
      <4>2. QED
        BY <1>8, <3>1, <4>1
    <3>4. QED
      BY <3>2, <3>3
  <2>2. ASSUME NEW i \in 1..(Len(s) - 1)
        PROVE  /\ r[i].next <= Len(Needs[r[i].once])
               /\ ~InClosure(r[i]) => r[i].next = 0
               /\ r[i].at = "closure" /\ r[i].next >= 1
               /\ r[i + 1].once = Needs[r[i].once][r[i].next]
    BY <1>2, <2>1 DEF Matched
  <2>3. /\ f.next <= Len(Needs[f.once]) /\ InClosure(f) /\ f.next >= 1
        /\ g.once = Needs[f.once][f.next]
    <3>1. Needs[Top(t).once] \in Seq(OnceId)
      BY <1>2, OnceAssumption
    <3>2. QED
      BY <1>2, <1>3, <1>4, <1>6, <3>1 DEF InClosure
  <2>4. g.next <= Len(Needs[g.once])
    BY <1>5, <1>6, OnceAssumption
  <2> SUFFICES ASSUME NEW i \in 1..Len(r)
               PROVE  /\ r[i].next <= Len(Needs[r[i].once])
                      /\ ~InClosure(r[i]) => r[i].next = 0
                      /\ i < Len(r) => /\ r[i].at = "closure" /\ r[i].next >= 1
                                       /\ r[i + 1].once = Needs[r[i].once][r[i].next]
    BY DEF Matched
  <2>5. CASE i \in 1..(Len(s) - 1)
    BY <2>2, <2>5
  <2>6. CASE i = Len(s)
    BY <1>4, <1>8, <2>3, <2>6
  <2>7. CASE i = Len(s) + 1
    <3>1. ~(i < Len(r))
      BY <1>8, <2>7
    <3>2. QED
      BY <1>6, <1>8, <2>4, <2>7, <3>1
  <2>8. QED
    BY <1>10, <2>5, <2>6, <2>7
<1>13. Achieved(r, seen'[t])
  <2>1. ASSUME NEW i \in 1..(Len(s) - 1)
        PROVE  i \in 1..Len(s) /\ i # Len(s) /\ i # Len(r) /\ r[i] = s[i]
    BY <1>8
  <2>2. ASSUME NEW k \in 1..f.next, k < f.next
        PROVE  Needs[f.once][k] \in seen[t]
    <3>1. k \in 1..Top(t).next /\ Len(s) \in 1..Len(s)
      BY <1>2, <1>4, <1>8, <2>2
    <3>2. QED
      BY <1>1, <1>2, <1>4, <3>1 DEF Achieved
  <2>3. Len(s) # Len(r)
    BY <1>8
  <2> SUFFICES ASSUME NEW i \in 1..Len(r)
               PROVE  /\ r[i].at = "closure" =>
                            \A k \in 1..r[i].next : k < r[i].next \/ i = Len(r)
                                => Needs[r[i].once][k] \in seen'[t]
                      /\ r[i].at = "store" => r[i].once \in seen'[t]
    BY DEF Achieved
  <2>4. CASE i \in 1..(Len(s) - 1)
    BY <1>2, <1>3, <2>1, <2>4 DEF Achieved
  <2>5. CASE i = Len(s)
    BY <1>3, <1>4, <1>8, <2>2, <2>3, <2>5
  <2>6. CASE i = Len(s) + 1
    BY <1>6, <1>8, <2>6
  <2>7. QED
    BY <1>10, <2>4, <2>5, <2>6
<1>14. \A x \in OnceId : SameWork(s, r, x)
  <2>1. InClosure(f) /\ InClosure(s[Len(s)]) /\ ~InClosure(g)
    BY <1>1, <1>2, <1>4, <1>6 DEF InClosure
  <2>2. ASSUME NEW i \in 1..Len(s)
        PROVE  /\ i \in 1..Len(r) /\ r[i].once = s[i].once
               /\ InClosure(r[i]) <=> InClosure(s[i])
    <3>1. CASE i = Len(s)
      BY <1>2, <1>4, <1>8, <2>1, <3>1
    <3>2. CASE i # Len(s)
      <4>1. i \in 1..(Len(s) - 1)
        BY <1>8, <3>2
      <4>2. QED
        BY <1>8, <4>1
    <3>3. QED
      BY <3>1, <3>2
  <2>3. ASSUME NEW i \in 1..Len(r), InClosure(r[i])
        PROVE  i \in 1..Len(s)
    BY <1>8, <1>10, <2>1, <2>3
  <2>4. QED
    BY <2>2, <2>3 DEF SameWork
<1>15. StacksMatch' /\ WorkersInv' /\ ProgressInv'
  BY <1>3, <1>9, <1>12, <1>13, <1>14, StacksKept, WorkersKept, ProgressKept
     DEF OnceInv
<1>16. SeenInv' /\ RunsInv'
  BY <1>3 DEF OnceInv, SeenInv, RunsInv, Closed, NeedsOf
<1>17. QED
  BY <1>11, <1>15, <1>16 DEF OnceInv

\* A closure that has called all it needs has the effects of all of them.
LEMMA EndKeepsInv ==
  ASSUME OnceInv, NEW t \in Thread, ClosureEnds(t)
  PROVE  OnceInv'
<1> DEFINE o == Top(t).once
           s == stack[t]
<1>1. stack[t] # <<>> /\ Top(t).at = "closure"
  BY DEF ClosureEnds, At
<1>2. /\ s \in Seq(Frame) /\ Len(s) \in Nat \ {0} /\ Top(t) = s[Len(s)]
      /\ o \in OnceId /\ Matched(s) /\ Achieved(s, seen[t]) /\ TypeOK
  BY <1>1, TopFacts, TopIsFrame DEF OnceInv
<1>3. /\ Top(t).next = Len(Needs[o])
      /\ seen' = [seen EXCEPT ![t] = @ \cup {o}]
      /\ Goto(t, "store")
      /\ UNCHANGED <<state, published, runs, returned, thrown>>
  BY DEF ClosureEnds
<1>4. "store" \in Place
  BY DEF Place
<1>5. OthersKept(t) /\ Moved(s, stack'[t], "store")
  BY <1>1, <1>2, <1>3, <1>4, GotoFacts
<1>6. /\ seen' \in [Thread -> SUBSET OnceId] /\ seen'[t] = seen[t] \cup {o}
      /\ \A u \in Thread \ {t} : seen'[u] = seen[u]
  BY <1>2, <1>3 DEF TypeOK
<1>7. TypeOK'
  BY <1>2, <1>3, <1>5, <1>6 DEF TypeOK, OthersKept
<1>8. NeedsOf(o) \subseteq seen[t]
  <2> SUFFICES ASSUME NEW k \in 1..Len(Needs[o]) PROVE Needs[o][k] \in seen[t]
    BY DEF NeedsOf
  <2>1. Len(s) \in 1..Len(s)
    BY <1>2
  <2>2. QED
    BY <1>1, <1>2, <1>3, <2>1 DEF Achieved
<1>9. SeenInv'
  <2>1. ASSUME NEW u \in Thread
        PROVE  Closed(seen'[u]) /\ returned'[u] \subseteq seen'[u]
    <3>1. Closed(seen[u]) /\ returned[u] \subseteq seen[u]
      BY DEF OnceInv, SeenInv
    <3>2. CASE u = t
      <4>1. Closed(seen[t] \cup {o})
        BY <1>8, <3>1, <3>2 DEF Closed
      <4>2. QED
        BY <1>3, <1>6, <3>1, <3>2, <4>1
    <3>3. CASE u # t
      BY <1>3, <1>6, <3>1, <3>3
    <3>4. QED
      BY <3>2, <3>3
  <2>2. QED
    BY <1>3, <2>1 DEF OnceInv, SeenInv, Closed, NeedsOf
<1>10. StacksMatch'
  BY <1>2, <1>4, <1>5, MovedMatches, StacksKept DEF OnceInv
<1>11. ProgressInv'
  <2>1. Achieved(stack'[t], seen'[t])
    BY <1>2, <1>4, <1>5, <1>6, MovedAchieves
  <2>2. \A u \in Thread : seen[u] \subseteq seen'[u]
    BY <1>6
  <2>3. QED
    BY <1>5, <2>1, <2>2, ProgressKept DEF OnceInv
<1>12. WorkersInv'
  <2>1. InClosure(s[Len(s)])
    BY <1>1, <1>2 DEF InClosure
  <2>2. \A x \in OnceId : SameWork(s, stack'[t], x)
    BY <1>2, <1>4, <1>5, <2>1, MovedWork
  <2>3. QED
    BY <1>3, <1>5, <2>2, WorkersKept DEF OnceInv
<1>13. RunsInv'
  BY <1>3 DEF OnceInv, RunsInv
<1>14. QED
  BY <1>7, <1>9, <1>10, <1>11, <1>12, <1>13 DEF OnceInv

\* The store takes the once from its only worker and publishes all that the
\* worker has seen.
LEMMA StoreKeepsInv ==
  ASSUME OnceInv, NEW t \in Thread, StoreDone(t)
  PROVE  OnceInv'
<1>1. stack[t] # <<>> /\ Top(t).at = "store"
  BY DEF StoreDone, At
<1>2. PICK o \in OnceId, n \in Nat \ {0} : o = Top(t).once /\ n = Len(stack[t])
  BY <1>1, TopFacts, TopIsFrame DEF OnceInv
<1>3. /\ stack[t] \in Seq(Frame) /\ Top(t) = stack[t][n]
      /\ n \in Depth(t) /\ WorksOn(t, n, o)
      /\ Matched(stack[t]) /\ Achieved(stack[t], seen[t]) /\ TypeOK
  BY <1>1, <1>2, TopFacts DEF OnceInv, InClosure
<1>4. /\ state' = [state EXCEPT ![o] = "DONE"]
      /\ published' = [published EXCEPT ![o] = seen[t]]
      /\ Return(t)
      /\ UNCHANGED <<seen, runs, thrown>>
  BY <1>2 DEF StoreDone, Released
<1>5. /\ OthersKept(t) /\ Popped(stack[t], stack'[t])
      /\ returned' \in [Thread -> SUBSET OnceId]
      /\ returned'[t] = returned[t] \cup {o}
      /\ \A u \in Thread \ {t} : returned'[u] = returned[u]
  BY <1>1, <1>2, <1>3, <1>4, ReturnFacts
<1>6. /\ state'[o] = "DONE" /\ \A x \in OnceId \ {o} : state'[x] = state[x]
      /\ published'[o] = seen[t] /\ \A x \in OnceId \ {o} : published'[x] = published[x]
  BY <1>3, <1>4 DEF TypeOK
<1>7. TypeOK'
  BY <1>3, <1>4, <1>5 DEF TypeOK, OthersKept, OnceState
<1>8. o \in seen[t]
  BY <1>1, <1>2, <1>3 DEF Achieved, Depth
<1>9. state[o] = "EXECUTING_CLOSURE"
  BY <1>3 DEF OnceInv, WorkersInv, WorkersOf, WorkersExecute
<1>10. SeenInv'
  <2>1. \A u \in Thread : Closed(seen'[u]) /\ returned'[u] \subseteq seen'[u]
    BY <1>4, <1>5, <1>8 DEF OnceInv, SeenInv
  <2>2. ASSUME NEW x \in OnceId
        PROVE  Closed(published'[x]) /\ (state'[x] = "DONE" => x \in published'[x])
    <3>1. CASE x = o
      BY <1>6, <1>8, <3>1 DEF OnceInv, SeenInv
    <3>2. CASE x # o
      BY <1>6, <3>2 DEF OnceInv, SeenInv
    <3>3. QED
      BY <3>1, <3>2
  <2>3. QED
    BY <2>1, <2>2 DEF SeenInv, Closed, NeedsOf
<1>11. StacksMatch'
  BY <1>3, <1>5, PoppedMatches, StacksKept DEF OnceInv
<1>12. ProgressInv'
  <2>1. Achieved(stack'[t], seen'[t])
    BY <1>2, <1>3, <1>4, <1>5, <1>8, PoppedAchieves
  <2>2. QED
    BY <1>4, <1>5, <2>1, ProgressKept DEF OnceInv
<1>13. RunsInv'
  BY <1>3, <1>4, <1>6, <1>9 DEF OnceInv, RunsInv, TypeOK
<1>14. WorkersOf(o)'
  <2>1. ASSUME NEW u \in Thread, NEW i \in Depth(u)', WorksOn(u, i, o)'
        PROVE  FALSE
    <3>1. CASE u = t
      <4>1. i \in Depth(t) /\ i # n /\ stack'[t][i] = stack[t][i]
        BY <1>2, <1>5, <2>1, <3>1 DEF Popped, Depth
      <4>2. WorksOn(t, i, o)
        BY <2>1, <3>1, <4>1 DEF WorksOn, InClosure
      <4>3. QED
        BY <1>3, <4>1, <4>2 DEF OnceInv, WorkersInv, WorkersOf, OneWorker
    <3>2. CASE u # t
      <4>1. stack'[u] = stack[u]
        BY <1>5, <3>2 DEF OthersKept
      <4>2. i \in Depth(u) /\ WorksOn(u, i, o)
        BY <2>1, <4>1 DEF Depth, WorksOn, InClosure
      <4>3. QED
        BY <1>3, <3>2, <4>2 DEF OnceInv, WorkersInv, WorkersOf, OneWorker
    <3>3. QED
      BY <3>1, <3>2
  <2>2. OneWorker(o)' /\ WorkersExecute(o)'
    BY <2>1 DEF OneWorker, WorkersExecute
  <2>3. ExecutionWorked(o)'
    BY <1>6 DEF ExecutionWorked
  <2>4. QED
    BY <2>2, <2>3 DEF WorkersOf
<1>15. ASSUME NEW x \in OnceId, x # o PROVE WorkersOf(x)'
  <2>1. SameWork(stack[t], stack'[t], x)
    BY <1>2, <1>3, <1>5, <1>15, PoppedWork
  <2>2. WorkersOf(x) /\ state'[x] = state[x]
    BY <1>6, <1>15 DEF OnceInv, WorkersInv
  <2>3. QED
    BY <1>4, <1>5, <2>1, <2>2, WorkersOfKept
<1>16. WorkersInv'
  BY <1>14, <1>15 DEF WorkersInv
<1>17. QED
  BY <1>7, <1>10, <1>11, <1>12, <1>13, <1>16 DEF OnceInv

\* An exception leaves the words of the closures it leaves as they are.
LEMMA ThrowKeepsInv ==
  ASSUME OnceInv, NEW t \in Thread, Throw(t)
  PROVE  OnceInv'
<1>1. /\ thrown' = thrown \cup {stack[t][i].once : i \in 1..Len(stack[t])}
      /\ stack' = [stack EXCEPT ![t] = <<>>]
      /\ UNCHANGED <<state, seen, published, runs, returned>>
  BY DEF Throw
<1>2. TypeOK /\ stack \in [Thread -> Seq(Frame)] /\ stack[t] \in Seq(Frame)
  BY DEF OnceInv, TypeOK
<1>3. stack'[t] = <<>> /\ Len(stack'[t]) = 0 /\ <<>> \in Seq(Frame)
  BY <1>1, <1>2
<1>4. OthersKept(t)
  BY <1>1, <1>2, <1>3 DEF OthersKept
<1>5. ASSUME NEW i \in 1..Len(stack[t]) PROVE stack[t][i].once \in OnceId
  <2>1. stack[t][i] \in Frame
    BY <1>2
  <2>2. QED
    BY <2>1 DEF Frame
<1>6. TypeOK'
  BY <1>1, <1>2, <1>4, <1>5 DEF TypeOK, OthersKept
<1>7. Matched(stack'[t]) /\ Achieved(stack'[t], seen'[t])
  BY <1>3 DEF Matched, Achieved
<1>8. StacksMatch' /\ ProgressInv'
  BY <1>1, <1>4, <1>7, StacksKept, ProgressKept DEF OnceInv
<1>9. SeenInv' /\ RunsInv'
  BY <1>1 DEF OnceInv, SeenInv, RunsInv, Closed, NeedsOf
<1>10. ASSUME NEW o \in OnceId PROVE WorkersOf(o)'
  <2>1. WorkersOf(o) /\ state'[o] = state[o] /\ thrown \subseteq thrown'
    BY <1>1 DEF OnceInv, WorkersInv
  <2>2. CASE \E i \in 1..Len(stack[t]) : stack[t][i].once = o
    <3>1. o \in thrown'
      BY <1>1, <2>2
    <3>2. ASSUME NEW u \in Thread, NEW i \in Depth(u)', WorksOn(u, i, o)'
          PROVE  u # t /\ i \in Depth(u) /\ WorksOn(u, i, o)
      <4>1. u # t
        BY <1>3, <3>2 DEF Depth
      <4>2. stack'[u] = stack[u]
        BY <1>4, <4>1 DEF OthersKept
      <4>3. QED
        BY <3>2, <4>1, <4>2 DEF Depth, WorksOn, InClosure
    <3>3. OneWorker(o)'
      BY <2>1, <3>2 DEF OneWorker, WorkersOf
    <3>4. WorkersExecute(o)' /\ ExecutionWorked(o)'
      BY <2>1, <3>1, <3>2 DEF WorkersExecute, ExecutionWorked, WorkersOf
    <3>5. QED
      BY <3>3, <3>4 DEF WorkersOf
  <2>3. CASE ~ \E i \in 1..Len(stack[t]) : stack[t][i].once = o
    <3>1. SameWork(stack[t], stack'[t], o)
      BY <1>3, <2>3 DEF SameWork
    <3>2. QED
      BY <1>4, <2>1, <3>1, WorkersOfKept
  <2>4. QED
    BY <2>2, <2>3
<1>11. QED
  BY <1>6, <1>8, <1>9, <1>10 DEF OnceInv, WorkersInv

\* A thread calls OnceInit.
LEMMA CallKeepsInv ==
  ASSUME OnceInv, NEW t \in Thread, NEW o \in OnceId, Call(t, o)
  PROVE  OnceInv'
<1> DEFINE c == NewCall(o)
<1>1. /\ stack[t] = <<>> /\ stack' = [stack EXCEPT ![t] = <<c>>]
      /\ UNCHANGED <<state, seen, published, runs, returned, thrown>>
  BY DEF Call
<1>2. c \in Frame /\ c.once = o /\ c.at = "fast" /\ c.next = 0
  BY DEF NewCall, Frame, Place
<1>3. TypeOK /\ stack \in [Thread -> Seq(Frame)]
  BY DEF OnceInv, TypeOK
<1> HIDE DEF c
<1>4. /\ stack'[t] \in Seq(Frame) /\ Len(stack'[t]) = 1 /\ stack'[t][1] = c
      /\ Len(stack[t]) = 0
  BY <1>1, <1>2, <1>3
<1>5. OthersKept(t)
  BY <1>1, <1>3, <1>4 DEF OthersKept
<1>6. TypeOK'
  BY <1>1, <1>3, <1>5 DEF TypeOK, OthersKept
<1>7. c.next <= Len(Needs[c.once])
  BY <1>2, OnceAssumption
<1>8. Matched(stack'[t]) /\ Achieved(stack'[t], seen'[t])
  BY <1>2, <1>4, <1>7 DEF Matched, Achieved
<1>9. \A x \in OnceId : SameWork(stack[t], stack'[t], x)
  BY <1>2, <1>4 DEF SameWork, InClosure
<1>10. StacksMatch' /\ ProgressInv' /\ WorkersInv'
  BY <1>1, <1>5, <1>8, <1>9, StacksKept, ProgressKept, WorkersKept DEF OnceInv
<1>11. SeenInv' /\ RunsInv'
  BY <1>1 DEF OnceInv, SeenInv, RunsInv, Closed, NeedsOf
<1>12. QED
  BY <1>6, <1>10, <1>11 DEF OnceInv

-----------------------------------------------------------------------------
\* The invariant holds at first ...
LEMMA OnceInvInit == Init => OnceInv
<1> SUFFICES ASSUME Init PROVE OnceInv
  OBVIOUS
<1>1. /\ state = [o \in OnceId |-> "UNINITIALIZED"]
      /\ stack = [t \in Thread |-> <<>>]
      /\ seen = [t \in Thread |-> {}] /\ published = [o \in OnceId |-> {}]
      /\ runs = [o \in OnceId |-> 0] /\ returned = [t \in Thread |-> {}]
      /\ thrown = {}
  BY DEF Init
<1>2. TypeOK
  BY <1>1 DEF TypeOK, OnceState
<1>3. \A t \in Thread : stack[t] = <<>> /\ Len(stack[t]) = 0
  BY <1>1
<1>4. StacksMatch /\ ProgressInv
  BY <1>3 DEF StacksMatch, Matched, ProgressInv, Achieved
<1>5. WorkersInv
  BY <1>1, <1>3 DEF WorkersInv, WorkersOf, OneWorker, WorkersExecute,
                    ExecutionWorked, Depth
<1>6. SeenInv /\ RunsInv
  BY <1>1 DEF SeenInv, RunsInv, Closed
<1>7. QED
  BY <1>2, <1>4, <1>5, <1>6 DEF OnceInv

\* ... and every step keeps it.
LEMMA OnceInvStep == OnceInv /\ [Next]_vars => OnceInv'
<1> SUFFICES ASSUME OnceInv, [Next]_vars PROVE OnceInv'
  OBVIOUS
<1>1. CASE UNCHANGED vars
  BY <1>1 DEF vars, OnceInv, TypeOK, StacksMatch, Matched, SeenInv, Closed, NeedsOf,
              ProgressInv, Achieved, WorkersInv, WorkersOf, OneWorker,
              WorkersExecute, ExecutionWorked, Depth, WorksOn, InClosure, RunsInv
<1>2. ASSUME NEW t \in Thread, NEW o \in OnceId, Call(t, o) PROVE OnceInv'
  BY <1>2, CallKeepsInv
<1>3. ASSUME NEW t \in Thread, Throw(t) PROVE OnceInv'
  BY <1>3, ThrowKeepsInv
<1>4. ASSUME NEW t \in Thread, Step(t) PROVE OnceInv'
  <2>1. CASE FastLoad(t)
    <3>1. /\ stack[t] # <<>> /\ ~InClosure(Top(t)) /\ LoadOrGoto(t, "load")
          /\ UNCHANGED <<state, published, runs, thrown>>
      BY <2>1 DEF FastLoad, At, InClosure
    <3>2. QED
      BY <3>1, LoadKeepsInv
  <2>2. CASE FirstLoad(t)
    <3>1. /\ stack[t] # <<>> /\ ~InClosure(Top(t)) /\ LoadOrGoto(t, "swap")
          /\ UNCHANGED <<state, published, runs, thrown>>
      BY <2>2 DEF FirstLoad, At, InClosure
    <3>2. QED
      BY <3>1, LoadKeepsInv
  <2>3. CASE CompareAndSwap(t)
    BY <2>3, SwapKeepsInv
  <2>4. CASE Spin(t)
    <3>1. /\ stack[t] # <<>> /\ ~InClosure(Top(t)) /\ LoadOrGoto(t, "spin")
          /\ UNCHANGED <<state, published, runs, thrown>>
      BY <2>4 DEF Spin, At, InClosure
    <3>2. QED
      BY <3>1, LoadKeepsInv
  <2>5. CASE ClosureNeeds(t)
    BY <2>5, NeedsKeepsInv
  <2>6. CASE ClosureEnds(t)
    BY <2>6, EndKeepsInv
  <2>7. CASE StoreDone(t)
    BY <2>7, StoreKeepsInv
  <2>8. QED
    BY <1>4, <2>1, <2>2, <2>3, <2>4, <2>5, <2>6, <2>7 DEF Step
<1>5. QED
  BY <1>1, <1>2, <1>3, <1>4 DEF Next

\* The invariant holds whatever the threads do.
THEOREM OnceInvariantHolds == Spec => []OnceInv
<1>1. Init => OnceInv
  BY OnceInvInit
<1>2. OnceInv /\ [Next]_vars => OnceInv'
  BY OnceInvStep
<1>3. QED
  BY <1>1, <1>2, PTL DEF Spec

\* Every variable of Once keeps its type.
THEOREM OnceTypes == Spec => []TypeOK
<1>1. OnceInv => TypeOK
  BY DEF OnceInv
<1>2. QED
  BY <1>1, OnceInvariantHolds, PTL

\* OnceInit starts a closure at most once, however many threads call it, even if
\* the closure throws.
THEOREM OnceRunsAtMostOnce == Spec => []RunsAtMostOnce
<1>1. OnceInv => RunsAtMostOnce
  BY DEF OnceInv, RunsInv, RunsAtMostOnce
<1>2. QED
  BY <1>1, OnceInvariantHolds, PTL

\* Whichever load of OnceInit or OnceInitImpl it returns by, a call that has
\* returned sees the effects of the closure and of those the closure needed.
THEOREM OnceReturnedSeesInit == Spec => []ReturnedSeesInit
<1>1. OnceInv => ReturnedSeesInit
  BY DEF OnceInv, SeenInv, Closed, ReturnedSeesInit
<1>2. QED
  BY <1>1, OnceInvariantHolds, PTL

\* A once that is EXECUTING_CLOSURE has one thread at work on it, or threw: the
\* threads that spin do not wait for a thread that has left.
THEOREM OnceExecutingHasWorker == Spec => []ExecutingHasWorker
<1>1. ASSUME OnceInv PROVE ExecutingHasWorker
  <2>1. ASSUME NEW t \in Thread, NEW o, Working(t, o)
        PROVE  \E i \in Depth(t) : WorksOn(t, i, o)
    BY <2>1 DEF Working, Depth, WorksOn, InClosure
  <2>2. ASSUME NEW t \in Thread, NEW o, \E i \in Depth(t) : WorksOn(t, i, o)
        PROVE  Working(t, o)
    BY <2>2 DEF Working, Depth, WorksOn, InClosure
  <2> SUFFICES ASSUME NEW o \in OnceId
               PROVE  /\ state[o] = "EXECUTING_CLOSURE"
                            => o \in thrown \/ \E t \in Thread : Working(t, o)
                      /\ \A t \in Thread : Working(t, o)
                            => /\ state[o] = "EXECUTING_CLOSURE"
                               /\ \A u \in Thread : Working(u, o) => u = t
    BY DEF ExecutingHasWorker
  <2>3. OneWorker(o) /\ WorkersExecute(o) /\ ExecutionWorked(o)
    BY <1>1 DEF OnceInv, WorkersInv, WorkersOf
  <2>4. state[o] = "EXECUTING_CLOSURE"
            => o \in thrown \/ \E t \in Thread : Working(t, o)
    BY <2>2, <2>3 DEF ExecutionWorked
  <2>5. ASSUME NEW t \in Thread, Working(t, o)
        PROVE  state[o] = "EXECUTING_CLOSURE"
    BY <2>1, <2>3, <2>5 DEF WorkersExecute
  <2>6. ASSUME NEW t \in Thread, NEW u \in Thread, Working(t, o), Working(u, o)
        PROVE  u = t
    BY <2>1, <2>3, <2>6 DEF OneWorker
  <2>7. QED
    BY <2>4, <2>5, <2>6
<1>2. OnceInv => ExecutingHasWorker
  BY <1>1
<1>3. QED
  BY <1>2, OnceInvariantHolds, PTL


-----------------------------------------------------------------------------
(* Singleton: one once, whose closure needs no other.                       *)

\* A thread that returns from the once is out of it.
LEMMA Leaves ==
  ASSUME SingletonAssumption, OnceInv, OnlyThisOnce, NEW t \in Thread, stack[t] # <<>>, Return(t)
  PROVE  /\ stack'[t] = <<>> /\ once_ \in returned'[t]
         /\ \A u \in Thread \ {t} : stack'[u] = stack[u] /\ returned'[u] = returned[u]
<1>1. TypeOK
  BY DEF OnceInv
<1>2. /\ OthersKept(t) /\ Popped(stack[t], stack'[t])
      /\ returned'[t] = returned[t] \cup {Top(t).once}
      /\ \A u \in Thread \ {t} : returned'[u] = returned[u]
  BY <1>1, ReturnFacts
<1>3. Len(stack[t]) = 1 /\ Top(t).once = once_
  BY DEF OnlyThisOnce
<1>4. stack'[t] = <<>>
  BY <1>2, <1>3 DEF Popped
<1>5. QED
  BY <1>2, <1>3, <1>4 DEF OthersKept

\* One that goes on is where it went.
LEMMA Stays ==
  ASSUME OnceInv, NEW t \in Thread, stack[t] # <<>>, NEW p \in Place, Goto(t, p)
  PROVE  /\ stack'[t] # <<>> /\ \A q : At(t, q)' <=> q = p
         /\ \A u \in Thread \ {t} : stack'[u] = stack[u]
<1>1. OthersKept(t) /\ Moved(stack[t], stack'[t], p)
  BY GotoFacts DEF OnceInv
<1>2. /\ stack'[t] \in Seq(Frame) /\ Len(stack'[t]) \in Nat \ {0}
      /\ stack'[t][Len(stack'[t])].at = p
  BY <1>1 DEF Moved
<1>3. QED
  BY <1>1, <1>2 DEF OthersKept, At, Top

\* What a load of the once does.
Loads(t) == /\ \A u \in Thread \ {t} : stack'[u] = stack[u] /\ returned'[u] = returned[u]
            /\ \/ /\ stack'[t] = <<>> /\ once_ \in returned'[t]
                  /\ state[once_] = "DONE"
               \/ /\ stack'[t] # <<>> /\ returned'[t] = returned[t]
                  /\ ~At(t, "store")' /\ ~At(t, "closure")'

\* A load returns from the call when it reads DONE, and else goes on.
LEMMA LoadLeavesOrStays ==
  ASSUME SingletonAssumption, OnceInv, OnlyThisOnce, NEW t \in Thread, stack[t] # <<>>,
         NEW p \in {"load", "swap", "spin"}, LoadOrGoto(t, p)
  PROVE  Loads(t)
<1>1. Top(t).once = once_
  BY DEF OnlyThisOnce
<1>2. CASE state[once_] = "DONE" /\ Return(t)
  BY <1>2, Leaves DEF Loads
<1>3. CASE Goto(t, p) /\ returned' = returned
  <2>1. p \in Place
    BY DEF Place
  <2>2. /\ stack'[t] # <<>> /\ \A q : At(t, q)' <=> q = p
        /\ \A u \in Thread \ {t} : stack'[u] = stack[u]
    BY <1>3, <2>1, Stays
  <2>3. QED
    BY <1>3, <2>2 DEF Loads
<1>4. QED
  BY <1>1, <1>2, <1>3 DEF LoadOrGoto


\* What a step inside OnceInit does to what Singleton depends on: it leaves the
\* call after DONE has been read or stored, or goes on, into the closure only if
\* nobody was there before.
InOnceEffect(t) ==
    /\ stack[t] # <<>>
    /\ \A u \in Thread \ {t} : stack'[u] = stack[u] /\ returned'[u] = returned[u]
    /\ \/ /\ stack'[t] = <<>> /\ once_ \in returned'[t]
          /\ state[once_] = "DONE" \/ At(t, "store")
       \/ /\ stack'[t] # <<>> /\ returned'[t] = returned[t] /\ ~At(t, "store")'
          /\ At(t, "closure")' => state[once_] = "UNINITIALIZED"
    /\ state'[once_] = "DONE" => state[once_] = "DONE" \/ At(t, "store")
    /\ state'[once_] = "UNINITIALIZED" => state[once_] = "UNINITIALIZED"

\* Step by step.
LEMMA InOnceFacts ==
  ASSUME SingletonAssumption, OnceInv, OnlyThisOnce, NEW t \in Thread, InOnce(t)
  PROVE  InOnceEffect(t)
<1>1. once_ \in OnceId  /\ state \in [OnceId -> OnceState]
  BY DEF SingletonAssumption, OnceInv, TypeOK
<1>2. ASSUME stack[t] # <<>>, Loads(t), state' = state PROVE InOnceEffect(t)
  BY <1>2 DEF Loads, InOnceEffect
<1>3. CASE FastLoad(t)
  <2>1. stack[t] # <<>> /\ LoadOrGoto(t, "load") /\ state' = state
    BY <1>3 DEF FastLoad, At
  <2>2. QED
    BY <1>2, <2>1, LoadLeavesOrStays
<1>4. CASE FirstLoad(t)
  <2>1. stack[t] # <<>> /\ LoadOrGoto(t, "swap") /\ state' = state
    BY <1>4 DEF FirstLoad, At
  <2>2. QED
    BY <1>2, <2>1, LoadLeavesOrStays
<1>5. CASE Spin(t)
  <2>1. stack[t] # <<>> /\ LoadOrGoto(t, "spin") /\ state' = state
    BY <1>5 DEF Spin, At
  <2>2. QED
    BY <1>2, <2>1, LoadLeavesOrStays
<1>6. CASE CompareAndSwap(t)
  <2>1. stack[t] # <<>> /\ Top(t).once = once_
    BY <1>6 DEF OnlyThisOnce, CompareAndSwap, At
  <2>2. CASE LoadOrGoto(t, "spin") /\ state' = state
    BY <1>2, <2>1, <2>2, LoadLeavesOrStays
  <2>3. CASE /\ state[once_] = "UNINITIALIZED"
             /\ state' = [state EXCEPT ![once_] = "EXECUTING_CLOSURE"]
             /\ Goto(t, "closure") /\ returned' = returned
    <3>1. /\ stack'[t] # <<>> /\ \A q : At(t, q)' <=> q = "closure"
          /\ \A u \in Thread \ {t} : stack'[u] = stack[u]
      BY <2>1, <2>3, Stays DEF Place
    <3>2. state'[once_] = "EXECUTING_CLOSURE"
      BY <1>1, <2>3
    <3>3. QED
      BY <2>1, <2>3, <3>1, <3>2 DEF InOnceEffect
  <2>4. QED
    BY <1>6, <2>1, <2>2, <2>3 DEF CompareAndSwap
<1>7. CASE StoreDone(t)
  <2>1. At(t, "store") /\ stack[t] # <<>> /\ Return(t)
        /\ state' = [state EXCEPT ![Top(t).once] = "DONE"]
    BY <1>7 DEF StoreDone, At
  <2>2. state'[once_] = "DONE"
    BY <1>1, <2>1 DEF OnlyThisOnce
  <2>3. QED
    BY <2>1, <2>2, Leaves DEF InOnceEffect
<1>8. QED
  BY <1>3, <1>4, <1>5, <1>6, <1>7 DEF InOnce

-----------------------------------------------------------------------------
\* The frames of a thread that does not move.
LEMMA FramesKept ==
  ASSUME NEW u \in Thread, stack'[u] = stack[u]
  PROVE  \A p : At(u, p)' <=> At(u, p)
  BY DEF At, Top

\* A step inside OnceInit.
LEMMA InOnceKeepsSingleton ==
  ASSUME SingletonAssumption, OnceInv, OnlyThisOnce, SingletonInv, NEW t \in Thread, InOnce(t)
  PROVE  SingletonInv'
<1>1. InOnceEffect(t)
  BY InOnceFacts
<1>2. /\ doing' = IF stack'[t] = <<>> THEN [doing EXCEPT ![t] = "read"] ELSE doing
      /\ UNCHANGED <<instance_, made, dead, again, got, raced, downs>>
  BY DEF InOnce
<1>3. /\ SingletonTypeOK /\ CallsMatch /\ MadeKnown /\ ReturnedKnown /\ PointerKnown
      /\ doing \in [Thread -> {"idle", "init", "read", "clear"}]
      /\ made \in {0, 1}
  BY DEF SingletonInv, SingletonTypeOK
<1>4. doing[t] = "init" /\ stack[t] # <<>>
  BY <1>1, <1>3 DEF InOnceEffect, CallsMatch
<1>5. /\ \A u \in Thread \ {t} : /\ stack'[u] = stack[u] /\ returned'[u] = returned[u]
                                 /\ doing'[u] = doing[u]
                                 /\ \A p : At(u, p)' <=> At(u, p)
      /\ doing'[t] = IF stack'[t] = <<>> THEN "read" ELSE "init"
  BY <1>1, <1>2, <1>3, <1>4, FramesKept DEF InOnceEffect
<1>6. SingletonTypeOK'
  BY <1>2, <1>3 DEF SingletonTypeOK
<1>7. CallsMatch'
  <2>1. ASSUME NEW u \in Thread PROVE doing'[u] = "init" <=> stack'[u] # <<>>
    BY <1>3, <1>5 DEF CallsMatch
  <2>2. QED
    BY <2>1 DEF CallsMatch
<1>8. MadeKnown'
  <2>1. ASSUME made = 0
        PROVE  state'[once_] # "DONE" /\ \A u \in Thread : ~At(u, "store")'
    <3>1. state[once_] # "DONE" /\ \A u \in Thread : ~At(u, "store")
      BY <1>3, <2>1 DEF MadeKnown
    <3>2. ~At(t, "store")'
      BY <1>1, <3>1 DEF InOnceEffect
    <3>3. QED
      BY <1>1, <1>5, <3>1, <3>2 DEF InOnceEffect
  <2>2. ASSUME made = 1
        PROVE  state'[once_] # "UNINITIALIZED" /\ \A u \in Thread : ~At(u, "closure")'
    <3>1. state[once_] # "UNINITIALIZED" /\ \A u \in Thread : ~At(u, "closure")
      BY <1>3, <2>2 DEF MadeKnown
    <3>2. stack'[t] = <<>> => ~At(t, "closure")'
      BY DEF At
    <3>3. ~At(t, "closure")'
      BY <1>1, <3>1, <3>2 DEF InOnceEffect
    <3>4. QED
      BY <1>1, <1>5, <3>1, <3>3 DEF InOnceEffect
  <2>3. QED
    BY <1>2, <2>1, <2>2 DEF MadeKnown
<1>9. ReturnedKnown'
  <2>1. ASSUME NEW u \in Thread
        PROVE  /\ once_ \in returned'[u] => made = 1
               /\ doing'[u] = "read" => once_ \in returned'[u]
    <3>1. CASE u # t
      BY <1>3, <1>5, <3>1 DEF ReturnedKnown
    <3>2. CASE u = t /\ stack'[t] = <<>>
      <4>1. once_ \in returned'[t] /\ (state[once_] = "DONE" \/ At(t, "store"))
        BY <1>1, <3>2 DEF InOnceEffect
      <4>2. QED
        BY <1>3, <3>2, <4>1 DEF MadeKnown
    <3>3. CASE u = t /\ stack'[t] # <<>>
      BY <1>1, <1>3, <1>5, <3>3 DEF InOnceEffect, ReturnedKnown
    <3>4. QED
      BY <3>1, <3>2, <3>3
  <2>2. QED
    BY <1>2, <2>1 DEF ReturnedKnown
<1>10. PointerKnown'
  <2>1. \A u \in Thread : /\ doing'[u] = "clear" <=> doing[u] = "clear"
                          /\ doing'[u] \in {"init", "read"} => doing[u] \in {"init", "read"}
    BY <1>4, <1>5
  <2>2. ShuttingDown' = ShuttingDown
    BY <2>1 DEF ShuttingDown
  <2>3. QED
    BY <1>2, <1>3, <2>1, <2>2 DEF PointerKnown
<1>11. QED
  BY <1>2, <1>6, <1>7, <1>8, <1>9, <1>10 DEF SingletonInv, GetsTheInstance


\* The closure runs on one thread, and makes the instance.
LEMMA ClosureAlone ==
  ASSUME SingletonAssumption, OnceInv, OnlyThisOnce, NEW t \in Thread, At(t, "closure")
  PROVE  /\ stack[t] # <<>> /\ state[once_] = "EXECUTING_CLOSURE"
         /\ \A u \in Thread \ {t} : ~At(u, "closure")
<1>1. stack[t] # <<>> /\ Len(stack[t]) \in Depth(t) /\ WorksOn(t, Len(stack[t]), once_)
  BY TopFacts DEF OnlyThisOnce, At, InClosure
<1>2. WorkersOf(once_)
  BY DEF SingletonAssumption, OnceInv, WorkersInv
<1>3. ASSUME NEW u \in Thread \ {t}, At(u, "closure") PROVE FALSE
  <2>1. Len(stack[u]) \in Depth(u) /\ WorksOn(u, Len(stack[u]), once_)
    BY <1>3, TopFacts DEF OnlyThisOnce, At, InClosure
  <2>2. QED
    BY <1>1, <1>2, <2>1 DEF WorkersOf, OneWorker
<1>4. QED
  BY <1>1, <1>2, <1>3 DEF WorkersOf, WorkersExecute

\* The closure makes the instance.
LEMMA InitInstanceKeepsSingleton ==
  ASSUME SingletonAssumption, OnceInv, OnlyThisOnce, SingletonInv, NEW t \in Thread, InitInstance(t)
  PROVE  SingletonInv'
<1>1. /\ At(t, "closure") /\ Goto(t, "store") /\ state' = state /\ returned' = returned
      /\ made' = made + 1 /\ instance_' = made'
      /\ UNCHANGED <<dead, again, doing, got, raced, downs>>
  BY DEF InitInstance, ClosureEnds
<1>2. /\ stack[t] # <<>> /\ state[once_] = "EXECUTING_CLOSURE"
      /\ \A u \in Thread \ {t} : ~At(u, "closure")
  BY <1>1, ClosureAlone
<1>3. /\ stack'[t] # <<>> /\ \A q : At(t, q)' <=> q = "store"
      /\ \A u \in Thread \ {t} : stack'[u] = stack[u]
  BY <1>1, <1>2, Stays DEF Place
<1>4. /\ SingletonTypeOK /\ CallsMatch /\ ReturnedKnown /\ PointerKnown /\ ~again
      /\ GetsTheInstance
  BY DEF SingletonInv
<1>5. made = 0 /\ made' = 1 /\ instance_' = 1 /\ dead = {}
  <2>1. made # 1
    BY <1>1 DEF SingletonInv, MadeKnown
  <2>2. QED
    BY <1>1, <1>4, <2>1 DEF SingletonTypeOK
<1>6. SingletonTypeOK'
  BY <1>1, <1>4, <1>5 DEF SingletonTypeOK
<1>7. CallsMatch'
  <2>1. ASSUME NEW u \in Thread PROVE doing'[u] = "init" <=> stack'[u] # <<>>
    BY <1>1, <1>2, <1>3, <1>4 DEF CallsMatch
  <2>2. QED
    BY <2>1 DEF CallsMatch
<1>8. MadeKnown'
  <2>1. ASSUME NEW u \in Thread PROVE ~At(u, "closure")'
    <3>1. CASE u = t
      BY <1>3, <3>1
    <3>2. CASE u # t
      BY <1>2, <1>3, <3>2, FramesKept
    <3>3. QED
      BY <3>1, <3>2
  <2>2. QED
    BY <1>1, <1>2, <1>5, <2>1 DEF MadeKnown
<1>9. ReturnedKnown'
  BY <1>1, <1>4, <1>5 DEF ReturnedKnown
<1>10. PointerKnown'
  BY <1>1, <1>4, <1>5 DEF PointerKnown, ShuttingDown
<1>11. QED
  BY <1>1, <1>4, <1>6, <1>7, <1>8, <1>9, <1>10 DEF SingletonInv, GetsTheInstance

\* Its constructor throws, and the call with it.
LEMMA InitThrowsKeepsSingleton ==
  ASSUME SingletonAssumption, OnceInv, OnlyThisOnce, SingletonInv, NEW t \in Thread, InitThrows(t)
  PROVE  SingletonInv'
<1>1. /\ stack' = [stack EXCEPT ![t] = <<>>] /\ state' = state /\ returned' = returned
      /\ doing' = [doing EXCEPT ![t] = "idle"]
      /\ UNCHANGED <<instance_, made, dead, again, got, raced, downs>>
  BY DEF InitThrows, Throw, Does
<1>2. At(t, "closure") /\ stack[t] # <<>>
  BY DEF InitThrows, Throw, At
<1>3. /\ SingletonTypeOK /\ CallsMatch /\ MadeKnown /\ ReturnedKnown /\ PointerKnown
      /\ doing \in [Thread -> {"idle", "init", "read", "clear"}]
      /\ stack \in [Thread -> Seq(Frame)]
  BY DEF SingletonInv, SingletonTypeOK, OnceInv, TypeOK
<1>4. /\ doing[t] = "init" /\ doing'[t] = "idle" /\ stack'[t] = <<>>
      /\ \A u \in Thread \ {t} : stack'[u] = stack[u] /\ doing'[u] = doing[u]
  BY <1>1, <1>2, <1>3 DEF CallsMatch
<1>5. SingletonTypeOK'
  BY <1>1, <1>3 DEF SingletonTypeOK
<1>6. CallsMatch'
  <2>1. ASSUME NEW u \in Thread PROVE doing'[u] = "init" <=> stack'[u] # <<>>
    BY <1>3, <1>4 DEF CallsMatch
  <2>2. QED
    BY <2>1 DEF CallsMatch
<1>7. MadeKnown'
  <2>1. ASSUME NEW u \in Thread, NEW p, At(u, p)' PROVE At(u, p)
    <3>1. u # t
      BY <1>4, <2>1 DEF At
    <3>2. QED
      BY <1>4, <2>1, <3>1, FramesKept
  <2>2. QED
    BY <1>1, <1>3, <2>1 DEF MadeKnown
<1>8. ReturnedKnown'
  <2>1. \A u \in Thread : doing'[u] = "read" => doing[u] = "read"
    BY <1>4
  <2>2. QED
    BY <1>1, <1>3, <2>1 DEF ReturnedKnown
<1>9. PointerKnown'
  <2>1. \A u \in Thread : /\ doing'[u] = "clear" <=> doing[u] = "clear"
                          /\ doing'[u] \in {"init", "read"} => doing[u] \in {"init", "read"}
    BY <1>4
  <2>2. ShuttingDown' = ShuttingDown
    BY <2>1 DEF ShuttingDown
  <2>3. QED
    BY <1>1, <1>3, <2>1, <2>2 DEF PointerKnown
<1>10. QED
  BY <1>1, <1>5, <1>6, <1>7, <1>8, <1>9 DEF SingletonInv, GetsTheInstance


\* GetInstance goes into OnceInit.
LEMMA GetInstanceKeepsSingleton ==
  ASSUME SingletonAssumption, OnceInv, OnlyThisOnce, SingletonInv, NEW t \in Thread, GetInstance(t)
  PROVE  SingletonInv'
<1>1. /\ stack[t] = <<>> /\ stack' = [stack EXCEPT ![t] = <<NewCall(once_)>>]
      /\ doing[t] = "idle" /\ doing' = [doing EXCEPT ![t] = "init"]
      /\ raced' = IF ShuttingDown = {} THEN raced \ {t} ELSE raced \cup {t}
      /\ UNCHANGED <<instance_, made, dead, again, got, downs, state, returned>>
  BY DEF GetInstance, Call, Does, Begins
<1>2. /\ SingletonTypeOK /\ CallsMatch /\ MadeKnown /\ ReturnedKnown /\ PointerKnown
      /\ doing \in [Thread -> {"idle", "init", "read", "clear"}]
      /\ stack \in [Thread -> Seq(Frame)]
  BY DEF SingletonInv, SingletonTypeOK, OnceInv, TypeOK
<1>3. /\ doing'[t] = "init" /\ stack'[t] = <<NewCall(once_)>> /\ stack'[t] # <<>>
      /\ \A u \in Thread \ {t} : stack'[u] = stack[u] /\ doing'[u] = doing[u]
  BY <1>1, <1>2
<1>4. SingletonTypeOK'
  BY <1>1, <1>2 DEF SingletonTypeOK
<1>5. CallsMatch'
  <2>1. ASSUME NEW u \in Thread PROVE doing'[u] = "init" <=> stack'[u] # <<>>
    BY <1>2, <1>3 DEF CallsMatch
  <2>2. QED
    BY <2>1 DEF CallsMatch
<1>6. MadeKnown'
  <2>1. ASSUME NEW u \in Thread, NEW p \in {"store", "closure"}, At(u, p)' PROVE At(u, p)
    <3>1. ~At(t, p)'
      <4>1. Top(t)' = NewCall(once_)
        BY <1>3 DEF Top
      <4>2. QED
        BY <4>1 DEF At, NewCall
    <3>2. QED
      BY <1>3, <2>1, <3>1, FramesKept
  <2>2. QED
    BY <1>1, <1>2, <2>1 DEF MadeKnown
<1>7. ReturnedKnown'
  <2>1. \A u \in Thread : doing'[u] = "read" => doing[u] = "read"
    BY <1>3
  <2>2. QED
    BY <1>1, <1>2, <2>1 DEF ReturnedKnown
<1>8. PointerKnown'
  <2>1. \A u \in Thread : doing'[u] = "clear" <=> doing[u] = "clear"
    BY <1>1, <1>3
  <2>2. ShuttingDown' = ShuttingDown
    BY <2>1 DEF ShuttingDown
  <2>3. ASSUME NEW u \in Thread \ raced', doing'[u] \in {"init", "read"}
        PROVE  ShuttingDown = {}
    BY <1>1, <1>2, <1>3, <2>3 DEF PointerKnown
  <2>4. QED
    BY <1>1, <1>2, <2>2, <2>3 DEF PointerKnown
<1>9. QED
  BY <1>1, <1>4, <1>5, <1>6, <1>7, <1>8 DEF SingletonInv, GetsTheInstance

\* GetInstance returns what the pointer is.
LEMMA ReturnInstanceKeepsSingleton ==
  ASSUME SingletonAssumption, OnceInv, OnlyThisOnce, SingletonInv, NEW t \in Thread, ReturnInstance(t)
  PROVE  SingletonInv'
<1>1. /\ SingletonTypeOK /\ CallsMatch /\ MadeKnown /\ ReturnedKnown /\ PointerKnown
      /\ GetsTheInstance /\ ~again
      /\ doing \in [Thread -> {"idle", "init", "read", "clear"}]
      /\ got \in [Thread -> Got] /\ made \in {0, 1} /\ instance_ \in 0..made /\ downs \in Nat
  BY DEF SingletonInv, SingletonTypeOK
<1>2. doing[t] = "read" /\ once_ \in returned[t] /\ once_ \in seen[t] /\ made = 1
  BY <1>1 DEF ReturnInstance, ReturnedKnown, OnceInv, SeenInv
<1>3. /\ doing' = [doing EXCEPT ![t] = "idle"]
      /\ got' = [got EXCEPT ![t] = [object |-> instance_, deleted |-> instance_ \in dead,
                                    raced |-> t \in raced, late |-> downs > 0]]
      /\ UNCHANGED <<state, stack, returned, instance_, made, dead, again, raced, downs>>
  BY <1>2 DEF ReturnInstance, Does, vars
<1>4. /\ doing'[t] = "idle" /\ got' \in [Thread -> Got]
      /\ got'[t] = [object |-> instance_, deleted |-> instance_ \in dead,
                    raced |-> t \in raced, late |-> downs > 0]
      /\ \A u \in Thread \ {t} : doing'[u] = doing[u] /\ got'[u] = got[u]
  BY <1>1, <1>3 DEF Got
<1>5. SingletonTypeOK'
  BY <1>1, <1>3, <1>4 DEF SingletonTypeOK
<1>6. CallsMatch'
  <2>1. ASSUME NEW u \in Thread PROVE doing'[u] = "init" <=> stack'[u] # <<>>
    BY <1>1, <1>2, <1>3, <1>4 DEF CallsMatch
  <2>2. QED
    BY <2>1 DEF CallsMatch
<1>7. MadeKnown'
  BY <1>1, <1>3 DEF MadeKnown, At, Top
<1>8. ReturnedKnown'
  <2>1. \A u \in Thread : doing'[u] = "read" => doing[u] = "read"
    BY <1>4
  <2>2. QED
    BY <1>1, <1>3, <2>1 DEF ReturnedKnown
<1>9. PointerKnown'
  <2>1. \A u \in Thread : /\ doing'[u] = "clear" <=> doing[u] = "clear"
                          /\ doing'[u] \in {"init", "read"} => doing[u] \in {"init", "read"}
    BY <1>2, <1>4
  <2>2. ShuttingDown' = ShuttingDown
    BY <2>1 DEF ShuttingDown
  <2>3. QED
    BY <1>1, <1>3, <2>1, <2>2 DEF PointerKnown
<1>10. GetsTheInstance'
  <2>1. ASSUME NEW u \in Thread, got'[u] # Nothing, ~got'[u].raced
        PROVE  ~got'[u].deleted /\ (got'[u].late \/ got'[u].object = 1)
    <3>1. CASE u # t
      BY <1>1, <1>4, <2>1, <3>1 DEF GetsTheInstance
    <3>2. CASE u = t
      <4> DEFINE g == got'[t]
      <4>0. /\ g.object = instance_ /\ g.deleted = (instance_ \in dead)
            /\ g.raced = (t \in raced) /\ g.late = (downs > 0)
        <5>1. g.object = instance_
          BY <1>4
        <5>2. g.deleted = (instance_ \in dead)
          BY <1>4
        <5>3. g.raced = (t \in raced)
          BY <1>4
        <5>4. g.late = (downs > 0)
          BY <1>4
        <5>5. QED
          BY <5>1, <5>2, <5>3, <5>4
      <4>1. ShuttingDown = {}
        <5>1. t \notin raced
          BY <2>1, <3>2, <4>0, Zenon
        <5>2. QED
          BY <1>1, <1>2, <5>1 DEF PointerKnown
      <4>2. instance_ \notin dead
        BY <1>1, <4>1 DEF PointerKnown
      <4>3. downs > 0 \/ instance_ = 1
        BY <1>1, <1>2, <4>1 DEF PointerKnown
      <4>4. QED
        <5>1. ~g.deleted
          BY <4>0, <4>2, Zenon
        <5>2. g.late \/ g.object = 1
          BY <4>0, <4>3, Zenon
        <5>3. QED
          BY <3>2, <5>1, <5>2
    <3>3. QED
      BY <3>1, <3>2
  <2>2. QED
    BY <2>1 DEF GetsTheInstance
<1>11. QED
  BY <1>1, <1>3, <1>5, <1>6, <1>7, <1>8, <1>9, <1>10 DEF SingletonInv

\* ShutDown deletes the instance: from now on, calls of others know.
LEMMA ShutDownKeepsSingleton ==
  ASSUME SingletonAssumption, OnceInv, OnlyThisOnce, SingletonInv, NEW t \in Thread, ShutDown(t)
  PROVE  SingletonInv'
<1>1. /\ SingletonTypeOK /\ CallsMatch /\ MadeKnown /\ ReturnedKnown /\ PointerKnown
      /\ GetsTheInstance /\ ~again
      /\ doing \in [Thread -> {"idle", "init", "read", "clear"}]
      /\ instance_ \in 0..made /\ dead \subseteq 1..made /\ made \in {0, 1}
  BY DEF SingletonInv, SingletonTypeOK
<1>2. /\ doing[t] = "idle" /\ doing' = [doing EXCEPT ![t] = "clear"]
      /\ dead' = dead \cup ({instance_} \ {0})
      /\ again' = (again \/ (instance_ \in dead /\ ShuttingDown = {}))
      /\ raced' = LET others == {u \in Thread \ {t} : doing[u] # "idle"}
                  IN  (raced \ {t}) \cup others \cup (IF ShuttingDown = {} THEN {} ELSE {t})
      /\ UNCHANGED <<state, stack, returned, instance_, made, got, downs>>
  BY DEF ShutDown, Does, vars
<1>3. /\ doing'[t] = "clear"
      /\ \A u \in Thread \ {t} : doing'[u] = doing[u]
      /\ \A u \in Thread \ {t} : doing[u] # "idle" => u \in raced'
      /\ raced' \subseteq raced \cup Thread /\ t \in ShuttingDown'
  BY <1>1, <1>2 DEF ShuttingDown
<1>4. SingletonTypeOK'
  <2>1. dead' \subseteq 1..made
    BY <1>1, <1>2
  <2>2. doing' \in [Thread -> {"idle", "init", "read", "clear"}]
    BY <1>1, <1>2
  <2>3. QED
    BY <1>1, <1>2, <1>3, <2>1, <2>2 DEF SingletonTypeOK
<1>5. CallsMatch'
  <2>1. ASSUME NEW u \in Thread PROVE doing'[u] = "init" <=> stack'[u] # <<>>
    BY <1>1, <1>2, <1>3 DEF CallsMatch
  <2>2. QED
    BY <2>1 DEF CallsMatch
<1>6. MadeKnown'
  BY <1>1, <1>2 DEF MadeKnown, At, Top
<1>7. ReturnedKnown'
  <2>1. \A u \in Thread : doing'[u] = "read" => doing[u] = "read"
    BY <1>3
  <2>2. QED
    BY <1>1, <1>2, <2>1 DEF ReturnedKnown
<1>8. PointerKnown'
  <2>1. ASSUME NEW u \in Thread \ raced' PROVE doing'[u] \notin {"init", "read"}
    BY <1>3
  <2>2. QED
    BY <1>3, <2>1 DEF PointerKnown
<1>9. ~again'
  <2>1. instance_ \in dead => ShuttingDown # {}
    BY <1>1 DEF PointerKnown
  <2>2. QED
    BY <1>1, <1>2, <2>1
<1>10. QED
  BY <1>1, <1>2, <1>4, <1>5, <1>6, <1>7, <1>8, <1>9 DEF SingletonInv, GetsTheInstance

\* ... and clears the pointer.
LEMMA ClearKeepsSingleton ==
  ASSUME SingletonAssumption, OnceInv, OnlyThisOnce, SingletonInv, NEW t \in Thread, Clear(t)
  PROVE  SingletonInv'
<1>1. /\ SingletonTypeOK /\ CallsMatch /\ MadeKnown /\ ReturnedKnown /\ PointerKnown
      /\ GetsTheInstance /\ ~again
      /\ doing \in [Thread -> {"idle", "init", "read", "clear"}]
      /\ dead \subseteq 1..made /\ made \in {0, 1} /\ downs \in Nat
  BY DEF SingletonInv, SingletonTypeOK
<1>2. /\ doing[t] = "clear" /\ doing' = [doing EXCEPT ![t] = "idle"]
      /\ instance_' = 0 /\ downs' = downs + 1
      /\ UNCHANGED <<state, stack, returned, made, dead, again, got, raced>>
  BY DEF Clear, Does, vars
<1>3. doing'[t] = "idle" /\ \A u \in Thread \ {t} : doing'[u] = doing[u]
  BY <1>1, <1>2
<1>4. SingletonTypeOK'
  BY <1>1, <1>2 DEF SingletonTypeOK
<1>5. CallsMatch'
  <2>1. ASSUME NEW u \in Thread PROVE doing'[u] = "init" <=> stack'[u] # <<>>
    BY <1>1, <1>2, <1>3 DEF CallsMatch
  <2>2. QED
    BY <2>1 DEF CallsMatch
<1>6. MadeKnown'
  BY <1>1, <1>2 DEF MadeKnown, At, Top
<1>7. ReturnedKnown'
  <2>1. \A u \in Thread : doing'[u] = "read" => doing[u] = "read"
    BY <1>3
  <2>2. QED
    BY <1>1, <1>2, <2>1 DEF ReturnedKnown
<1>8. PointerKnown'
  <2>1. instance_' \notin dead' /\ downs' # 0
    BY <1>1, <1>2
  <2>2. ASSUME NEW u \in Thread \ raced, doing'[u] \in {"init", "read"}
        PROVE  ShuttingDown' = {}
    <3>1. doing[u] \in {"init", "read"}
      BY <1>3, <2>2
    <3>2. t \in ShuttingDown /\ ShuttingDown = {}
      BY <1>1, <1>2, <3>1 DEF PointerKnown, ShuttingDown
    <3>3. QED
      BY <3>2
  <2>3. QED
    BY <1>2, <2>1, <2>2 DEF PointerKnown
<1>9. QED
  BY <1>1, <1>2, <1>4, <1>5, <1>6, <1>7, <1>8 DEF SingletonInv, GetsTheInstance

-----------------------------------------------------------------------------
\* No thread is in a call of another once, nor in two.
LEMMA OnlyThisOnceKept ==
  ASSUME SingletonAssumption, OnceInv, OnlyThisOnce, [SingletonNext]_all
  PROVE  OnlyThisOnce'
<1> DEFINE Fine(s) == s # <<>> => Len(s) = 1 /\ s[Len(s)].once = once_
<1>1. TypeOK
  BY DEF OnceInv
<1>2. \A u \in Thread : Fine(stack[u])
  BY DEF OnlyThisOnce, Top
<1>3. ASSUME NEW t \in Thread, Fine(stack'[t]), \A u \in Thread \ {t} : stack'[u] = stack[u]
      PROVE  \A u \in Thread : Fine(stack'[u])
  BY <1>2, <1>3
<1>4. ASSUME NEW t \in Thread, stack[t] # <<>>, NEW p \in Place, Goto(t, p)
      PROVE  \A u \in Thread : Fine(stack'[u])
  <2>1. OthersKept(t) /\ Moved(stack[t], stack'[t], p)
    BY <1>1, <1>4, GotoFacts
  <2>2. Fine(stack'[t])
    BY <1>2, <1>4, <2>1 DEF Moved
  <2>3. QED
    BY <1>3, <2>1, <2>2 DEF OthersKept
<1>5. ASSUME NEW t \in Thread, stack[t] # <<>>, Return(t)
      PROVE  \A u \in Thread : Fine(stack'[u])
  <2>1. stack'[t] = <<>> /\ \A u \in Thread \ {t} : stack'[u] = stack[u]
    BY <1>5, Leaves
  <2>2. QED
    BY <1>3, <2>1
<1>6. ASSUME NEW t \in Thread, InOnce(t)
      PROVE  \A u \in Thread : Fine(stack'[u])
  <2>1. /\ stack[t] # <<>>
        /\ Return(t) \/ \E p \in Place : Goto(t, p)
    BY <1>6 DEF InOnce, FastLoad, FirstLoad, CompareAndSwap, Spin, StoreDone, LoadOrGoto,
                At, Place
  <2>2. QED
    BY <1>4, <1>5, <2>1
<1>7. ASSUME NEW t \in Thread, InitInstance(t)
      PROVE  \A u \in Thread : Fine(stack'[u])
  <2>1. stack[t] # <<>> /\ "store" \in Place /\ Goto(t, "store")
    BY <1>7 DEF InitInstance, ClosureEnds, At, Place
  <2>2. QED
    BY <1>4, <2>1
<1>8. ASSUME NEW t \in Thread, NEW s \in {<<>>, <<NewCall(once_)>>},
             stack' = [stack EXCEPT ![t] = s]
      PROVE  \A u \in Thread : Fine(stack'[u])
  <2>1. stack'[t] = s /\ \A u \in Thread \ {t} : stack'[u] = stack[u]
    BY <1>1, <1>8 DEF TypeOK
  <2>2. Fine(<<>>) /\ Fine(<<NewCall(once_)>>)
    BY DEF NewCall
  <2>3. QED
    BY <1>3, <2>1, <2>2
<1>9. ASSUME UNCHANGED all PROVE \A u \in Thread : Fine(stack'[u])
  BY <1>2, <1>9 DEF all, vars
<1>10. ASSUME NEW t \in Thread,
              ReturnInstance(t) \/ ShutDown(t) \/ Clear(t)
       PROVE  \A u \in Thread : Fine(stack'[u])
  BY <1>2, <1>10 DEF ReturnInstance, ShutDown, Clear, vars
<1>11. ASSUME NEW t \in Thread, GetInstance(t) \/ InitThrows(t)
       PROVE  \A u \in Thread : Fine(stack'[u])
  BY <1>8, <1>11 DEF GetInstance, Call, InitThrows, Throw
<1>12. \A u \in Thread : Fine(stack'[u])
  <2> HIDE DEF Fine
  <2> QED
    BY <1>6, <1>7, <1>9, <1>10, <1>11 DEF SingletonNext
<1>13. QED
  BY <1>12 DEF OnlyThisOnce, Top

-----------------------------------------------------------------------------
\* The invariant of Singleton is inductive, given that of its once.
LEMMA SingletonStep ==
  ASSUME SingletonAssumption, OnceInv, OnlyThisOnce, SingletonInv, [SingletonNext]_all
  PROVE  [Next]_vars /\ OnlyThisOnce' /\ SingletonInv'
<1>0. OnlyThisOnce'
  BY OnlyThisOnceKept
<1>1. CASE UNCHANGED all
  BY <1>0, <1>1 DEF all, singleton, vars, SingletonInv, SingletonTypeOK, CallsMatch, MadeKnown,
              ReturnedKnown, PointerKnown, GetsTheInstance, ShuttingDown, At, Top
<1>2. ASSUME NEW t \in Thread, GetInstance(t) PROVE [Next]_vars
  BY <1>2 DEF SingletonAssumption, GetInstance, Next
<1>3. ASSUME NEW t \in Thread, InOnce(t) PROVE [Next]_vars
  BY <1>3 DEF InOnce, Next, Step
<1>4. ASSUME NEW t \in Thread, InitInstance(t) PROVE [Next]_vars
  BY <1>4 DEF InitInstance, Next, Step
<1>5. ASSUME NEW t \in Thread, InitThrows(t) PROVE [Next]_vars
  BY <1>5 DEF InitThrows, Next
<1>6. ASSUME NEW t \in Thread, ReturnInstance(t) \/ ShutDown(t) \/ Clear(t)
      PROVE  [Next]_vars
  BY <1>6 DEF ReturnInstance, ShutDown, Clear
<1>7. CASE SingletonNext
  BY <1>0, <1>2, <1>3, <1>4, <1>5, <1>6, <1>7, GetInstanceKeepsSingleton, InOnceKeepsSingleton,
     InitInstanceKeepsSingleton, InitThrowsKeepsSingleton, ReturnInstanceKeepsSingleton,
     ShutDownKeepsSingleton, ClearKeepsSingleton DEF SingletonNext
<1>8. QED
  BY <1>1, <1>7

\* It holds at first.
LEMMA SingletonInitially ==
  ASSUME SingletonAssumption, SingletonInit
  PROVE  Init /\ OnlyThisOnce /\ SingletonInv
<1>1. once_ \in OnceId
  BY DEF SingletonAssumption
<1>2. Nothing \in Got
  BY DEF Nothing, Got
<1>3. QED
  BY <1>1, <1>2 DEF SingletonInit, Init, OnlyThisOnce, SingletonInv, SingletonTypeOK, CallsMatch, MadeKnown,
                    ReturnedKnown, PointerKnown, GetsTheInstance, ShuttingDown, At

\* The inductive invariant of Singleton, and of the once it uses, holds for every number
\* of threads and of calls of GetInstance and ShutDown.
THEOREM SingletonInvariantHolds ==
  ASSUME SingletonAssumption
  PROVE  SingletonSpec => [](OnceInv /\ OnlyThisOnce /\ SingletonInv)
<1>1. SingletonInit => OnceInv /\ OnlyThisOnce /\ SingletonInv
  BY SingletonInitially, OnceInvInit
<1>2. OnceInv /\ OnlyThisOnce /\ SingletonInv /\ [SingletonNext]_all
        => (OnceInv /\ OnlyThisOnce /\ SingletonInv)'
  BY SingletonStep, OnceInvStep
<1>3. QED
  BY <1>1, <1>2, PTL DEF SingletonSpec

\* GetInstance and ShutDown: one instance is made, whoever races, the pointer is to it or
\* null, and it is deleted once, unless two calls of ShutDown overlap; GetInstance returns
\* that instance before the first ShutDown, and never a deleted one unless a ShutDown
\* overlaps the call.
THEOREM SingletonOneInstance ==
  ASSUME SingletonAssumption
  PROVE  SingletonSpec => []OneInstance
<1>1. SingletonInv => OneInstance
  BY DEF SingletonInv, SingletonTypeOK, OneInstance
<1>2. QED
  BY <1>1, SingletonInvariantHolds, PTL

-----------------------------------------------------------------------------
\* CountDownLatch: its types and NoLostWakeup are inductive together.
LatchInv == LatchTypeOK /\ NoLostWakeup

\* The invariant holds at first ...
LEMMA LatchInvInit == LatchInit => LatchInv
  BY LatchAssumption DEF LatchInit, LatchInv, LatchTypeOK, NoLostWakeup

\* ... and every step keeps it.
LEMMA LatchInvStep == LatchInv /\ [LatchNext]_latchVars => LatchInv'
<1> SUFFICES ASSUME LatchInv, [LatchNext]_latchVars PROVE LatchInv'
  OBVIOUS
<1> USE LatchAssumption DEF LatchInv, LatchTypeOK, NoLostWakeup
<1>1. CASE UNCHANGED latchVars
  BY <1>1 DEF latchVars
<1>2. ASSUME NEW t \in Waiter, CallWait(t) PROVE LatchInv'
  BY <1>2 DEF CallWait, Outside
<1>3. ASSUME NEW t \in Waiter, Leave(t) PROVE LatchInv'
  BY <1>3 DEF Leave
<1>4. ASSUME NEW t \in Waiter, Sleep(t) PROVE LatchInv'
  BY <1>4 DEF Sleep
<1>5. ASSUME NEW t \in Waiter, SpuriousWakeup(t) PROVE LatchInv'
  BY <1>5 DEF SpuriousWakeup
<1>6. ASSUME NEW t \in Waiter, CountDown(t) PROVE LatchInv'
  BY <1>6 DEF CountDown, NotifyAll
<1>7. QED
  BY <1>1, <1>2, <1>3, <1>4, <1>5, <1>6 DEF LatchNext, Proceed

\* The counter never leaves 0..InitialCount (no uint32_t wraps, however often
\* CountDown is called), and no thread is in two places.
THEOREM LatchTypes == LatchSpec => []LatchTypeOK
<1>1. LatchInv => LatchTypeOK
  BY DEF LatchInv
<1>2. QED
  BY <1>1, LatchInvInit, LatchInvStep, PTL DEF LatchSpec

\* Once the counter is 0, nobody sleeps in Wait.
THEOREM LatchNoLostWakeup == LatchSpec => []NoLostWakeup
<1>1. LatchInv => NoLostWakeup
  BY DEF LatchInv
<1>2. QED
  BY <1>1, LatchInvInit, LatchInvStep, PTL DEF LatchSpec

\* Every step of the latch is a step of the gate or leaves it alone: testing,
\* sleeping and waking are invisible, a Wait returns only once the counter is 0,
\* and the counter never leaves 0 again.
LEMMA LatchStepsAreGateSteps == LatchInv /\ [LatchNext]_latchVars => [G!Next]_(G!vars)
<1> SUFFICES ASSUME LatchInv, [LatchNext]_latchVars PROVE [G!Next]_(G!vars)
  OBVIOUS
<1> USE DEF LatchInv, LatchTypeOK, NoLostWakeup, G!vars
<1>1. CASE UNCHANGED latchVars
  BY <1>1 DEF latchVars
<1>2. ASSUME NEW t \in Waiter, CallWait(t) PROVE G!Arrive(t)
  BY <1>2 DEF CallWait, Outside, G!Arrive
<1>3. ASSUME NEW t \in Waiter, Leave(t) PROVE G!Pass(t)
  BY <1>3 DEF Leave, G!Pass
<1>4. ASSUME NEW t \in Waiter, Sleep(t) PROVE UNCHANGED G!vars
  BY <1>4 DEF Sleep
<1>5. ASSUME NEW t \in Waiter, SpuriousWakeup(t) PROVE UNCHANGED G!vars
  BY <1>5 DEF SpuriousWakeup
<1>6. ASSUME NEW t \in Waiter, CountDown(t) PROVE G!Open \/ UNCHANGED G!vars
  BY <1>6 DEF CountDown, NotifyAll, G!Open
<1>7. QED
  BY <1>1, <1>2, <1>3, <1>4, <1>5, <1>6 DEF LatchNext, Proceed, G!Next

\* The latch implements the gate (its safety; that waiting threads do pass is
\* checked by TLC).
THEOREM LatchImplementsGate == LatchSpec => G!Spec
<1>1. LatchInit => G!Init
  BY DEF LatchInit, G!Init
<1>2. QED
  BY <1>1, LatchInvInit, LatchInvStep, LatchStepsAreGateSteps, PTL
     DEF LatchSpec, G!Spec
=============================================================================

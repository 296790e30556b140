------------------------------ MODULE ScopedFile -----------------------------
(***************************************************************************)
(* base::ScopedGeneric (src/base/scoped_generic.h) as it is used for file  *)
(* descriptors: ScopedFD (src/base/scoped_file.h, scoped_file.cc).         *)
(*                                                                         *)
(* Threads open files and hand the descriptors to scopers.  One thread at  *)
(* a time uses a scoper.  The kernel gives the number of a closed file to  *)
(* the next one that is opened, by whichever thread: a scoper that closes  *)
(* twice closes somebody else's file.                                      *)
(***************************************************************************)
EXTENDS Integers, FiniteSets

CONSTANTS Opener,   \* threads
          Scoper,
          Fd,       \* descriptors the process may have
          MaxFiles  \* bound: files opened altogether

ScopedFileAssumption == Fd \subseteq Nat /\ MaxFiles \in Nat

VARIABLES generic, \* data_.generic of each scoper that exists
          exists,  \* the scopers that exist
          file,    \* the kernel's: the file each descriptor is open on, 0 for none
          raw,     \* the descriptors that the program owns itself
          task,    \* the reset or destruction each thread is in
          opened,  \* files opened so far
          given,   \* history: the file each scoper was given, 0 for none
          lost,    \* history: files closed by a scoper they were not given to
          aborted  \* reset() of a scoper to what it has

scopedVars == <<generic, exists, file, raw, task, opened, given, lost, aborted>>
kernel == <<file, opened, lost>>

InvalidValue == -1
Destroyed == -2  \* what a scoper gets when it is destroyed
NoTask == [do |-> "idle"]
Valid(s) == generic[s] # InvalidValue
Busy == {t \in Opener : task[t] # NoTask}
Free(s) == s \notin {task[t].scoper : t \in Busy}  \* no thread is in it
Ready(t) == task[t] = NoTask /\ ~aborted

FileOf(v) == IF v = InvalidValue THEN 0 ELSE file[v]

\* s has v and is responsible for it.
Gets(s, v) == /\ generic' = [generic EXCEPT ![s] = v]
               /\ given' = [given EXCEPT ![s] = FileOf(v)]

-----------------------------------------------------------------------------
Open(t) == /\ Ready(t) /\ opened < MaxFiles
           /\ \E fd \in Fd : /\ file[fd] = 0 /\ \A lower \in Fd : lower < fd => file[lower] # 0
                             /\ file' = [file EXCEPT ![fd] = opened + 1]
                             /\ raw' = raw \cup {fd}
           /\ opened' = opened + 1
           /\ UNCHANGED <<generic, exists, task, given, lost, aborted>>

ConstructScoper(t, s) ==
    /\ Ready(t) /\ s \notin exists
    /\ exists' = exists \cup {s}
    /\ \E v \in raw \cup {InvalidValue} : Gets(s, v) /\ raw' = raw \ {v}
    /\ UNCHANGED <<kernel, task, aborted>>

\* Variant: rvalue keeps it.
MoveConstructScoperKeeping(t, s, o) ==
    /\ Ready(t) /\ s \notin exists /\ o \in exists /\ Free(o)
    /\ exists' = exists \cup {s}
    /\ Gets(s, generic[o])
    /\ UNCHANGED <<kernel, raw, task, aborted>>
\* data_(rvalue.release()).
MoveConstructScoper(t, s, o) ==
    /\ Ready(t) /\ s \notin exists /\ o \in exists /\ Free(o)
    /\ exists' = exists \cup {s}
    /\ generic' = [generic EXCEPT ![s] = generic[o], ![o] = InvalidValue]
    /\ given' = [given EXCEPT ![s] = given[o], ![o] = 0]
    /\ UNCHANGED <<kernel, raw, task, aborted>>

\* reset(v) of a scoper that has old: what it had is closed first, by FreeIfNecessary.
ResetFrom(t, s, old, v) ==
    IF old = InvalidValue THEN task' = task
    ELSE task' = [task EXCEPT ![t] = [do |-> "close", scoper |-> s, next |-> v, file |-> FileOf(v)]]

ResetScoper(t, s) ==
    /\ Ready(t) /\ s \in exists /\ Free(s)
    /\ \E v \in raw \cup {InvalidValue, generic[s]} :
         IF Valid(s) /\ v = generic[s]
         THEN aborted' = TRUE /\ UNCHANGED <<generic, given, task, raw>>
         ELSE /\ ResetFrom(t, s, generic[s], v)
              /\ IF Valid(s) THEN UNCHANGED <<generic, given>> ELSE Gets(s, v)
              /\ raw' = raw \ {v} /\ UNCHANGED aborted
    /\ UNCHANGED <<kernel, exists>>

\* s = std::move(o), that is s.reset(o.release()); s may be o.
MoveAssignScoper(t, s, o) ==
    LET old == IF s = o THEN InvalidValue ELSE generic[s]
    IN  /\ Ready(t) /\ {s, o} \subseteq exists /\ Free(s) /\ Free(o)
        /\ ResetFrom(t, s, old, generic[o])
        /\ IF old = InvalidValue
           THEN /\ generic' = [generic EXCEPT ![o] = InvalidValue, ![s] = generic[o]]
                /\ given' = [given EXCEPT ![o] = 0, ![s] = given[o]]
           ELSE /\ generic' = [generic EXCEPT ![o] = InvalidValue]
                /\ given' = [given EXCEPT ![o] = 0]
        /\ UNCHANGED <<kernel, exists, raw, aborted>>

SwapScopers(t, s, o) ==
    /\ Ready(t) /\ {s, o} \subseteq exists /\ Free(s) /\ Free(o)
    /\ generic' = [generic EXCEPT ![s] = generic[o], ![o] = generic[s]]
    /\ given' = [given EXCEPT ![s] = given[o], ![o] = given[s]]
    /\ UNCHANGED <<kernel, exists, raw, task, aborted>>

ReleaseScoper(t, s) ==
    /\ Ready(t) /\ s \in exists /\ Free(s) /\ Valid(s)
    /\ raw' = raw \cup {generic[s]}
    /\ Gets(s, InvalidValue)
    /\ UNCHANGED <<kernel, exists, task, aborted>>

\* The destructor; a scoper that has nothing is gone at once.
DestroyScoper(t, s) ==
    /\ Ready(t) /\ s \in exists /\ Free(s)
    /\ exists' = IF Valid(s) THEN exists ELSE exists \ {s}
    /\ task' = IF Valid(s)
               THEN [task EXCEPT ![t] = [do |-> "close", scoper |-> s, next |-> Destroyed, file |-> 0]]
               ELSE task
    /\ UNCHANGED <<kernel, generic, raw, given, aborted>>

\* close(fd) of a task: the file is lost if it is not the scoper's.
Closes(s) == LET fd == generic[s]
             IN  /\ file' = [file EXCEPT ![fd] = 0]
                 /\ lost' = IF file[fd] = given[s] THEN lost ELSE lost \cup {file[fd]}

\* Variant: a close that is interrupted is repeated.
CloseRetried(t) == /\ t \in Busy /\ task[t].do = "close" /\ Closes(task[t].scoper)
                   /\ \/ task' = [task EXCEPT ![t].do = "set"]
                      \/ UNCHANGED task  \* EINTR
                   /\ UNCHANGED <<generic, exists, raw, opened, given, aborted>>
\* One call, whatever it returns: an interrupted close has closed the file too.
Close(t) == /\ t \in Busy /\ task[t].do = "close" /\ Closes(task[t].scoper)
            /\ task' = [task EXCEPT ![t].do = "set"]
            /\ UNCHANGED <<generic, exists, raw, opened, given, aborted>>

\* Variant: nothing is assigned when there is no new value.
SetValueStale(t) ==
    /\ t \in Busy /\ task[t].do = "set"
    /\ task' = [task EXCEPT ![t] = NoTask]
    /\ LET s == task[t].scoper
           gone == task[t].next = Destroyed
       IN  /\ generic' = [generic EXCEPT ![s] = IF gone THEN @ ELSE task[t].next]
           /\ given' = [given EXCEPT ![s] = task[t].file]
           /\ exists' = IF gone THEN exists \ {s} ELSE exists
    /\ UNCHANGED <<kernel, raw, aborted>>
\* The new value, after the close.
SetValue(t) ==
    /\ t \in Busy /\ task[t].do = "set"
    /\ task' = [task EXCEPT ![t] = NoTask]
    /\ LET s == task[t].scoper
           gone == task[t].next = Destroyed
       IN  /\ generic' = [generic EXCEPT ![s] = IF gone THEN InvalidValue ELSE task[t].next]
           /\ given' = [given EXCEPT ![s] = task[t].file]
           /\ exists' = IF gone THEN exists \ {s} ELSE exists
    /\ UNCHANGED <<kernel, raw, aborted>>

-----------------------------------------------------------------------------
ScopedInit ==
    /\ generic = [s \in Scoper |-> InvalidValue] /\ exists = {}
    /\ file = [fd \in Fd |-> 0] /\ raw = {} /\ opened = 0
    /\ task = [t \in Opener |-> NoTask]
    /\ given = [s \in Scoper |-> 0] /\ lost = {} /\ aborted = FALSE

ScopedNext ==
    \E t \in Opener :
      \/ Open(t) \/ Close(t) \/ SetValue(t)
      \/ \E s \in Scoper :
           \/ ConstructScoper(t, s) \/ ResetScoper(t, s)
           \/ ReleaseScoper(t, s) \/ DestroyScoper(t, s)
           \/ \E o \in Scoper : \/ MoveConstructScoper(t, s, o) \/ MoveAssignScoper(t, s, o)
                                \/ SwapScopers(t, s, o)

ScopedSpec == ScopedInit /\ [][ScopedNext]_scopedVars

-----------------------------------------------------------------------------
\* A reset: the scoper, what it gets, and the file that this is open on.
ResetTask == [do : {"close", "set"}, scoper : Scoper, file : 0..MaxFiles,
              next : Fd \cup {InvalidValue, Destroyed}]

ScopedTypeOK ==
    /\ generic \in [Scoper -> Fd \cup {InvalidValue}] /\ exists \subseteq Scoper
    /\ file \in [Fd -> 0..MaxFiles] /\ raw \subseteq Fd /\ opened \in 0..MaxFiles
    /\ given \in [Scoper -> 0..MaxFiles] /\ aborted \in BOOLEAN
    /\ task \in [Opener -> ResetTask \cup {NoTask}]
    /\ \A s \in Scoper \ exists : ~Valid(s)

\* A scoper only ever closes the file that it was given, whoever opens files meanwhile.
ClosesItsOwn == lost = {}

\* The valid scopers that no thread is in the middle of.
Settled == {s \in exists : Free(s) /\ Valid(s)}

\* Every open file has one owner: a scoper, the program itself, or the reset it was handed
\* to and that has yet to store it or, as the old one, to close it.
OneOwnerEach ==
    \A fd \in Fd :
      LET holders == {s \in Settled : generic[s] = fd}
          busy == {t \in Busy : \/ /\ task[t].do = "close" /\ generic[task[t].scoper] = fd
                                   /\ file[fd] = given[task[t].scoper]
                            \/ task[t].next = fd}
      IN  Cardinality(holders) + Cardinality(busy) + (IF fd \in raw THEN 1 ELSE 0)
            = (IF file[fd] = 0 THEN 0 ELSE 1)

ScopersAreSafe == ClosesItsOwn /\ OneOwnerEach

-----------------------------------------------------------------------------
(* Why: an open file is in one hand, and each step passes it from one hand  *)
(* to another.  The hands are the scopers, until they have closed what they *)
(* have, and the resets, for what their scoper will have.                   *)

Hand == (Scoper \X {"scoper"}) \cup (Opener \X {"opener"})
Closed(s) == \E t \in Busy : task[t].do = "set" /\ task[t].scoper = s
HandHolds == [h \in Hand |-> IF h[2] = "scoper"
                             THEN IF Closed(h[1]) THEN InvalidValue ELSE generic[h[1]]
                             ELSE IF h[1] \in Busy /\ task[h[1]].next # Destroyed
                                  THEN task[h[1]].next ELSE InvalidValue]
\* The file that was open on what the hand holds when it got it.
HandGot == [h \in Hand |-> IF h[2] = "scoper" THEN given[h[1]]
                           ELSE IF h[1] \in Busy THEN task[h[1]].file ELSE 0]

\* holds: what each hand has; got: the file it was when the hand got it.
InOneHand(holds, got, files, free) ==
    /\ \A h \in Hand : holds[h] # InvalidValue =>
         /\ files[holds[h]] = got[h] /\ got[h] # 0
         /\ holds[h] \notin free
         /\ \A k \in Hand : holds[k] = holds[h] => k = h
    /\ \A fd \in free : files[fd] # 0
    /\ \A fd \in Fd : files[fd] # 0 => fd \in free \/ \E h \in Hand : holds[h] = fd

\* The inductive invariant: a scoper that is being reset has a file, and one thread in it.
ScopedInv ==
    /\ ScopedTypeOK
    /\ \A t \in Busy : task[t].scoper \in exists /\ Valid(task[t].scoper)
    /\ \A t, u \in Busy : task[t].scoper = task[u].scoper => t = u
    /\ InOneHand(HandHolds, HandGot, file, raw)
    /\ ClosesItsOwn
=============================================================================

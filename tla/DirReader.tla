------------------------------ MODULE DirReader ------------------------------
(***************************************************************************)
(* base::DirReader (src/base/dir_reader.h): a cursor over the records that *)
(* getdents64 puts into buf_, some at a time, while other processes change *)
(* the directory.  buf_ is the sequence of the names in it; offset_ and    *)
(* size_ count bytes.                                                      *)
(*                                                                         *)
(* The application stops when Next returns false: after the end Next would *)
(* take what lies behind the last record for one.                          *)
(***************************************************************************)
EXTENDS Naturals, SequencesExt, FiniteSets

CONSTANTS Name,       \* names of entries
          RecLen,     \* d_reclen of each
          BufSize     \* sizeof(buf_)

DirReaderAssumption == /\ RecLen \in [Name -> Nat \ {0}] /\ BufSize \in Nat
                              /\ \A n \in Name : RecLen[n] <= BufSize

VARIABLES fd_, buf_, offset_, size_,
          result,   \* of the last Next; "none" before, and "closed" after ~DirReader
          dir,      \* the names in the directory
          rest,     \* those the kernel has yet to return, in its order
          unborn,   \* names that were never in the directory: no name comes back
          stayed,   \* history: the names that were there all the time
          seen,     \* history: the names read at each Next that returned true
          failed    \* history: a call of getdents64 failed

vars == <<fd_, buf_, offset_, size_, result, dir, rest, unborn, stayed, seen, failed>>
world == <<dir, rest, unborn, stayed>>

Bytes(s) == FoldLeft(LAMBDA sum, n : sum + RecLen[n], 0, s)

\* name(): the name of the record that begins at an offset of the buffer.
RecordsAt(o) == {i \in DOMAIN buf_ : Bytes(SubSeq(buf_, 1, i - 1)) = o}
NameAt(o) == IF RecordsAt(o) = {} THEN "garbage" ELSE buf_[CHOOSE i \in RecordsAt(o) : TRUE]

\* The application reads the name.
Reads == seen' = Append(seen, NameAt(offset_)')

-----------------------------------------------------------------------------
\* The constructor; open may fail.
Init ==
    /\ dir \in SUBSET Name /\ rest \in SetToSeqs(dir)
    /\ unborn = Name \ dir /\ stayed = dir
    /\ fd_ \in {"open", "invalid"} /\ buf_ = <<>> /\ offset_ = 0 /\ size_ = 0
    /\ result = "none" /\ seen = <<>> /\ failed = FALSE

\* getdents64 returns n records, none at the end, or fails.
GetDents(n, error) ==
    IF fd_ = "invalid" THEN error /\ n = 0
    ELSE /\ n \in 0..Len(rest) /\ (n > 0 => Bytes(SubSeq(rest, 1, n)) <= BufSize /\ ~error)
         /\ n = 0 => error \/ rest = <<>>

\* The offset after the current record, if there is one.
Advanced == IF size_ # 0 THEN offset_ + RecLen[NameAt(offset_)] ELSE offset_

\* Variant: the offset keeps its value when the buffer is filled again.
RefillAfter(n) ==
    /\ buf_' = SubSeq(rest, 1, n) /\ rest' = SubSeq(rest, n + 1, Len(rest))
    /\ size_' = Bytes(buf_') /\ offset_' = Advanced
\* Variant: the first record of a new buffer is stepped over.
RefillSecond(n) ==
    /\ buf_' = SubSeq(rest, 1, n) /\ rest' = SubSeq(rest, n + 1, Len(rest))
    /\ size_' = Bytes(buf_') /\ offset_' = IF n > 1 THEN RecLen[rest[1]] ELSE 0
Refill(n) ==
    /\ buf_' = SubSeq(rest, 1, n) /\ rest' = SubSeq(rest, n + 1, Len(rest))
    /\ size_' = Bytes(buf_') /\ offset_' = 0

\* Next, with a record left in the buffer.
\* Variant: the record is not stepped over.
NextInBufferStays ==
    /\ result \in {"none", "true"} /\ Advanced # size_
    /\ offset_' = offset_ /\ result' = "true"
    /\ UNCHANGED <<fd_, buf_, size_, rest, failed>> /\ Reads
NextInBuffer ==
    /\ result \in {"none", "true"} /\ Advanced # size_
    /\ offset_' = Advanced /\ result' = "true"
    /\ UNCHANGED <<fd_, buf_, size_, rest, failed>> /\ Reads

\* Next, with a call of getdents64.
NextRead ==
    \E n \in 0..Len(rest), error \in BOOLEAN :
       /\ result \in {"none", "true"} /\ Advanced = size_ /\ GetDents(n, error)
       /\ IF n = 0
            THEN /\ offset_' = Advanced /\ result' = "false"
                 /\ failed' = error /\ UNCHANGED <<buf_, size_, rest, seen>>
            ELSE /\ Refill(n) /\ result' = "true"
                 /\ UNCHANGED failed /\ Reads
       /\ UNCHANGED fd_

Next == /\ NextInBuffer \/ NextRead
        /\ UNCHANGED <<dir, unborn, stayed>>

Destruct == /\ result # "closed" /\ result' = "closed"
            /\ fd_' = "invalid"
            /\ UNCHANGED <<buf_, offset_, size_, world, seen, failed>>

\* Other processes.  The kernel may return a name that is gone, and need not return one
\* that is new.
Unlink == \E n \in dir :
    /\ dir' = dir \ {n} /\ stayed' = stayed \ {n}
    /\ rest' \in {rest, SelectSeq(rest, LAMBDA m : m # n)}
    /\ UNCHANGED <<fd_, buf_, offset_, size_, result, unborn, seen, failed>>
Create == \E n \in unborn :
    /\ dir' = dir \cup {n} /\ unborn' = unborn \ {n}
    /\ rest' \in {rest} \cup (IF fd_ = "open" THEN {Append(rest, n)} ELSE {})
    /\ UNCHANGED <<fd_, buf_, offset_, size_, result, stayed, seen, failed>>

Step == Next \/ Destruct \/ (result # "closed" /\ (Unlink \/ Create))

Spec == Init /\ [][Step]_vars

-----------------------------------------------------------------------------
\* After a Next that returned true, name() reads a record, and a whole one, of those that
\* the last call of getdents64 has put into the buffer.
NameIsARecord ==
    result = "true" =>
      RecordsAt(offset_) # {} /\ offset_ + RecLen[NameAt(offset_)] <= size_

\* No entry is read twice, over all fillings of the buffer.
EachOnce == \A i, j \in DOMAIN seen : seen[i] = seen[j] => i = j

\* When Next has returned false and no call failed, every entry that was in the directory
\* all the time has been read, whatever came and went beside it.
AllRead == result = "false" /\ ~failed => \A n \in stayed : Contains(seen, n)
=============================================================================

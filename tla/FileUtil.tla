------------------------------- MODULE FileUtil -----------------------------
(***************************************************************************)
(* The functions of base/file_util.cc that read, write, copy and compare   *)
(* whole files.                                                            *)
(*                                                                         *)
(* Each process is in at most one function; a system call, or a call of a  *)
(* File or of stdio, is one step, so the functions of two processes on the *)
(* same files are interleaved in every way (the loops inside File::Read    *)
(* and File::Write are those of module File).  A file is the sequence of   *)
(* its bytes, or Absent.  The system may do a part of what it is asked,    *)
(* and may fail (MaxFaults times).  FILE_PATHs are names: a path that      *)
(* refers to a parent, which ReadFileToString refuses, is not used.        *)
(***************************************************************************)
EXTENDS Naturals, Sequences, SequencesExt, FiniteSetsExt

CONSTANTS Procs, Names,
          Calls,          \* the functions the processes call
          Size,                \* how much WriteFile and AppendToFile are given
          Chunk,               \* the buffers: kBufferSize, BUFFER_SIZE
          Limits,              \* max_size of the reading functions
          Absent,              \* no file
          MaxFaults, MaxLength \* bounds: failing calls, bytes the disk has for a file

FileUtilAssumption ==
    /\ Size \in Nat /\ Chunk \in Nat \ {0} /\ Limits \subseteq Nat
    /\ MaxFaults \in Nat /\ MaxLength \in Nat

VARIABLES content, \* name -> bytes
          call,    \* process -> the function it is in, or what its last one did
          faults   \* failing calls so far

vars == <<content, call, faults>>

-----------------------------------------------------------------------------
\* A call: from and to are the files, pos and wpos the positions in them, buf
\* what was read and is not yet written, out the string read; rv is the
\* result.  Histories: was, what the files were at the beginning; disturbed,
\* someone else changed one of them; failed, a system call failed.
Started(op, from, to, limit) ==
    [op |-> op, pc |-> "open", from |-> from, to |-> to, limit |-> limit, pos |-> 0, wpos |-> 0,
     buf |-> <<>>, out |-> <<>>, rv |-> FALSE, was |-> IF op = "AppendToFile" THEN content[to] ELSE Absent,
     disturbed |-> FALSE, failed |-> FALSE]
NoCall == [op |-> "none", pc |-> "idle", from |-> Absent, to |-> Absent, disturbed |-> FALSE, failed |-> FALSE, rv |-> FALSE]

Idle(p)    == call[p].pc = "idle"
Data(p)    == [i \in 1..Size |-> <<p, i>>]
Bytes(n)   == IF content[n] = Absent THEN <<>> ELSE content[n]
Fault      == faults < MaxFaults /\ faults' = faults + 1
From(s, i) == SubSeq(s, i + 1, Len(s))

\* p goes on with c; if file n changes, who else uses it is disturbed.
GoOn(p, c) == call' = [call EXCEPT ![p] = c] /\ UNCHANGED content
Change(p, c, n, bytes) ==
    /\ Len(bytes) <= MaxLength
    /\ content' = [content EXCEPT ![n] = bytes]
    /\ call' = [q \in Procs |-> IF q = p THEN c
                                ELSE [call[q] EXCEPT !.disturbed = @ \/ n \in {call[q].from, call[q].to}]]
\* A system call of p fails: by chance, or because the disk is full.
NoSpace(p) ==
    LET c == call[p] IN
    /\ c.pc = "write" /\ c.buf # <<>>
    /\ (IF c.op = "AppendToFile" THEN Len(Bytes(c.to)) ELSE c.wpos) >= MaxLength
Failure(p) == Fault \/ (NoSpace(p) /\ UNCHANGED faults)
Return(c, rv) == [c EXCEPT !.pc = "idle", !.rv = rv, !.pos = 0, !.wpos = 0, !.buf = <<>>]
Fails(p, rv) == Failure(p) /\ GoOn(p, Return([call[p] EXCEPT !.failed = TRUE], rv))

\* s written over what bytes has from position at.
Over(bytes, at, s) ==
    [i \in 1..Max({Len(bytes), at + Len(s)}) |->
        IF i > at /\ i <= at + Len(s) THEN s[i - at] ELSE IF i <= Len(bytes) THEN bytes[i] ELSE <<Absent, 0>>]

-----------------------------------------------------------------------------
Start(p) ==
    /\ Idle(p) /\ UNCHANGED faults
    /\ \E op \in Calls, from \in Names, to \in Names, limit \in Limits :
          /\ op \in {"CopyFile", "ContentsEqual"} \/ from = to
          /\ op = "ReadFileToString" \/ limit = CHOOSE n \in Limits : TRUE
          /\ GoOn(p, Started(op, from, to, limit))

-----------------------------------------------------------------------------
\* CopyFile.  A file copied to itself is truncated before it is read.
CopyOpen(p) ==
    LET c == call[p] IN
    /\ c.op = "CopyFile"
    /\ \/ /\ c.pc = "open" /\ UNCHANGED faults
          /\ GoOn(p, IF content[c.from] = Absent THEN Return(c, FALSE) ELSE [c EXCEPT !.pc = "create"])
       \/ /\ c.pc = "create" /\ UNCHANGED faults
          /\ Change(p, [c EXCEPT !.pc = "read"], c.to, <<>>)
       \/ c.pc \in {"open", "create"} /\ Fails(p, FALSE)

\* Variant: the end of the source goes unnoticed.
CopyReadEndless(p) ==
    LET c    == call[p]
        left == From(Bytes(c.from), c.pos)
        got  == SubSeq(left, 1, Min({Chunk, Len(left)})) IN
    /\ c.op = "CopyFile" /\ c.pc = "read" /\ UNCHANGED faults
    /\ GoOn(p, [c EXCEPT !.pc = IF got = <<>> THEN "read" ELSE "write", !.pos = @ + Len(got), !.buf = got])
CopyRead(p) ==
    LET c    == call[p]
        left == From(Bytes(c.from), c.pos)
        got  == SubSeq(left, 1, Min({Chunk, Len(left)})) IN
    /\ c.op = "CopyFile" /\ c.pc = "read"
    /\ \/ /\ UNCHANGED faults
          /\ GoOn(p, IF got = <<>> THEN Return(c, TRUE)
                     ELSE [c EXCEPT !.pc = "write", !.pos = @ + Len(got), !.buf = got])
       \/ Fails(p, FALSE)

\* The inner loop: bytes_written_per_read advances until the buffer is out.
\* Variant: one write is thought to write it all.
CopyWriteOnce(p) ==
    LET c == call[p] IN
    /\ c.op = "CopyFile" /\ c.pc = "write" /\ UNCHANGED faults
    /\ \E n \in 1..Len(c.buf) :
          Change(p, [c EXCEPT !.pc = "read", !.wpos = @ + n, !.buf = <<>>], c.to,
                 Over(Bytes(c.to), c.wpos, SubSeq(c.buf, 1, n)))
CopyWrite(p) ==
    LET c == call[p] IN
    /\ c.op = "CopyFile" /\ c.pc = "write"
    /\ \/ /\ UNCHANGED faults
          /\ \E n \in 1..Len(c.buf) :
                Change(p, [c EXCEPT !.pc = IF n = Len(c.buf) THEN "read" ELSE "write",
                                    !.wpos = @ + n, !.buf = From(@, n)],
                       c.to, Over(Bytes(c.to), c.wpos, SubSeq(c.buf, 1, n)))
       \/ Fails(p, FALSE)

-----------------------------------------------------------------------------
\* WriteFile creates or truncates, AppendToFile wants a file that is there.
WriteOpen(p) ==
    LET c == call[p] IN
    /\ c.op \in {"WriteFile", "AppendToFile"} /\ c.pc = "open"
    /\ \/ /\ c.op = "WriteFile" /\ UNCHANGED faults
          /\ Change(p, [c EXCEPT !.pc = "write", !.buf = Data(p)], c.to, <<>>)
       \/ /\ c.op = "AppendToFile" /\ UNCHANGED faults
          /\ GoOn(p, IF content[c.to] = Absent THEN Return(c, FALSE)
                     ELSE [c EXCEPT !.pc = "write", !.buf = Data(p)])
       \/ Fails(p, FALSE)

\* WriteFileDecriptor.  (A write that returned 0 for a buffer that is not
\* empty would make it turn for ever; write(2) on a file does not.)
\* Variants: every write continues at the beginning of the data; a failed
\* write ends the loop like the last one.
AfterFailureTrue == TRUE
AfterFailure == FALSE
RestFromStart(c, n) == SubSeq(c.buf, 1, Len(c.buf) - n)
Rest(c, n) == From(c.buf, n)
WriteTurn(p) ==
    LET c == call[p] IN
    /\ c.op \in {"WriteFile", "AppendToFile"} /\ c.pc = "write"
    /\ \/ /\ c.buf = <<>> /\ UNCHANGED faults
          /\ GoOn(p, [c EXCEPT !.pc = "close", !.rv = TRUE])
       \/ /\ c.buf # <<>> /\ UNCHANGED faults
          /\ \E n \in 1..Len(c.buf) :
                LET s == Bytes(c.to) IN
                Change(p, [c EXCEPT !.wpos = @ + n, !.buf = Rest(c, n)], c.to,
                       Over(s, IF c.op = "AppendToFile" THEN Len(s) ELSE c.wpos, SubSeq(c.buf, 1, n)))
       \/ /\ c.buf # <<>> /\ Failure(p)
          /\ GoOn(p, [c EXCEPT !.pc = "close", !.rv = AfterFailure, !.failed = TRUE])

\* close(2) may report a failure; the result is then -1, or false.
WriteClose(p) ==
    LET c == call[p] IN
    /\ c.op \in {"WriteFile", "AppendToFile"} /\ c.pc = "close"
    /\ \/ GoOn(p, Return(c, c.rv)) /\ UNCHANGED faults
       \/ Fails(p, FALSE)

-----------------------------------------------------------------------------
\* ReadFile: one read, of as much as the system likes.
ReadFile(p) ==
    LET c == call[p]
        s == Bytes(c.from) IN
    /\ c.op = "ReadFile"
    /\ \/ /\ c.pc = "open" /\ UNCHANGED faults
          /\ GoOn(p, IF content[c.from] = Absent THEN Return(c, FALSE) ELSE [c EXCEPT !.pc = "read"])
       \/ /\ c.pc = "read" /\ UNCHANGED faults
          /\ \E n \in IF s = <<>> \/ c.limit = 0 THEN {0} ELSE 1..Min({Len(s), c.limit}) :
                GoOn(p, [c EXCEPT !.pc = "close", !.out = SubSeq(s, 1, n)])
       \/ c.pc = "close" /\ UNCHANGED faults /\ GoOn(p, Return(c, TRUE))
       \/ c.pc \in {"open", "read", "close"} /\ Fails(p, FALSE)

\* ReadFileToStringWithMaxSize: buffers are appended until the file or
\* max_size is out.  What a failing fread has already read is appended too.
\* Variant: a buffer that just fills max_size is taken for too long.
KeptStrict(c, got) ==
    IF Len(c.out) + Len(got) >= c.limit
    THEN Return([c EXCEPT !.out = @ \o SubSeq(got, 1, Min({Len(got), c.limit - Len(c.out)}))], FALSE)
    ELSE [c EXCEPT !.out = @ \o got, !.pos = @ + Len(got)]
Kept(c, got) ==
    IF Len(c.out) + Len(got) > c.limit
    THEN Return([c EXCEPT !.out = @ \o SubSeq(got, 1, c.limit - Len(@))], FALSE)
    ELSE [c EXCEPT !.out = @ \o got, !.pos = @ + Len(got)]
ReadFileToString(p) ==
    LET c    == call[p]
        left == From(Bytes(c.from), c.pos)
        got  == SubSeq(left, 1, Min({Chunk, Len(left)})) IN
    /\ c.op = "ReadFileToString"
    /\ \/ /\ c.pc = "open" /\ UNCHANGED faults
          /\ GoOn(p, IF content[c.from] = Absent THEN Return(c, FALSE) ELSE [c EXCEPT !.pc = "read"])
       \/ /\ c.pc = "read" /\ UNCHANGED faults
          /\ GoOn(p, IF got = <<>> THEN Return(c, TRUE) ELSE Kept(c, got))
       \/ /\ c.pc = "read" /\ Fault
          /\ \E n \in 0..Len(got) :
                GoOn(p, Return([Kept(c, SubSeq(got, 1, n)) EXCEPT !.failed = TRUE], FALSE))
       \/ c.pc = "open" /\ Fails(p, FALSE)

\* ContentsEqual: a buffer from the one file, a buffer from the other, and
\* compare.  A stream that has failed delivers nothing and never its end.
\* (Two such streams, such as those of two directories, are compared for ever:
\* see MaxFaults.)
\* Variant: only the counts are compared.
DifferInLength(s, t) == Len(s) # Len(t)
Differ(s, t) == s # t
ContentsEqual(p) ==
    LET c == call[p]
        Piece(n, at) == LET s == From(Bytes(n), at) IN SubSeq(s, 1, Min({Chunk, Len(s)}))
        other == Piece(c.to, c.wpos)
    IN
    /\ c.op = "ContentsEqual"
    /\ \/ /\ c.pc = "open" /\ UNCHANGED faults
          /\ GoOn(p, IF content[c.from] = Absent \/ content[c.to] = Absent THEN Return(c, FALSE)
                     ELSE [c EXCEPT !.pc = "first"])
       \/ /\ c.pc = "first" /\ UNCHANGED faults
          /\ GoOn(p, [c EXCEPT !.pc = "second", !.buf = Piece(c.from, c.pos), !.pos = @ + Len(Piece(c.from, c.pos))])
       \/ /\ c.pc = "second" /\ UNCHANGED faults
          /\ GoOn(p, IF Differ(c.buf, other) THEN Return(c, FALSE)
                     ELSE IF Len(c.buf) < Chunk THEN Return(c, TRUE)
                     ELSE [c EXCEPT !.pc = "first", !.wpos = @ + Len(other)])
       \/ c.pc \in {"first", "second"} /\ Fails(p, FALSE)

-----------------------------------------------------------------------------
Init ==
    /\ content \in [Names -> {Absent, <<>>}]
    /\ call = [p \in Procs |-> NoCall] /\ faults = 0

Work(p) == \/ CopyOpen(p) \/ CopyRead(p) \/ CopyWrite(p)
           \/ WriteOpen(p) \/ WriteTurn(p) \/ WriteClose(p)
           \/ ReadFile(p) \/ ReadFileToString(p) \/ ContentsEqual(p)

Next == \E p \in Procs : Start(p) \/ Work(p)

Spec == Init /\ [][Next]_vars

\* A process that has called a function goes on with it.
FairSpec == Spec /\ \A p \in Procs : WF_vars(Work(p))

-----------------------------------------------------------------------------
Calm(p, op) == call[p].op = op /\ Idle(p) /\ ~call[p].disturbed

TypeOK ==
    /\ \A n \in Names : content[n] # Absent => Len(content[n]) <= MaxLength
    /\ \A p \in Procs : ~Idle(p) => call[p].pc \in {"open", "create", "read", "write", "close", "first", "second"}
    /\ \A p \in Procs : call[p].rv = TRUE => ~call[p].failed

\* CopyFile says true only of a complete copy, whatever parts the system wrote
\* it in: if nobody else changed the files, they are the same.
CopyIsFaithful ==
    \A p \in Procs : Calm(p, "CopyFile") /\ call[p].rv = TRUE /\ call[p].from # call[p].to
                     => content[call[p].to] = content[call[p].from]

\* WriteFile's success means that the file is the data, AppendToFile's that it
\* is what it was with the data behind it.
WritesAreComplete ==
    \A p \in Procs :
       /\ Calm(p, "WriteFile") /\ call[p].rv = TRUE => content[call[p].to] = Data(p)
       /\ Calm(p, "AppendToFile") /\ call[p].rv = TRUE => content[call[p].to] = call[p].was \o Data(p)

\* While all that write to a file append to it (a run where Calls has no
\* WriteFile and no CopyFile), the bytes of every call that said true are in
\* it, in their order, however the pieces of several calls are interleaved.
AppendsKeepOrder ==
    \A p \in Procs :
       call[p].op = "AppendToFile" /\ call[p].rv = TRUE => SelectSeq(From(content[call[p].to], Len(call[p].was)), LAMBDA b : b[1] = p) = Data(p)

\* ReadFileToStringWithMaxSize gives the whole file and true, or its first
\* max_size bytes and false if it is longer; ReadFile gives a beginning of it.
ReadsAreTrue ==
    \A p \in Procs :
       LET c == call[p]
           s == Bytes(c.from) IN
       /\ Calm(p, "ReadFileToString") /\ ~c.failed /\ content[c.from] # Absent =>
            /\ c.rv = (Len(s) <= c.limit)
            /\ c.out = SubSeq(s, 1, Min({Len(s), c.limit}))
       /\ Calm(p, "ReadFile") /\ c.rv = TRUE => IsPrefix(c.out, s) /\ Len(c.out) <= c.limit

\* ContentsEqual decides equality of files that nobody changes.
ComparesTruly ==
    \A p \in Procs :
       LET c == call[p] IN
       Calm(p, "ContentsEqual") /\ ~c.failed
       => c.rv = (content[c.from] # Absent /\ content[c.from] = content[c.to])

\* Every function returns, also when others grow or truncate its files.
CallsReturn == \A p \in Procs : ~Idle(p) ~> Idle(p)
=============================================================================

--------------------------------- MODULE File -------------------------------
(***************************************************************************)
(* base::File (base/file.h, file.cc): processes open, read, write, lock,   *)
(* duplicate, move and close files of one file system.                     *)
(*                                                                         *)
(* A system call is one step; a process is in at most one File function,   *)
(* and the functions that make several calls (the second open of           *)
(* OPEN_ALWAYS, the loops of Read and Write) are interleaved with those of *)
(* the other processes.  A byte is the name of the process that wrote it,  *)
(* a directory is a map from names to inodes.  The file system may do less *)
(* than it was asked for and may fail (MaxFaults times); it is as POSIX    *)
(* has it: dup shares the position, closing any descriptor of a file drops *)
(* the locks its process has on that file.  A call that a signal           *)
(* interrupts is one that fails: nothing defines OS_POSIX, so HANDLE_EINTR *)
(* (base/eintr_wrapper.h:62) repeats nothing.                              *)
(***************************************************************************)
EXTENDS Naturals, Integers, Sequences, FiniteSets, FiniteSetsExt, Functions

CONSTANTS Procs, Names, Inodes,
          Objects, Fds,              \* File objects and descriptors of each process
          Modes,                     \* the ways files are opened, see Flags
          Uses,                      \* which functions are called, of "lock", "move", "unlink"
          Sizes, Offsets,            \* sizes and offsets of reads and writes
          None,                      \* no inode, no descriptor, no offset
          MaxFaults, MaxCalls, MaxLength  \* bounds: failing calls, reads and writes, bytes in a file

\* Descs: a description is named by the process that opened it and a number.
Descs == Procs \X Fds

FileAssumption ==
    /\ MaxFaults \in Nat /\ MaxCalls \in Nat /\ MaxLength \in Nat
    /\ Sizes \subseteq Nat /\ Offsets \subseteq Nat
    /\ Fds \subseteq Nat /\ IsFiniteSet(Fds)
    /\ None \notin Procs \cup Inodes \cup Fds \cup Descs

VARIABLES dir,    \* name -> inode
          data,   \* inode -> bytes
          desc,   \* open file descriptions, see Desc
          fdtab,  \* process -> descriptor -> description
          lock,   \* inode -> process that has it locked
          file,   \* process -> its File objects
          call,   \* process -> the function it is in
          last,   \* history: process -> what its last read or write did
          alone,  \* history: process -> inodes its Lock calls granted
          maker,  \* history: inodes that an exclusive open claims to have created
          spent   \* failing calls, and reads and writes, so far

fileVars == <<dir, data, desc, fdtab, lock, file, call, last, alone, maker, spent>>
disk == <<dir, data, desc, fdtab, lock>>
hist == <<last, alone, maker>>

-----------------------------------------------------------------------------
Invalid(error) == [fd |-> None, error |-> error, created |-> FALSE]
Idle == [op |-> "idle"]
NothingMoved == [op |-> None, rv |-> 0, at |-> 0, done |-> <<>>, append |-> FALSE, short |-> FALSE]

\* What DoInitialize makes of the flags: the dispositions differ in the calls
\* of open they lead to, the access only in append.
\* Variant: OPEN_ALWAYS creates without O_EXCL.
Flags == [open : {"OPEN", "CREATE", "CREATE_ALWAYS", "OPEN_ALWAYS", "OPEN_ALWAYS_EXCLUSIVE",
                  "OPEN_TRUNCATED"},
          append : BOOLEAN]
FirstOpen(mode) ==
    CASE mode = "CREATE" -> [creat |-> TRUE, excl |-> TRUE, trunc |-> FALSE]
      [] mode \in {"CREATE_ALWAYS", "OPEN_TRUNCATED"} -> [creat |-> TRUE, excl |-> FALSE, trunc |-> TRUE]
      [] OTHER -> [creat |-> FALSE, excl |-> FALSE, trunc |-> FALSE]
SecondOpenShared(mode) == [creat |-> TRUE, excl |-> FALSE, trunc |-> FALSE]
SecondOpen(mode) == [creat |-> TRUE, excl |-> mode = "OPEN_ALWAYS_EXCLUSIVE", trunc |-> FALSE]
OpensAlways(mode) == mode \in {"OPEN_ALWAYS", "OPEN_ALWAYS_EXCLUSIVE"}
CreatesSurely(mode) == mode \in {"CREATE", "CREATE_ALWAYS"}

\* The errors of a File and, in OSErrorToFileError, those of the system that occur here.
Errors == {"OK", "FAILED", "EXISTS", "NOT_FOUND", "IO", "TOO_MANY_OPENED", "NO_SPACE"}
OSErrorToFileError(errno) ==
    CASE errno = "EEXIST" -> "EXISTS"
      [] errno = "ENOENT" -> "NOT_FOUND"
      [] errno = "EIO"    -> "IO"
      [] errno = "EMFILE" -> "TOO_MANY_OPENED"
      [] errno = "ENOSPC" -> "NO_SPACE"
      [] OTHER            -> "FAILED"

FreeFds(p)   == {d \in Fds : fdtab[p][d] = None}
FirstFree(p) == CHOOSE d \in FreeFds(p) : \A e \in FreeFds(p) : d <= e
Inode(p, d)  == desc[fdtab[p][d]].ino
Valid(p, o)  == file[p][o].fd # None
Used         == {dir[n] : n \in Names} \cup {desc[k].ino : k \in Descs}
Fault        == spent.faults < MaxFaults /\ spent' = [spent EXCEPT !.faults = @ + 1]

-----------------------------------------------------------------------------
\* open(2): the errno, or a new descriptor on the inode.
OpenError(p, name, how) ==
    CASE how.excl /\ dir[name] # None                   -> "EEXIST"
      [] ~how.creat /\ dir[name] = None                 -> "ENOENT"
      [] FreeFds(p) = {}                                -> "EMFILE"
      [] dir[name] = None /\ Inodes \subseteq Used      -> "ENOSPC"
      [] OTHER                                          -> "OK"
OpenEffect(p, name, how, append) ==
    LET d   == FirstFree(p)
        k   == CHOOSE k \in {p} \X Fds : desc[k].refs = 0
        ino == IF dir[name] # None THEN dir[name] ELSE CHOOSE i \in Inodes \ Used : TRUE
    IN /\ dir' = [dir EXCEPT ![name] = ino]
       /\ data' = IF dir[name] = None \/ how.trunc THEN [data EXCEPT ![ino] = <<>>] ELSE data
       /\ desc' = [desc EXCEPT ![k] = [ino |-> ino, pos |-> 0, append |-> append, refs |-> 1]]
       /\ fdtab' = [fdtab EXCEPT ![p][d] = k]
       /\ UNCHANGED lock

\* close(2) of the descriptors ds (none or one) of p.
CloseEffect(p, ds) ==
    /\ desc' = [k \in Descs |-> IF \E d \in ds : fdtab[p][d] = k
                                THEN IF desc[k].refs = 1 THEN [desc[k] EXCEPT !.refs = 0, !.ino = None]
                                     ELSE [desc[k] EXCEPT !.refs = @ - 1]
                                ELSE desc[k]]
    /\ fdtab' = [fdtab EXCEPT ![p] = [d \in Fds |-> IF d \in ds THEN None ELSE @[d]]]
    /\ lock' = [i \in Inodes |-> IF lock[i] = p /\ \E d \in ds : Inode(p, d) = i THEN None ELSE lock[i]]
    /\ alone' = [alone EXCEPT ![p] = @ \ {Inode(p, d) : d \in ds}]
    /\ UNCHANGED <<dir, data>>

\* n bytes of p written to a file from position at; a hole is filled with zeros.
Zeros(n) == [i \in 1..n |-> "zero"]
Splice(bytes, at, n, p) ==
    [i \in 1..Max({Len(bytes), at + n}) |->
        IF i > at /\ i <= at + n THEN p ELSE IF i <= Len(bytes) THEN bytes[i] ELSE "zero"]

\* Where a write lands.  write(2) to an append file appends; of pwrite(2) to
\* one POSIX says that it does not, and Linux that it does.
Landing(k, c, at) ==
    LET end == Len(data[desc[k].ino]) IN
    IF ~desc[k].append THEN {at} ELSE IF c.at = None THEN {end} ELSE {end, at}

-----------------------------------------------------------------------------
\* The File objects of p after an open by object o.
Opened(p, o, d, created) ==
    file' = [file EXCEPT ![p][o] = [fd |-> d, error |-> "OK", created |-> created]]
Claims(p, name, mode, created) ==
    maker' = IF created /\ mode \in {"CREATE", "OPEN_ALWAYS_EXCLUSIVE"}
             THEN maker \cup {<<p, dir'[name]>>} ELSE maker

\* DoInitialize, to the end or to the second open of OPEN_ALWAYS.
\* Initialize refuses a path that refers to a parent.
Initialize(p, o, name, f) ==
    LET how == FirstOpen(f.open)
        err == OpenError(p, name, how) IN
    /\ call[p] = Idle /\ ~Valid(p, o)
    /\ \/ /\ err = "OK"
          /\ OpenEffect(p, name, how, f.append)
          /\ Opened(p, o, FirstFree(p), CreatesSurely(f.open))
          /\ Claims(p, name, f.open, CreatesSurely(f.open))
          /\ UNCHANGED <<call, spent, last, alone>>
       \/ /\ err # "OK" /\ ~OpensAlways(f.open)
          /\ file' = [file EXCEPT ![p][o] = Invalid(OSErrorToFileError(err))]
          /\ UNCHANGED <<disk, call, hist, spent>>
       \/ /\ err # "OK" /\ OpensAlways(f.open)
          /\ call' = [call EXCEPT ![p] = [op |-> "open", obj |-> o, name |-> name, flags |-> f]]
          /\ file' = [file EXCEPT ![p][o].created = FALSE]
          /\ UNCHANGED <<disk, hist, spent>>

OpenAgain(p) ==
    LET c   == call[p]
        how == SecondOpen(c.flags.open)
        err == OpenError(p, c.name, how) IN
    /\ c.op = "open"
    /\ call' = [call EXCEPT ![p] = Idle]
    /\ UNCHANGED <<spent, last, alone>>
    /\ \/ /\ err = "OK"
          /\ OpenEffect(p, c.name, how, c.flags.append)
          /\ Opened(p, c.obj, FirstFree(p), TRUE)
          /\ Claims(p, c.name, c.flags.open, TRUE)
       \/ /\ err # "OK"
          /\ file' = [file EXCEPT ![p][c.obj] = [@ EXCEPT !.error = OSErrorToFileError(err)]]
          /\ UNCHANGED <<disk, maker>>

\* FLAG_DELETE_ON_CLOSE, and anyone's unlink: the name goes, the inode stays
\* while it is open.
Unlink(name) ==
    /\ dir[name] # None
    /\ dir' = [dir EXCEPT ![name] = None]
    /\ maker' = {m \in maker : m[2] # dir[name]}
    /\ UNCHANGED <<data, desc, fdtab, lock, file, call, last, alone, spent>>

Close(p, o) ==
    /\ call[p] = Idle /\ Valid(p, o)
    /\ CloseEffect(p, {file[p][o].fd})
    /\ file' = [file EXCEPT ![p][o].fd = None]
    /\ UNCHANGED <<call, last, maker, spent>>

\* operator=(File&&): what the target had is closed.  The source is left
\* invalid, its error and created as they were.
\* Variants: the source keeps its descriptor; the target's is forgotten.
MoveCopying(p, o, q) ==
    /\ call[p] = Idle /\ o # q
    /\ CloseEffect(p, {file[p][o].fd} \ {None})
    /\ file' = [file EXCEPT ![p][o] = file[p][q]]
    /\ UNCHANGED <<call, last, maker, spent>>
MoveDropping(p, o, q) ==
    /\ call[p] = Idle /\ o # q
    /\ file' = [file EXCEPT ![p][o] = file[p][q], ![p][q].fd = None]
    /\ UNCHANGED <<disk, call, hist, spent>>
Move(p, o, q) ==
    /\ call[p] = Idle /\ o # q
    /\ CloseEffect(p, {file[p][o].fd} \ {None})
    /\ file' = [file EXCEPT ![p][o] = file[p][q], ![p][q].fd = None]
    /\ UNCHANGED <<call, last, maker, spent>>

\* Duplicate, the result moved into object o.
Duplicate(p, o, q) ==
    LET k == fdtab[p][file[p][q].fd] IN
    /\ call[p] = Idle /\ o # q /\ ~Valid(p, o)
    /\ UNCHANGED <<call, hist, spent, dir, data, lock>>
    /\ \/ /\ ~Valid(p, q)
          /\ file' = [file EXCEPT ![p][o] = Invalid("FAILED")] /\ UNCHANGED <<desc, fdtab>>
       \/ /\ Valid(p, q) /\ FreeFds(p) = {}
          /\ file' = [file EXCEPT ![p][o] = Invalid("TOO_MANY_OPENED")] /\ UNCHANGED <<desc, fdtab>>
       \/ /\ Valid(p, q) /\ FreeFds(p) # {}
          /\ desc' = [desc EXCEPT ![k].refs = @ + 1]
          /\ fdtab' = [fdtab EXCEPT ![p][FirstFree(p)] = k]
          /\ file' = [file EXCEPT ![p][o] = [fd |-> FirstFree(p), error |-> "OK", created |-> FALSE]]

-----------------------------------------------------------------------------
\* Lock and Unlock: a lock of the whole file that the process holds.
\* Variant: a failure is taken for success.
LockResultIgnored(granted) == TRUE
LockResult(granted) == granted
Lock(p, o) ==
    LET i == Inode(p, file[p][o].fd)
        granted == lock[i] \in {None, p} IN
    /\ call[p] = Idle /\ Valid(p, o)
    /\ lock' = IF granted THEN [lock EXCEPT ![i] = p] ELSE lock
    /\ alone' = IF LockResult(granted) THEN [alone EXCEPT ![p] = @ \cup {i}] ELSE alone
    /\ UNCHANGED <<dir, data, desc, fdtab, file, call, last, maker, spent>>
Unlock(p, o) ==
    LET i == Inode(p, file[p][o].fd) IN
    /\ call[p] = Idle /\ Valid(p, o)
    /\ lock' = IF lock[i] = p THEN [lock EXCEPT ![i] = None] ELSE lock
    /\ alone' = [alone EXCEPT ![p] = @ \ {i}]
    /\ UNCHANGED <<dir, data, desc, fdtab, file, call, last, maker, spent>>

Seek(p, o, at) ==
    /\ call[p] = Idle /\ Valid(p, o)
    /\ desc' = [desc EXCEPT ![fdtab[p][file[p][o].fd]].pos = at]
    /\ UNCHANGED <<dir, data, fdtab, lock, file, call, hist, spent>>

SetLength(p, o, n) ==
    LET i == Inode(p, file[p][o].fd) IN
    /\ call[p] = Idle /\ Valid(p, o)
    /\ data' = [data EXCEPT ![i] = IF n <= Len(@) THEN SubSeq(@, 1, n) ELSE @ \o Zeros(n - Len(@))]
    /\ UNCHANGED <<dir, desc, fdtab, lock, file, call, hist, spent>>

-----------------------------------------------------------------------------
\* Read and Write (at = an offset) and their AtCurrentPos forms (at = None);
\* Write to an append file writes at the current position.
\* Variant: Write does not look at O_APPEND.
BeginAnywhere(p, o, op, at, n, loops) ==
    /\ call[p] = Idle /\ Valid(p, o)
    /\ call' = [call EXCEPT ![p] = [op |-> op, fd |-> file[p][o].fd, size |-> n, loops |-> loops,
                                    done |-> <<>>, at |-> at]]
    /\ last' = [last EXCEPT ![p] = NothingMoved]
    /\ spent.calls < MaxCalls /\ spent' = [spent EXCEPT !.calls = @ + 1]
    /\ UNCHANGED <<disk, file, alone, maker>>
Begin(p, o, op, at, n, loops) ==
    /\ call[p] = Idle /\ Valid(p, o)
    /\ call' = [call EXCEPT ![p] =
                  [op |-> op, fd |-> file[p][o].fd, size |-> n, loops |-> loops, done |-> <<>>,
                   at |-> IF op = "write" /\ desc[fdtab[p][file[p][o].fd]].append THEN None ELSE at]]
    /\ last' = [last EXCEPT ![p] = NothingMoved]
    /\ spent.calls < MaxCalls /\ spent' = [spent EXCEPT !.calls = @ + 1]
    /\ UNCHANGED <<disk, file, alone, maker>>

\* What the function returns after a last call that returned rv.
\* Variant: the result of the last call.
ReturnLast(done, rv) == rv
Return(done, rv) == IF done # <<>> THEN Len(done) ELSE rv

\* One turn of the loop: the call moved n bytes, or met the end, or failed.
\* Variant: one call is thought to be enough.
GoesOnOnce(c, n) == FALSE
GoesOn(c, n) == c.loops /\ n > 0 /\ Len(c.done) + n < c.size
Turn(p, rv, from) ==
    LET c    == call[p]
        done == c.done \o [i \in 1..Max({rv, 0}) |-> from + i] IN
    IF GoesOn(c, rv) THEN call' = [call EXCEPT ![p].done = done] /\ UNCHANGED last
    ELSE /\ call' = [call EXCEPT ![p] = Idle]
         /\ last' = [last EXCEPT ![p] = [op |-> c.op, rv |-> Return(done, rv), at |-> c.at,
                                         done |-> done, append |-> desc[fdtab[p][c.fd]].append,
                                         short |-> c.loops /\ rv > 0 /\ Len(done) < c.size]]

SysCall(p) ==
    LET c    == call[p]
        k    == fdtab[p][c.fd]
        i    == desc[k].ino
        left == c.size - Len(c.done)
        at   == IF c.at = None THEN desc[k].pos ELSE c.at + Len(c.done) IN
    /\ c.op \in {"read", "write"}
    /\ UNCHANGED <<dir, fdtab, lock, file, alone, maker>>
    /\ \/ /\ c.op = "read" /\ UNCHANGED <<data, spent>>
          /\ \E n \in IF left = 0 \/ at >= Len(data[i]) THEN {0} ELSE 1..Min({left, Len(data[i]) - at}) :
                /\ desc' = IF c.at = None THEN [desc EXCEPT ![k].pos = at + n] ELSE desc
                /\ Turn(p, n, at)
       \/ /\ c.op = "write" /\ UNCHANGED spent
          /\ \E to \in Landing(k, c, at), n \in IF left = 0 THEN {0} ELSE 1..left :
                /\ to + n <= MaxLength
                /\ data' = IF n = 0 THEN data ELSE [data EXCEPT ![i] = Splice(@, to, n, p)]
                /\ desc' = IF c.at = None THEN [desc EXCEPT ![k].pos = to + n] ELSE desc
                /\ Turn(p, n, to)
       \/ Fault /\ Turn(p, -1, 0) /\ UNCHANGED <<data, desc>>

-----------------------------------------------------------------------------
FileInit ==
    /\ dir = [n \in Names |-> None] /\ data = [i \in Inodes |-> <<>>]
    /\ desc = [k \in Descs |-> [ino |-> None, pos |-> 0, append |-> FALSE, refs |-> 0]]
    /\ fdtab = [p \in Procs |-> [d \in Fds |-> None]] /\ lock = [i \in Inodes |-> None]
    /\ file = [p \in Procs |-> [o \in Objects |-> Invalid("FAILED")]]
    /\ call = [p \in Procs |-> Idle] /\ last = [p \in Procs |-> NothingMoved]
    /\ alone = [p \in Procs |-> {}] /\ maker = {} /\ spent = [faults |-> 0, calls |-> 0]

FileNext ==
    \/ \E n \in Names : "unlink" \in Uses /\ Unlink(n)
    \/ \E p \in Procs :
         \/ OpenAgain(p) \/ SysCall(p)
         \/ \E o \in Objects :
              \/ \E n \in Names, f \in Modes : Initialize(p, o, n, f)
              \/ Close(p, o)
              \/ "lock" \in Uses /\ (Lock(p, o) \/ Unlock(p, o))
              \/ \E q \in Objects : "move" \in Uses /\ (Move(p, o, q) \/ Duplicate(p, o, q))
              \/ \E n \in Offsets : Seek(p, o, n) \/ SetLength(p, o, n)
              \/ \E op \in {"read", "write"}, n \in Sizes, at \in Offsets \cup {None}, loops \in BOOLEAN :
                    Begin(p, o, op, at, n, loops)

FileSpec == FileInit /\ [][FileNext]_fileVars

-----------------------------------------------------------------------------
\* A call that is under way: the second open of OPEN_ALWAYS, or a Read or Write.
InCall(p) ==
    \/ call[p] = Idle
    \/ /\ call[p].op = "open" /\ call[p].obj \in Objects /\ ~Valid(p, call[p].obj)
       /\ call[p].name \in Names /\ OpensAlways(call[p].flags.open)
    \/ "op" \in DOMAIN call[p] /\ call[p].op \in {"read", "write"}

FileTypeOK ==
    /\ dir \in [Names -> Inodes \cup {None}] /\ lock \in [Inodes -> Procs \cup {None}]
    /\ DOMAIN desc = Descs
    /\ \A k \in Descs : /\ DOMAIN desc[k] = {"ino", "pos", "append", "refs"}
                         /\ desc[k].ino \in Inodes \cup {None} /\ desc[k].refs \in Nat
    /\ fdtab \in [Procs -> [Fds -> Descs \cup {None}]]
    /\ file \in [Procs -> [Objects -> [fd : Fds \cup {None}, error : Errors, created : BOOLEAN]]]
    /\ DOMAIN call = Procs /\ \A p \in Procs : InCall(p)
    /\ alone \in [Procs -> SUBSET Inodes] /\ maker \subseteq Procs \X Inodes

\* The descriptors that are open on description k.
DescriptorsOn(k) == {d \in Fds : fdtab[k[1]][d] = k}

\* A description lives as long as a descriptor is open on it, and no longer; and a process
\* has no descriptor of another's.
DescriptionsCounted ==
    /\ \A k \in Descs : desc[k].refs = Cardinality(DescriptorsOn(k))
    /\ \A p \in Procs, d \in Fds :
          fdtab[p][d] # None => fdtab[p][d][1] = p /\ Inode(p, d) \in Inodes

\* A File that is valid has an open descriptor and says that all is well.
ValidIsOpen ==
    \A p \in Procs, o \in Objects :
       Valid(p, o) => fdtab[p][file[p][o].fd] # None /\ file[p][o].error = "OK"

\* Every open descriptor is that of exactly one File: none leaks, none is
\* closed twice, whatever was moved, duplicated or failed.
DescriptorsOwned ==
    \A p \in Procs, d \in Fds :
       Cardinality({o \in Objects : file[p][o].fd = d}) = IF fdtab[p][d] = None THEN 0 ELSE 1

\* The result of a Read or Write is the number of bytes moved, all of them
\* one after the other from where it began (an append file has no such place),
\* also when a later call of its loop failed; 0 or -1 says that none was.
InARow(done, at) == \A i \in 1..Len(done) : done[i] = (IF at = None THEN done[1] - 1 ELSE at) + i
ReportsWhatMoved ==
    \A p \in Procs :
       LET l == last[p] IN
       /\ l.rv = Len(l.done) \/ (l.rv = -1 /\ l.done = <<>>)
       /\ ~l.append => InARow(l.done, l.at)

\* A Read or Write that tries its best gives up only at the end of the file
\* or at an error, never because the system did a part.
ShortOnlyAtTheEnd == \A p \in Procs : ~last[p].short

\* Writing through an append file never changes what the file already has,
\* whichever way the offset was given.
AppendsExtendStep ==
    \A p \in Procs :
       call[p].op = "write" /\ call'[p] # call[p] /\ desc[fdtab[p][call[p].fd]].append
       => LET i == Inode(p, call[p].fd) IN
          Len(data[i]) <= Len(data'[i]) /\ SubSeq(data'[i], 1, Len(data[i])) = data[i]
AppendsExtend == [][AppendsExtendStep]_fileVars

\* Of all that open a file with CREATE, or with OPEN_ALWAYS and an exclusive
\* flag, at most one is told that it has created it.
OneExclusiveCreator == \A m, n \in maker : m[2] = n[2] => m = n

\* Two processes whose Lock of a file was granted: one has unlocked it, or has
\* closed some File on it, which gives the lock up as well.
LockMeansAlone == \A p, q \in Procs : p # q => alone[p] \cap alone[q] = {}

\* What the functions of file.cc never do, one after the other, in any processes, whatever
\* fails: no descriptor is without its File or has two, no description is closed too early or
\* too late, no two are told that they created a file or that they have it locked.
FilesAreOwned == /\ ValidIsOpen /\ DescriptorsOwned /\ DescriptionsCounted
                 /\ OneExclusiveCreator /\ LockMeansAlone

\* What makes this inductive: who is the File of a descriptor; a granted lock is
\* held; what someone claims to have created has its name still.
FileOfEach ==
    \A p \in Procs, d \in Fds :
       fdtab[p][d] # None => \E o \in Objects : /\ file[p][o].fd = d
                                               /\ \A q \in Objects : file[p][q].fd = d => q = o
GrantedIsHeld == \A p \in Procs : \A i \in alone[p] : lock[i] = p
CreatedIsNamed == \A m \in maker : \E n \in Names : dir[n] = m[2]

FileInv == /\ FileTypeOK /\ ValidIsOpen /\ FileOfEach /\ DescriptionsCounted
           /\ GrantedIsHeld /\ CreatedIsNamed /\ OneExclusiveCreator

\* A Read or Write under way has an open descriptor; what it moved so far is in a row, and
\* the position, where the call is at it, right behind.
UnderWay(p) ==
    LET c == call[p]
        k == fdtab[p][c.fd] IN
    /\ DOMAIN c = {"op", "fd", "size", "loops", "done", "at"} /\ c.fd \in Fds /\ k \in Descs
    /\ c.size \in Nat /\ c.loops \in BOOLEAN /\ c.at \in Offsets \cup {None} /\ c.done \in Seq(Nat)
    /\ c.op = "write" /\ desc[k].append => c.at = None
    /\ c.op = "read" \/ ~desc[k].append
       => /\ InARow(c.done, c.at)
          /\ c.at = None /\ c.done # <<>> => desc[k].pos = c.done[Len(c.done)]

TransferInv == /\ FileInv
               /\ data \in [Inodes -> Seq(Procs \cup {"zero"})]
               /\ \A k \in Descs : desc[k].pos \in Nat
               /\ \A p \in Procs : call[p].op \in {"read", "write"} => UnderWay(p)
               /\ DOMAIN last = Procs /\ ReportsWhatMoved /\ ShortOnlyAtTheEnd
=============================================================================

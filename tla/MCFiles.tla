------------------------------- MODULE MCFiles -------------------------------
(***************************************************************************)
(* What base does with files: in each behaviour one of the modules moves,  *)
(* `part', and the variables of the others do not.  The modules share no   *)
(* state, so the behaviours of each are all there.  A module that is run   *)
(* with several values of its constants is there several times, with the   *)
(* same variables.                                                         *)
(***************************************************************************)
EXTENDS Time, File

CONSTANTS p1, p2, p3,  \* processes: p3 where there is only one
          f1, f2, f3,  \* names of files
          Absent

VARIABLES part,
    names, bytes, descs, fds, locks, files, calls, moved, granted, makers, costs,  \* File
    content, utilCall, faults,                                                \* FileUtil
    tree, treeCall, treeSeen, calm, treeChanges,                              \* DirTree
    fd_, buf_, offset_, size_, result, listed, rest, unborn, stayed, seen, failed  \* DirReader

otherVars  == <<names, bytes, descs, fds, locks, files, calls, moved, granted, makers, costs>>
utilVars   == <<content, utilCall, faults>>
treeVars   == <<tree, treeCall, treeSeen, calm, treeChanges>>
readerVars == <<fd_, buf_, offset_, size_, result, listed, rest, unborn, stayed, seen, failed>>
all == <<part, vars, fileVars, otherVars, utilVars, treeVars, readerVars>>

ProcSymmetry == Permutations({p1, p2})

-----------------------------------------------------------------------------
\* Time: units so small that the limits of the types are near; two readings of the wall
\* clock are beyond the C library.
MCDstStart == -5
MCSeconds == -12..26
MCStampSeconds == {-3, 0, 2}
MCWalls == -10..12 \cup {-400, 400}

-----------------------------------------------------------------------------
\* File: two processes that open and lock the same files; and, in variables of their own,
\* one that moves and duplicates its files, and two that read and write, in parts and with
\* a failing call.
Opens(ways) == [open : ways, append : {FALSE}]
MCModes == Opens({"CREATE", "OPEN_ALWAYS_EXCLUSIVE"})
M == INSTANCE File
     WITH dir <- names, data <- bytes, desc <- descs, fdtab <- fds, lock <- locks, file <- files,
          call <- calls, last <- moved, alone <- granted, maker <- makers, spent <- costs,
          Procs <- {p3}, Names <- {f1}, Inodes <- {1, 2}, Objects <- {1, 2, 3}, Fds <- {1, 2},
          Uses <- {"lock", "move", "unlink"},
          Modes <- Opens({"CREATE_ALWAYS", "OPEN_ALWAYS_EXCLUSIVE"}),
          Sizes <- {}, Offsets <- {}, MaxFaults <- 0, MaxCalls <- 0, MaxLength <- 0
W == INSTANCE File
     WITH dir <- names, data <- bytes, desc <- descs, fdtab <- fds, lock <- locks, file <- files,
          call <- calls, last <- moved, alone <- granted, maker <- makers, spent <- costs,
          Procs <- {p1, p2}, Names <- {f1}, Inodes <- {1}, Objects <- {1}, Fds <- {1},
          Uses <- {}, Modes <- [open : {"OPEN_ALWAYS"}, append : BOOLEAN],
          Sizes <- {2}, Offsets <- {1}, MaxFaults <- 1, MaxCalls <- 2, MaxLength <- 3

-----------------------------------------------------------------------------
\* FileUtil: every function, by one process, in parts and with failing calls; and two
\* processes that append to the same file.
U == INSTANCE FileUtil
     WITH call <- utilCall, Procs <- {p3}, Names <- {f2, f3},
          Calls <- {"CopyFile", "WriteFile", "AppendToFile", "ReadFileToString", "ReadFile",
                    "ContentsEqual"},
          Size <- 3, Chunk <- 2, Limits <- {2, 3, 5}, MaxFaults <- 2, MaxLength <- 6
A == INSTANCE FileUtil
     WITH call <- utilCall, Procs <- {p1, p2}, Names <- {f2},
          Calls <- {"AppendToFile", "ReadFileToString"},
          Size <- 3, Chunk <- 2, Limits <- {3}, MaxFaults <- 1, MaxLength <- 6

-----------------------------------------------------------------------------
\* DirTree: root/{a/{c}, b}, and outside/{x}: a and b may be anything, c too if a is a
\* directory.  It is deleted and measured; or created and deleted, without links.
Nodes == {"root", "a", "b", "c", "outside", "x"}
Parent == [m \in Nodes |-> IF m \in {"a", "b"} THEN "root" ELSE IF m = "c" THEN "a"
                           ELSE IF m = "x" THEN "outside" ELSE "top"]
TreesOf(kinds) == {t \in [Nodes -> kinds] :
                   /\ t["outside"] = "dir" /\ t["x"] = "file"
                   /\ \A m \in {"a", "b", "c"} : t[m] # "absent" => t[Parent[m]] = "dir"}
AllTrees == TreesOf({"absent", "file", "dir", "link"})
PlainTrees == TreesOf({"absent", "file", "dir"})
D == INSTANCE DirTree
     WITH calling <- treeCall, seen <- treeSeen, Callers <- {p1, p2}, Root <- "root",
          Linked <- "outside", Trees <- AllTrees,
          Calls <- {"DeleteFile", "ComputeDirectorySize"}, MaxTreeChanges <- 2
C == INSTANCE DirTree
     WITH calling <- treeCall, seen <- treeSeen, Callers <- {p1, p2}, Root <- "root",
          Linked <- "outside", Trees <- PlainTrees,
          Calls <- {"DeleteFile", "CreateDirectory"}, MaxTreeChanges <- 1

\* DirReader: four names with records of two lengths, two or three of which fit.
RecLen == [m \in {"a", "b", "c", "d"} |-> IF m \in {"a", "b"} THEN 2 ELSE 3]
R == INSTANCE DirReader WITH dir <- listed, Name <- DOMAIN RecLen, BufSize <- 7

ASSUME AllAssumptions == /\ FileAssumption /\ M!FileAssumption /\ W!FileAssumption
                         /\ U!FileUtilAssumption /\ A!FileUtilAssumption
                         /\ D!DirTreeAssumption /\ C!DirTreeAssumption
                         /\ R!DirReaderAssumption

-----------------------------------------------------------------------------
Parts == {"times", "locks", "moves", "transfers", "functions", "appends",
          "delete", "create", "entries"}

AllInit ==
    /\ part \in Parts
    /\ IF part = "times" THEN Init ELSE us = 0 /\ source = 0 /\ sink = 0 /\ stamp = 0
    /\ FileInit
    /\ CASE part = "moves" -> M!FileInit
         [] part = "transfers" -> W!FileInit
         [] OTHER -> /\ names = 0 /\ bytes = 0 /\ descs = 0 /\ fds = 0 /\ locks = 0 /\ files = 0
                     /\ calls = 0 /\ moved = 0 /\ granted = 0 /\ makers = 0 /\ costs = 0
    /\ CASE part = "functions" -> U!Init
         [] part = "appends" -> A!Init
         [] OTHER -> content = 0 /\ utilCall = 0 /\ faults = 0
    /\ CASE part = "delete" -> D!TreeInit
         [] part = "create" -> C!TreeInit
         [] OTHER -> tree = 0 /\ treeCall = 0 /\ treeSeen = 0 /\ calm = 0 /\ treeChanges = 0
    /\ IF part = "entries" THEN R!Init
       ELSE /\ fd_ = 0 /\ buf_ = 0 /\ offset_ = 0 /\ size_ = 0 /\ result = 0 /\ listed = 0
            /\ rest = 0 /\ unborn = 0 /\ stayed = 0 /\ seen = 0 /\ failed = 0

AllNext ==
    /\ UNCHANGED part
    /\ IF part = "times" THEN Next ELSE UNCHANGED vars
    /\ IF part = "locks" THEN FileNext ELSE UNCHANGED fileVars
    /\ CASE part = "moves" -> M!FileNext
         [] part = "transfers" -> W!FileNext
         [] OTHER -> UNCHANGED otherVars
    /\ CASE part = "functions" -> U!Next
         [] part = "appends" -> A!Next
         [] OTHER -> UNCHANGED utilVars
    /\ CASE part = "delete" -> D!TreeNext
         [] part = "create" -> C!TreeNext
         [] OTHER -> UNCHANGED treeVars
    /\ IF part = "entries" THEN R!Step ELSE UNCHANGED readerVars

AllSpec == AllInit /\ [][AllNext]_all

-----------------------------------------------------------------------------
(* What the modules promise, of the behaviours that are about them.  The    *)
(* conjuncts are stated and explained in their modules.                     *)

\* time.cc: a time goes out as the instant it came in as; it is exploded downwards, before
\* the epoch too, and back without loss of more than a part of a millisecond; what no clock
\* shows is not a time; whole units of an interval are counted towards zero.
TimesKeepTheInstant == part = "times" => /\ TypeOK /\ RoundTrips /\ ExplodesDown
                                         /\ ExplodesAndBack /\ ReadingsAreChecked
                                         /\ CountsTruncate

\* time.h:126-127: the internal value counts from 1970.
TimesSinceUnixEpoch == part = "times" => SinceUnixEpoch

\* file.cc, file_util.cc: Files that are moved and duplicated own their descriptors as those
\* that are opened and locked do; Read and Write report what was moved and are short only at the
\* end or after a failure; success of the functions on whole files means that everything is
\* written, copied, read or compared; appending never changes what is there, and keeps the
\* order of a call's pieces.
TransfersAreTrue ==
    /\ [](/\ FileInv /\ part = "moves" => M!FileInv /\ M!FilesAreOwned
          /\ part = "transfers" => W!TransferInv /\ W!ReportsWhatMoved /\ W!ShortOnlyAtTheEnd
          /\ part = "functions" => /\ U!TypeOK /\ U!CopyIsFaithful /\ U!WritesAreComplete
                                   /\ U!ReadsAreTrue /\ U!ComparesTruly
          /\ part = "appends" => A!AppendsKeepOrder)
    /\ [][part = "transfers" => W!AppendsExtendStep]_all

\* file_util.cc, file_enumerator.cc, dir_reader.h: DeleteFile returns true only when the path
\* is gone, succeeds when nobody disturbs it and removes nothing behind a link;
\* CreateDirectory succeeds beside others that make the same path; walking a quiet tree, and
\* reading a directory that changes, give every entry that stays, once.
TreesAreTrue ==
    /\ [](/\ part = "delete" => D!TreeOK /\ D!DeleteInv
          /\ part = "entries" => R!NameIsARecord /\ R!EachOnce /\ R!AllRead)
    /\ [][/\ part = "delete" => /\ D!SuccessMeansGoneStep /\ D!QuietDeleteSucceedsStep
                                /\ D!OutsideUntouchedStep /\ D!EnumeratesOnceStep
          /\ part = "create" => C!CreateSucceedsStep]_all
=============================================================================

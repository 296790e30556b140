# Specifications of mpr_shttp

TLA+ models of the two C++11 libraries of this repository: `net/`, a small
network layer on an abstract event loop, and `base/`, the utilities below it.
`PROJECT.json` links every definition that stands for code to its lines, every
property to the run that checks it and every theorem to its module.

The repository has no prose documentation. Its headers, comments, assertions and
unit tests are the only statements of intent, and where a property contradicts
one of them the contradiction is listed under *Findings*.

## 1. The system

### net: connections on an event loop

| Part | State | Operations | What makes it correct |
|---|---|---|---|
| `Connection` (`connection.h/.cc`) | `state_`, `read_state_`, `write_state_`, `can_close_connection_`, its descriptor, `on_close_` | `Start`, `Close`, `CloseInternal`, `RegisterForWrite`, `(Un)RegisterEndpointForRead`, `HandleRead`, `HandleWrite` | what the loop holds agrees with `read_state_`/`write_state_`; a deferred close is finished; no method runs on a deleted object; the code told to the application is true |
| `Server` (`server.h/.cc`) | `listen_fd_`, `active_connections_` | `Start`, `Stop`, `OnNewConnection`, `OnConnectionClose`, `CloseConnection`, timers | each connection is opened, reported closed once and deleted once; no descriptor leaks; `Stop` terminates |
| `Client` (`client.h/.cc`) | `state_`, `conn_` | `Start`, `Stop`, `OnConnect`, `OnClose`, timers | at most one connection, and `state_` tells the truth about it; every connect is answered |
| `SocketUtil` (`socket_util.h/.cc`) | none | option setters, `SetSocketDefaults` | accepts a socket exactly when its options were set |
| `EventLoop` (`event_loop.h`) | (abstract class, no implementation here) | register and unregister a callback per descriptor, timers | external |
| options, addresses, `registered_event.h` | settings, resolver results | getters, setters, system calls | - |

One thread runs all of this. The loop calls `HandleRead` or `HandleWrite`, which
call the application (`HandleDataRead`, `HandleDataWritten`), which may call any
public operation of any connection, or of the server or client, and so reach
`CloseInternal`, which calls `on_close_`, which calls the application again
(`HandleConnectionClose`) and deletes the connection. **The hard behaviour is
re-entrance**: a call chain that comes back to an object which is still in the
middle of another method. Then come failing system calls on each step, and
descriptor numbers and object addresses that are reused.

### net and base: code that threads share

| Part | State | Operations | What makes it correct |
|---|---|---|---|
| `PCQueue` (`pc_queue.h/.cc`) | a deque, a mutex, a condition variable | `Enqueue`, `EnqueueN`, `Dequeue`, `TryDequeue`, `TryDequeueN` | first in, first out; nobody sleeps beside an item |
| `CountDownLatch` (`count_down_latch.h/.cc`) | a count, a mutex, a condition variable | `Wait`, `CountDown` | opens after the last `CountDown`, never closes, wakes everybody |
| `OnceInit` (`base/once.h/.cc`, `base/atomicops.h`) | an atomic word per once | `OnceInit` | the closure runs once; who returns sees its effects; nobody waits for a thread that is gone |
| `Singleton` (`base/singleton.h`) | a pointer and a once | `GetInstance`, `ShutDown` | one instance is ever made, whoever gets it gets it alive, none after shutdown |
| reference counts (`base/ref_counted.*`, `base/atomic_ref_count.h`) | a count per object | `AddRef`, `Release`, construction, assignment, swap and destruction of `scoped_ref_ptr` | deleted once, after the last use, whose effects the destructor sees |

`PCQueue`, `CountDownLatch` and `Singleton` have no caller in the repository;
`OnceInit` is called by `Singleton` and by its unit test. Their properties are
those of the interface.

### base: objects that own something

| Part | State | Operations | What makes it correct |
|---|---|---|---|
| `Callback`, `ScopedClosureRunner` (`callback*.h/.cc`) | a counted bind state, a function pointer | bind, copy, move, reset, run; replace, release, run and reset, destroy | what runs is not destroyed underneath; a runner runs what it has, once |
| `ScopedGeneric`, `ScopedFD` (`scoped_generic.h`, `scoped_file.*`) | a descriptor | reset, release, move, swap, destroy | closes what it was given, and nothing that was opened since |
| `ScopedTempDir` | a path | create, set, delete, take, destroy | no directory is left behind or lost |
| `Pickle`, `PickleIterator`, `PickleSizer` (`pickle.*`) | a block, header size, capacity, offset; a cursor | write, reserve, claim, copy, assign, read, `FindNext` | blocks are owned and large enough; what is read is what was written; no read leaves the payload |
| `Status` (`status.*`) | a pointer to a State | construct, copy, assign, `Update` | it is a value: copies share nothing |

### base: files

`File` wraps the system calls (open with its table of flags, read and write
loops, locks, duplicate, move). `file_util` reads, writes, appends, copies and
compares whole files, and removes and makes trees. `FileEnumerator` and
`DirReader` walk directories. What is hard: short reads and writes, calls that
fail half way, other processes that change files and trees meanwhile.

### base: conversions

`numbers` parses integers, leading numbers and ranges. `Time` converts instants
and intervals. `string_encode` is UTF-8 and hexadecimal. `StringPiece`,
`string_util` and `FilePath` search, compare and take apart. What is hard:
overflow at the edges of integer types, texts that are nearly right, buffers
that are too small, instants before an epoch.

All parts, modelled or not, with their status, are in `PROJECT.json`
"components"; the hard-to-test behaviours, each at its line, in "hazards".

## 2. Modules

    Connection ── ConnectionInvariant ──┬── Server (implements Sessions) ── ServerProofs
                                        ├── Client ──────────────────────── ClientProofs
                                        └── ConnectionProofs (used by both)

    PCQueue        (implements Fifo) ──────────────── PCQueueProofs
    CountDownLatch (implements Gate) ──┬───────────── OnceProofs
    Once ── OnceInvariant ─────────────┤
            Singleton ─────────────────┘
    Status (implements StatusValue), RefCounted, Callback, ScopedFile ── OwnershipProofs
    File, ScopedTempDir, DirTree ──────────────────── FileProofs
    SafeInt, Pickle ───────────────────────────────── BoundsProofs

    FileUtil  DirReader  Time  LeadingNumbers  DoubleRange  } only model-
    UTF8  HexCode  StringPiece  FilePath  TextFiles         } checked

### Connection, Server, Client: the reactor

`Connection` holds the state machine of a connection, the loop's registrations,
the open descriptors and **the C++ call stack** as a sequence of frames. A step
of the model is the code between two calls into the application. While a frame
of application code is on top (`InApp`), any public operation is enabled; a
frame of library code (`on_close`, `Stop`) continues when the frame above it is
gone. So every nesting of handlers, closes and stops that the code can reach is
a behaviour of the model, and there is no other concurrency.

| Model | Code |
|---|---|
| `conn[c]` | a `Connection` object at address `c`; state `FREE`: nothing lives there |
| `readReg`, `writeReg` | the callback the loop holds for a descriptor: a connection's, the owner's, or nobody's |
| `openFds` | the descriptors this process has open |
| `stack` | the call stack; `prev` is the local variable of `HandleRead`/`HandleWrite` |
| `abort` | the CHECK or DCHECK that failed. The Makefile does not define NDEBUG, so DCHECKs are evaluated, and the calls inside them are made |
| `failed` | history: the directions in which I/O failed |
| `active`, `listenFd`, `started` | `active_connections_`, `listen_fd_`, and whether the last `Start` succeeded with no `Stop` since |
| `state`, `cur` | `Client::state_`, `Client::conn_` |

One action is one handler or operation up to its next call of application code:
`HandleRead`, `HandleWrite`, then `ReturnFromData` for what they do when the
application comes back; `CloseInternal` is an operator on the object its
callers have modified. `Server::OnConnectionClose` is two actions because the
application runs between its halves (`OnConnectionClose`, `DeleteClosed`).
`Stop`'s loop is `StopClosesOne`, `StopReturns`, and `StopSpins` for the turn in
which `Close()` was deferred and the set does not shrink.
`SetSocketDefaults` is a condition on the system calls it depends on, with the
sense its last test has: it accepts when setting TCP_NODELAY *fails*.

What the model assumes of the environment:
- The event loop has no implementation here. It is modelled as external, by how
  `net/` uses it: one callback per descriptor and direction, write
  registrations fire once, registering may be refused (`RegistrationMayFail`),
  unregistering returns whether there was something to remove.
- The two hooks of a connection that move bytes report success or failure and
  do not call back into the library.
- The application starts a server or client only when stopped and stops it only
  when started, with the exception that `StartWhileConnecting` allows.
- A subclass may call `RegisterEndpointForRead` and `UnregisterEndpointForRead`
  in its handlers; while the connection is DISCONNECTING only if
  `ToggleWhileClosing` is TRUE. See *Bounds* for why it is not always.
- A refused `RegisterEndpointForRead` changes nothing and is not a step.
- Timers only run application code; they are the frame `Callback`.

`Sessions` is what the application is promised, without loop, descriptors or
stack: a session opens, may fail, closes, is reported once with a code that
names no direction that did not fail, and is forgotten.

`ConnectionInvariant` is the inductive invariant of the connections whoever owns
them; `Server` and `Client` define `ServerInv` and `ClientInv`, which add what
they know of their own variables.

### PCQueue with Fifo, CountDownLatch with Gate

Every operation holds the mutex from its first to its last statement except
where it waits, so an operation is one step, and a waiting one is a step for each
turn of its loop. `locking` are the threads about to test the condition with
the mutex, `sleeping` those in `cond_.wait`. Waking moves a thread from the
second to the first, spuriously too. `got` and `passed` record what calls
returned. `surplus` counts the items that `EnqueueN` has pushed beyond the
single notification it gives. `Fifo` and `Gate` are the same interfaces without
mutex and condition variable.

### Once and Singleton

A step is one access to the atomic word, or the part of a closure between two
calls it makes. Every thread has a stack of calls of `OnceInit`, because a
closure may initialize other onces (`Needs`), as the unit test does.
Memory order is modelled by **visibility**: `seen[t]` are the closures whose
effects thread `t` is sure to see, a release store publishes the thread's
`seen`, and an acquire load that reads the store adds it. A load that returns an
old value returns what an earlier load of the same loop could have, so it adds no
behaviour. A closure may throw; no closure catches what a nested one throws.
`Singleton` calls the `OnceInit` of module `Once` and adds the pointer: a thread
that is not sure to see the closure's effects may read it as it was before. The
once stays DONE after `ShutDown`, as in the code, so there is no second instance.

### RefCounted

An operation on a `scoped_ref_ptr` is a list of micro steps, each one access to a
count or to a pointer (`todo`): that is what the threads race on. A variable is
used by one operation at a time (`using`, the application's lock). Each object
has a member of its own of type `scoped_ref_ptr`, which its destructor destroys,
so releases cascade, and objects point to each other and to themselves. Views
are, as in `Once`, the uses of objects that are sure to be visible.
`RefCountedBase`, whose count is not atomic, is the case of one thread.

### Callback

One thread again, and again re-entrance. A closure that runs is a frame of
`stack` and may do any operation on any callback and runner, also on the one it
was called through. A frame either has a copy of the closure in a local variable
(`RunAndReset`, `ResetAndReturn`) or runs it in place (`Run`, the runner's
destructor); `binds` has the counts and the bind states that were destroyed.

### The other modules of base

| Module | State, steps |
|---|---|
| `Status` | pointers to States on a heap whose blocks are used again; one step per operation. `StatusValue` is what it promises: a value per status |
| `ScopedFile` | scopers, the kernel's table of descriptors (the lowest free number is given out), what the program owns itself. A reset is two steps, the close and the new value; other threads open files between them |
| `ScopedTempDir` | objects, the directories that exist; deleting is a step that succeeds or fails |
| `Pickle` | memory as blocks with sizes and words; an iterator; a `PickleSizer`; buffers from elsewhere, cut short or with a wrong size in the header; one step per constructor, assignment, write and read |
| `File` | inodes, directories, positions, locks; a system call is a step, so the loops of `Read` and `Write` and the second open of OPEN_ALWAYS are interleaved with other processes |
| `FileUtil` | files as sequences of bytes; a call of `File` or stdio is a step |
| `DirTree` | a tree of files, directories and links; `opendir`, `stat`, `unlink`, `rmdir`, `mkdir` are steps and the world changes the tree between them |
| `DirReader` | the cursor over `getdents64` records, in a directory that changes |
| `Time` | microseconds, the conversions, with units as constants small enough to reach every limit |
| `SafeInt` | one call of a `safe_strto` function, two steps per digit, so that the value is looked at wherever it could overflow |
| `LeadingNumbers`, `DoubleRange`, `UTF8`, `HexCode`, `StringPiece`, `FilePath`, `TextFiles` | a call of the function, or the blocks of it, on every text of a small alphabet, against a reference definition that is written independently of the code's order of steps |

### MC modules that run several models

The models of `base` share no state, so one TLC run can check several:
`MCConversions`, `MCFiles`, `MCObjects`, `MCProgress` and `MCOnce` have a
variable `part` that says which of the models moves; the variables of the others
do not. A property of such a run is a conjunction *grouped by subject*: its
conjuncts are stated and explained in the modules, and restricted to the part
they are about. A model that a property or a theorem is stated for by itself
(`File`, `Status`, `SafeInt`, `Pickle`) is extended by the MC module, with its
constants in the `.cfg`; the others are instances. Some models run with several
values of their constants: `MCFiles` runs `File` itself with two processes that
race for locks and exclusive creation, `M` with one that moves and duplicates, `W`
with two that read and write; `MCObjects` runs `Pickle` itself with two pickles that
are written, copied and assigned, `R` with one that also arrives elsewhere.

## 3. Runs

| Run | States | Question |
|---|---|---|
| `server_safety` | 41 703 | Does any interleaving of accepts, failing I/O and re-entrant calls leave a dangling callback, an unfinished close, a leaked descriptor, a deleted object on the stack, a wrong close code, or a Stop that cannot progress? |
| `server_sessions` | 19 007 | Does the server implement `Sessions`, fairness included, and does `Stop` return? |
| `server_write_close` | violation | Is unregistering a pending write survivable? (finding 1) |
| `client_safety` | 14 280 | Is there at most one connection, do `state_` and `conn_` agree with it, and is every connect answered, when handlers stop, close and start again? |
| `client_restart` | violation | Is a second `Start` before the answer safe? (finding 2) |
| `pcqueue_wakeups` | 45 007 | Can a consumer be left asleep beside an item, except by a batch? |
| `once_safety` | 66 977 | Do racing, nested, throwing closures run once, with their effects visible to all who return; do racing `GetInstance` and `ShutDown` find one instance? |
| `conversions` | 2 312 013 | Do the parsers, encoders, pieces and paths agree with their reference definitions on every small input? |
| `files` | 1 067 660 | Does success of a function on files mean what it says, with short and failing calls and trees that change; do times keep the instant? |
| `objects` | 583 326 | Has everything one owner, one deletion after the last use, and contents that come back: references, closures, statuses, scopers, directories, pickles? |
| `progress` | 106 471 | Under each module's fairness: is the latch a gate and the queue a channel, do calls return, is garbage deleted? |
| `time_epoch` | violation | Does every `Time` count from 1970? (finding 3) |

Every property of a passing run has a *mutant* in `PROJECT.json`: a variant of a
mapped definition, written beside it and marked "Variant", that changes it as a
plausible bug would, and that TLC finds to violate the property. Type invariants
have no entry of their own: they are part of the inductive invariants
(`ServerInv`, `ClientInv`, `OnceInv`) or of the grouped properties.

### Bounds, and why they are enough

- **Two connections** (`Conn`): a close inside another connection's handler, a
  close inside another close's callback and the reuse of an address need two,
  and no step of the code relates three.
- **Descriptors 0 to 3**: the listener, both connections and one spare number
  fit, `accept()` can return 0 (which the code refuses), and numbers are reused.
- The **call stack** of the server needs no bound: it is as deep as connections
  can be closed inside each other. The client's can grow (a `Start` inside a
  `HandleClose` inside a failed `Start` ...) and is cut at `MaxDepth` = 6, which
  admits a failing restart inside a close inside a data handler.
- `ToggleWhileClosing`: a subclass that unregisters its endpoint *after a failed
  read* and before its handler returns resets `read_state_` from ERROR, so the
  close is then reported as OK: the information is gone by the code's own doing.
  `CloseCodeTruthful` is therefore checked, and proved, with this switched off;
  all properties of the client and the refinement of the server with it on.
  (`Sessions` allows an OK after a failure for this reason.) No run says more of
  that case: its hazard (`connection.cc:55`) is without a property.
- `StopInHandlers`: `Stop` under a data handler of an active connection turns for
  ever (the close is deferred until the handler returns, the loop waits for it).
  It is on for the safety run, which shows that this is the *only* way in which
  `Stop` does not progress, and off for the run that shows that `Stop` returns.
- **Queue**: three threads and batches of up to three, so that two can sleep
  while one batch arrives. In `progress` four threads (two sleepers, one
  awakened and overtaken by a fourth), two items, so that their order shows,
  and `MaxBatch` = 1: with larger batches the liveness of `Fifo` is false,
  because `EnqueueN` wakes one consumer for any number of items (see
  `NoLostWakeup`, which says exactly how far it fails). `MaxLen` limits what
  producers leave.
- **Latch**: four threads on a count of 2, so that two wait while others count
  below zero.
- **Once**: three threads, and three onces in a diamond (a needs b and c, b
  needs c), one level deeper than the repository's test. Two threads for
  liveness: waiting is between a worker and a spinner. `Singleton`: three
  callers, two calls of `ShutDown`.
- **References**: two threads, two variables, two objects: a race needs two
  threads, a cycle two objects, a swap two variables. `MaxUses` = 1 use that must
  be seen.
- **Closures**: two callbacks, two runners, two bind states, three frames: a
  closure that destroys the runner of the closure below it needs two frames, and
  something that runs meanwhile a third.
- **Scopers**: two threads on three descriptors and five files, so that a
  number closed by one thread is given to the other. **Directories**: two
  objects, two names that `mkdtemp` gives, one of them in a directory that
  others can remove (their proof is for any number). **Pickles**: two, of two
  header sizes, two items, with a capacity unit that makes the second item grow
  the block.
- **Files**: two processes where they race (locks, exclusive creation, transfers,
  appends, deletion, creation), one where only failures matter; one or two faults;
  sizes that make the loops go round twice.
- **Conversions**: alphabets with one character of each class that the code
  distinguishes, and texts long enough for each of its branches. Integers are
  narrowed (`IntMax` = 63, `Int32Max` = 7, `Npos` = 15), and the bases and digits of
  the `safe_strto` functions chosen such that both limits of both types are met
  exactly, exceeded by the product and exceeded by the sum: 63 is 70 in base 9,
  which 71 exceeds by its last digit, 127 is 71 in base 18. Dropping one of these
  tests, or moving it by one, is seen. The units of `Time` are 2 or 3 instead of
  1000 for the same reason. `UTF8Decode` is called on all prefixes of what was sent,
  the empty one included.

Symmetry (of connections, threads, names) is used in safety runs only. Deadlock
is checked except in the four runs whose parts really stop (a conversion ends
with its result, a call limit is reached): `conversions`, `files`, `objects`,
`progress`. A process that died of an assertion stutters in `Terminated`.

### Fairness

- Library code runs on (server: WF `StopLoop`, `OnConnectionClose`, SF
  `DeleteClosed`; client: WF `OnClose`): it is straight-line code of a running
  thread. SF and not WF for the part that runs after a handler, because the
  handler in between may enable and disable it.
- An application handler eventually returns, however much it calls (SF
  `ReturnStep`). This is an assumption on the application; the loop is useless
  without it.
- The kernel answers each connect and the loop delivers it (SF `OnConnect`).
- A runnable thread gets the processor and, in turn, the mutex (WF `Proceed`
  of queue and latch, WF `Step` of `Once` and `RefCounted`), and a process works
  on (WF `Work` of `FileUtil` and `DirTree`). Nothing is assumed about which
  sleeper a notification wakes, nor that spurious wakeups happen, nor that
  anybody calls anything, nor that the world stops changing a tree before its
  bound.

## 4. Proofs

All are for every value of the constants that the named assumptions allow: any
set of connections, any descriptors, any threads, items, counts, variables and
objects, any needs relation (cyclic ones too). The assumptions say that null
values are no members, sets that are counted are finite, bounds are naturals.

**Connection** (`ConnectionProofs`). None of the safety properties is inductive.
That the loop drops a callback in time depends on `read_state_` agreeing with the
loop (`RegistrationsKnown`); that a deferred close gets finished depends on
`can_close_connection_` being false exactly while the connection's handler is at
the bottom of the stack (`ClosabilityKnown`, `HandlersAtBottom`); that an object
is deleted once, and under nobody's feet, depends on the DISCONNECTED objects
being exactly those with one close frame (`CloseFramesMatch`); and the code at
the close on what the two states still know of a failure. `ConnInv` is the
conjunction. Theorem `ConnectionStep` says that every step of a connection keeps
it, *and* that it changes no more of what an owner knows than `StepEffect` says.
`StepEffect` is the interface: the owners' proofs use it and never open a
connection's action.

**Server** (`ServerProofs`). What is left are the server's own steps, `Start`,
`Stop`, accepting and `OnConnectionClose`, and that each property follows from
`ServerInv`. `ServerCloseCodes` needs `~ToggleWhileClosing`, for the reason given
under *Bounds*. `ServerImplementsSessions` is the safety part of the refinement:
`Spec => S!Spec`, step by step.

**Client** (`ClientProofs`). The same for the client, under
`~StartWhileConnecting`: finding 2 is what happens otherwise. `ClientInv` says in
addition that at most one connect or connection exists (`OneConnect`) and that
`state_` and `conn_` tell which (`StateKnown`). `StateKnown` excepts a process
that died of an assertion: `Stop` changes `state_` before the call that may
abort.

**PCQueue** (`PCQueueProofs`). The invariant is the type invariant and the
balance of `NoLostWakeup`: items in the queue do not outnumber awakened
consumers and surplus while somebody sleeps. The proof is arithmetic on the sizes
of the two sets of threads. `QueueImplementsFifo` shows that each step maps to a
step of `Fifo` or stutters. **CountDownLatch** (in `OnceProofs`). The same for the
latch: `LatchNoLostWakeup` and `LatchImplementsGate`.

**Once** (`OnceProofs`). `OnceInv` relates three things. The call stacks are in
order: every call below the innermost is a closure that waits for the call above
(`StacksMatch`). What threads see and onces publish is closed under `Needs`
(`SeenInv`), and a closure's thread sees the needs it has finished
(`ProgressInv`); so the effects are complete when the closure stores DONE. And
each once in execution has one frame at work on it, or threw (`WorkersInv`).

**Singleton** (in `OnceProofs`). On top of `OnceInv`: no other once is called
(`OnlyThisOnce`), and the pointer, the object made, what each caller returned and
who overlapped a `ShutDown` agree (`SingletonInv`). `SingletonOneInstance` is the
property `OneInstance`, which includes that a `GetInstance` that no `ShutDown`
overlaps and none preceded returns the living instance.

**Status** (`OwnershipProofs`). Pointers and States correspond one to one
(`StatusInv`); only then does writing or deleting one State leave the values of
all other statuses alone, which is `StatusImplementsValue`.

**RefCounted** (`OwnershipProofs`). `RefInv`: *a reference is always in one
hand*: in a variable or member, or with a thread that has counted it and not yet
stored it, or with one that has overwritten it and not yet released it
(`CountKnown`: the count is the number of these hands). What a thread still has
to do is one of few plans (`PlansKnown`), and what was done to an object is known
wherever one of its references is (`HoldsKnown`, `MemoryKnown`), so whoever
releases the last one knows it all. `RefsAlwaysSafe` follows: the counts are the
pointers that exist, nobody touches a deleted object, the destructor sees every
use, `HasOneRef` means what it says.

**Callback** (`OwnershipProofs`). `ClosureInv`: the count of a bind state is the
number of its holders and of the running frames with a copy
(`DestroyedWithTheLast`); a runner that is being destroyed still has the closure
it runs and is run by one frame only (`FramesKnown`), so that the frame's return
destroys the runner once; a runner that is not there holds nothing
(`RunnersKnown`); and what runners owe is what the living ones keep
(`RunsOnce`). `ClosuresAlwaysSafe` follows.

**ScopedFile** (`OwnershipProofs`). `ScopedInv`: what is open is in one *hand*: a
scoper that has not closed it yet, the reset it was handed to and that has yet to
store it, or the program; and what a hand has is still the file it was when the
hand got it (`InOneHand`). The second part needs the first: a number is given out
again only after its file was closed, and only the hand that has it closes it.
Each operation passes a descriptor from one hand to another, which is one of five
lemmas (`HandsOver`, `HandTakes`, ...). `ScopersAlwaysSafe` follows: a scoper
closes its own file only, and every open file has one owner. An interrupted
`close` that were repeated would break it (the mutant of `ScopersAreSafe`).

**File** (`FileProofs`). `FileInv`: every open descriptor of a process is that of
exactly one of its Files (`FileOfEach`); a description is counted once for each
descriptor that refers to it, and only its process has any (`DescriptionsCounted`);
who was granted a lock still holds it (`GrantedIsHeld`); what somebody claims to
have created exclusively is still what its name stands for (`CreatedIsNamed`). The
last two need the first two: closing any descriptor of a file drops the locks its
process has there, so `Close` and `Move` must be known to close what the File had
and nothing else. Opening needs two facts about finite sets: while a process has a
free descriptor there is a lowest one (`LowestIsFree`, by well-foundedness) and a
description that nobody refers to (`RoomForDescription`, by counting).
`FilesAlwaysOwned` follows, for any processes, names, inodes, modes, uses and
number of faults.

What is read and written is `TransferInv` on top of it: while a Read or Write is
under way (`UnderWay`), what its calls have moved so far is in a row from where it
began, and the position of its description, if it goes by that, is right behind.
`ReportsWhatMoved` alone is not inductive: that the next call goes on where the last
one ended, and not where another process or a `Seek` has put the position, follows
only because descriptions are one process's (`OwnDescription`, from
`DescriptionsCounted`) and a process that is in a call does nothing else. Pieces are
concatenated once, by what the longer sequence is at each index (`Follows`,
`RowGrows`), so no induction over them is needed. `TransfersReportWhatMoved` follows,
and `AppendsOnlyExtend` from what `Splice` does to bytes it is given the end of
(`SpliceIs`).

**ScopedTempDir** (`FileProofs`). `TempDirInv`: a directory that `mkdtemp` made is
in one hand, an object's, its taker's, or nobody's after a destructor that could
not delete it; in the temporary directory it exists as long as somebody has it;
and a name that `mkdtemp` has yet to give is nowhere (`HandKnown`). The last part
is what makes a new directory nobody else's, and that an object in the middle of a
call has no directory (in `TypeOK`) is what makes it the object's only one.
`NothingIsLeftBehind` follows, by counting hands, and `DirectoriesAreEstablishedOnce`,
for any objects and names and whatever other programs do to the directories that
callers name. A `Delete` that cleared `path_` after a failure would break the first,
a second `Set` that looked at the directory instead of `path_` the second.

**DirTree** (`FileProofs`). `DeleteInv`, for `DeleteFile`: whatever a traversal has
pending, listed or still to remove is `Within`, not behind a link; nothing that is
pending turns into a link, though it may go meanwhile; and the path that was given is
the last to be removed, so that when nothing is left to remove it is gone. Both
properties need the invariant: `DeletedIsGone` because the last step of a
traversal looks at an empty list only, `LinksAreNotFollowed` because it takes the
`lstat` of one step for the directory that is opened in a later one. They hold for any
tree (of the model's depth behind links: one level), any order of `readdir`, and any
number of callers that delete and measure while files come and go. Hypothesis of all
three: nobody calls `CreateDirectory` meanwhile, for which the code gives no promise;
another could make the path again between the last `rmdir` and the return.

**Pickle** (`BoundsProofs`). `PickleInv`, in three layers. *Blocks*
(`BlocksKnown`, `PickleKnown`): a pickle that writes has the block that it was
given, to itself, and the block is as large as header and capacity; payload and
header are within the words that are there; a pickle without the right to write is
on data of exactly its size, or has no header. *Contents* (`ContentsKnown`,
`ArrivalKnown`): the items of a pickle, or of data that arrived whole, follow each
other without gaps (`Contains`), each with its words, up to the payload size,
which is what the `PickleSizer` was told. *The iterator* (`IteratorKnown`): asked
for the items in order, it is where the next one begins. Writing grows the
contents at their end (`ContentsGrow`) and copying carries them to another block
(`ContentsCarry`), both by what the words of the block are afterwards; a read
moves the cursor by what `Advance` says for *any* length that is found in the data
(`Advances`), and so stays inside, whoever made the data. `PicklesAlwaysSafe` follows, for
any pickles, item sizes, header sizes, units and damage. The sizer is a variable, told
of each item as it is written, because a fold over the log would need induction.

**SafeInt** (`BoundsProofs`). The guards before the multiplication and before
the addition keep the value within the type, for every width, base and text.

The inductive invariants were checked by TLC before they were proved, and most
still are by a run: `ServerInv`, `ClientInv` and `OnceInv` are properties,
`RefInv`, `ClosureInv`, `ScopedInv`, `PickleInv` and `TempDirInv` are in
`OwnersAreUnique`, `FileInv` and `TransferInv` in `TransfersAreTrue`, `DeleteInv` in
`TreesAreTrue`, `SingletonInv` in none. `ExecutingHasWorker` is
proved and no property: `OnceInv` says it and more.

**Only model-checked.**
- Everything that is liveness, and ENABLED: `StopCompletes`, `ConnectAnswered`,
  `CallsReturn`, `GarbageIsDeleted`, and the fairness parts of `ImplementsFifo`,
  `ImplementsGate` and `ImplementsSessions`. The prover has no rules for them.
- What recursive functions over texts compute: `RangesReadBack`,
  `PathsFitTogether`, `TextsLikeStrings`, `EncodingsComeBack`,
  `NumbersReadExactly`. This takes induction over data, which the installed
  provers cannot do.
- `TimesKeepTheInstant`: divisions by parameters, which are not linear.
- The state machines whose invariants are not proved: `FileUtil` and its appends (the
  rest of `TransfersAreTrue`), and of `TreesAreTrue` the order in `TreeOK`,
  `QuietDeleteSucceeds`, `EnumeratesOnce`, `CreateSucceeds` and `DirReader`.

## 5. Findings

1. `server_write_close`. `CloseInternal` stores the bool of
   `EventLoop::UnregisterForWirte` in an int and demands that it be 0
   (`connection.cc:68-69`): closing a connection with a write pending aborts the
   process exactly if the loop did unregister it. `UnregisterEndpointForRead`,
   four lines above, takes true for success.
2. `client_restart`. `Client` declares CONNECTING and tests for it in `Stop`, but
   never enters it. A second `Start` while a connect is in flight is accepted,
   `conn_` is overwritten, and the close of the first connection deletes the
   second, open one, whose destructor check fails.
3. `time_epoch`. `Time::FromTimeT` adds the distance between 1601 and 1970
   (`time.cc:381`) where the other conversions do not, though `time.h:126-127`
   says that every `Time` counts microseconds since 1970. Times made from a
   `time_t`, and the times of files, cannot be compared with those of the clock.

The models also carry, without a run of their own, some behaviour a reader may
not expect: on Linux `SetSocketDefaults` refuses practically every socket (its
TCP_NODELAY test is inverted), so that the paths after it are reached only when
that call fails; `Stop` under a data handler never returns; `EnqueueN` wakes one
consumer for any number of items; a closure that throws leaves every later
caller of its once spinning; a `GetInstance` that overlaps a `ShutDown` may return
an instance that is deleted under it; a closure that is run in place with
`Callback::Run` and resets its own callback destroys its arguments while it uses
them (`ResetAndReturn` exists for this). `TextContentsEqual` trims its first line
twice and its second not at all (`file_util.cc:106`), so "ab" equals "abc" and "abc"
does not equal "ab"; `AcceptsEqualTexts` and `DifferencesAreTails` say what is left.
`UTF8Decode` reads its first byte even if `src_len` is 0, and returns it if it is
ASCII (`string_encode.cc:37`): the exception in `StaysInside`, and the history
`strayed`. `ParseDoubleRange` writes `*is_currency` only where `allow_currency` is set
(`numbers.cc:143`): otherwise the caller keeps what it had. Nothing in the build
defines `OS_POSIX`, so `HANDLE_EINTR` (`eintr_wrapper.h:62`) repeats nothing, and a
system call that a signal interrupts is a call that fails.

## 6. Not modelled

Components with status *not_modelled* in `PROJECT.json`, with the reason each:
network options and addresses, macros and locations. Within the modelled ones:
- `Server::Init`, which is declared (`server.h:53`) and defined nowhere;
- the misuse of `Start` and `Stop` that nothing in the code guards against (a
  second `Server::Start`, `Server::Stop` after a failed `Start`) is excluded,
  because it goes wrong at once; a `Client::Stop` during a pending connect does
  nothing in the code, and so is not an action; resolving addresses is reduced to
  success or failure; the contents of messages play no role;
- file functions that are one system call (moving, links, permissions, lengths),
  `CopyDirectory`, the pattern filter of `FileEnumerator`;
- the clocks, the formatting and the operators of `Time`; floating-point parsing,
  which is `strtod`; printf-style formatting, hashes, character tables;
- pickles with lengths over 2^31, and the capacity of a received buffer.

## 7. Plan

What could be proved next: that `DeleteFile` succeeds on a tree that nobody disturbs
(`DirTree`: the order in `TreeOK`, and that what is left of the tree is pending or to
be removed), and that calls of `FileUtil` append in order. `EachOnce` speaks of
filtered sequences and needs induction over them.

What should be modelled next: `CopyDirectory`, and the pattern filter of
`FileEnumerator`.

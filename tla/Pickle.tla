-------------------------------- MODULE Pickle ------------------------------
(***************************************************************************)
(* base::Pickle, PickleIterator and PickleSizer (base/pickle.h, pickle.cc, *)
(* and Align of base/bits.h).                                              *)
(*                                                                         *)
(* Memory is a set of blocks; a block has a size and the 4-byte words      *)
(* of header and payload: the rest of it is never read.  A word            *)
(* is the integer n, or the n-th word of an item that a pickle was given.  *)
(* Sizes and offsets are in bytes.  The buffers are data that came from    *)
(* elsewhere, such as a pickle that was sent, perhaps cut short or with    *)
(* another payload size in its header; a pickle built on one only reads.   *)
(* The application does not write to a pickle while an iterator is on it   *)
(* (one iterator at a time is looked at), and does not copy a pickle       *)
(* without a header.                                                       *)
(***************************************************************************)
EXTENDS Integers, Sequences, FiniteSetsExt

CONSTANTS Pickles, Buffers,  \* pickle objects, received buffers
          PodSizes, Lengths, \* sizes of the plain types, lengths of byte strings
          HeaderSizes,       \* of Pickle(int header_size)
          Unit, HeapAlign,   \* kPayloadUnit, kPickleHeapAlign
          WrongSizes,        \* payload sizes in damaged headers
          Cuts,              \* how many bytes of received data may be missing
          MaxItems           \* bound: items written to one pickle

PickleAssumption ==
    /\ Pickles \cap Buffers = {} /\ {"spare", "NULL"} \cap (Pickles \cup Buffers) = {}
    /\ PodSizes \subseteq {1, 2, 4, 8} /\ Lengths \subseteq Nat
    /\ HeaderSizes \subseteq {n \in Nat : n >= 4 /\ n <= Unit}
    /\ Unit \in Nat \ {0} /\ Unit % 4 = 0 /\ HeapAlign \in Nat \ {0} /\ HeapAlign % Unit = 0
    /\ WrongSizes \subseteq Nat /\ Cuts \subseteq Nat /\ MaxItems \in Nat

VARIABLES header,    \* header_: a block, a buffer or NULL
          headerSize, capacity, writeOffset,  \* the other members of a pickle
          mem,       \* per block and buffer, its words and its length in bytes
          iter,      \* the iterator under way: its pickle, read_index_, end_index_
          log,       \* history: the items a pickle should hold, and where they were written
          sizer,     \* payload_size_ of a PickleSizer that was told of the same items
          known,     \* history: is log to be relied on?  Not in damaged data, and not
                     \* after a write to a copy of a received pickle, which
                     \* overwrites the beginning
          last       \* history: the last read

pickleVars == <<header, headerSize, capacity, writeOffset, mem, iter, log, sizer, known, last>>
members    == <<header, headerSize, capacity, writeOffset>>
items      == <<log, sizer, known>>

-----------------------------------------------------------------------------
NULL     == "NULL"
ReadOnly == -1          \* kCapacityReadOnly
Heap     == Pickles \cup {"spare"}  \* a block for every pickle, and one more
Where    == Heap \cup Buffers

Align(n, a) == ((n + a - 1) \div a) * a
WordsIn(n)  == Align(n, 4) \div 4

Items == [kind : {"pod"}, size : PodSizes] \cup [kind : {"data"}, size : Lengths]

Number(n)     == [kind |-> "number", of |-> <<>>, n |-> n]
Word(name, i) == [kind |-> "value", of |-> name, n |-> i]

\* What writing an item appends; the value is named by its place in the log.
ValueWords(name, n) == [i \in 1..WordsIn(n) |-> Word(name, i)]
Image(it, name) == (IF it.kind = "data" THEN <<Number(it.size)>> ELSE <<>>) \o ValueWords(name, it.size)

\* PickleSizer: AddString and AddData are AddInt32 and AddBytes.
\* Variant: the length of a string is forgotten.
AddBytes(n)        == Align(n, 4)
SizerAddUnprefixed(it) == AddBytes(it.size)
SizerAdd(it)       == IF it.kind = "data" THEN AddBytes(4) + AddBytes(it.size) ELSE AddBytes(it.size)

NoBlock      == [words |-> <<>>, bytes |-> 0]
Raw(n)       == [i \in 1..n |-> Word(<<>>, 0)]
Field(b)     == mem[b].words[1].n
PayloadSize(p) == IF header[p] = NULL THEN 0 ELSE Field(header[p])
HasHeader(p) == header[p] # NULL
Writable(p)  == HasHeader(p) /\ capacity[p] # ReadOnly
NoIter       == [of |-> NULL, index |-> 0, end |-> 0, next |-> 0]
NoRead == [of |-> NULL, it |-> NULL, asked |-> 0, ok |-> FALSE, words |-> <<>>, from |-> 0, to |-> 0]
Exists(p)    == HasHeader(p) \/ capacity[p] = ReadOnly
Quiet        == iter = NoIter

\* malloc for a pickle whose header_ is NULL.
FreshBlock(p) == IF mem[p] = NoBlock THEN p ELSE "spare"

\* The words w written at byte offset at after the words s; what was there is
\* lost, with what follows it.
Put(s, at, w) == [i \in 1..at \div 4 |-> IF i <= Len(s) THEN s[i] ELSE Word(<<>>, 0)] \o w

\* The words of s from byte from to byte to, as far as there are any.
Bytes(s, from, to) == SubSeq(s, from \div 4 + 1, Min({Len(s), WordsIn(to)}))

\* The members that a constructor or an assignment sets.
SetMembers(p, b, hs, cap, offset) ==
    /\ header' = [header EXCEPT ![p] = b]
    /\ headerSize' = [headerSize EXCEPT ![p] = hs]
    /\ capacity' = [capacity EXCEPT ![p] = cap]
    /\ writeOffset' = [writeOffset EXCEPT ![p] = offset]
Holding(p, entries, size, sure) ==
    /\ log' = [log EXCEPT ![p] = entries] /\ sizer' = [sizer EXCEPT ![p] = size]
    /\ known' = [known EXCEPT ![p] = sure]

-----------------------------------------------------------------------------
\* Pickle() and Pickle(int header_size).
CreatePickle(p, size) ==
    LET hs == Align(size, 4)
        b  == FreshBlock(p) IN
    /\ ~Exists(p) /\ Quiet
    /\ SetMembers(p, b, hs, Unit, 0)
    /\ mem' = [mem EXCEPT ![b] = [words |-> <<Number(0)>> \o Raw((hs - 4) \div 4), bytes |-> hs + Unit]]
    /\ Holding(p, <<>>, 0, TRUE)
    /\ UNCHANGED <<iter, last>>

\* The header size that Pickle(data, data_len) computes, 0 if it makes no
\* sense.  Variant: the payload size in the header is believed.
HeaderUnchecked(len, field) == Align(IF len >= field THEN len - field ELSE 4, 4)
HeaderOver(len, field) ==
    IF len < 4 \/ field > len \/ (len - field) % 4 # 0 THEN 0 ELSE len - field

View(p, f) ==
    LET hs == IF mem[f].bytes < 4 THEN 0 ELSE HeaderOver(mem[f].bytes, Field(f)) IN
    /\ ~Exists(p) /\ Quiet
    /\ mem[f] # NoBlock
    /\ SetMembers(p, IF hs = 0 THEN NULL ELSE f, hs, ReadOnly, 0)
    /\ Holding(p, log[f], sizer[f], known[f])
    /\ UNCHANGED <<mem, iter, last>>

\* What is copied from a pickle: header and payload, no more.
DataOf(q) == Bytes(mem[header[q]].words, 0, headerSize[q] + PayloadSize(q))

\* Block b of p is resized, and the data of q copied into it.
CopyInto(p, b, q, offset) ==
    LET cap == Align(PayloadSize(q), Unit) IN
    /\ SetMembers(p, b, headerSize[q], cap, offset)
    /\ mem' = [mem EXCEPT ![b] = [words |-> DataOf(q), bytes |-> headerSize[q] + cap]]
    /\ Holding(p, log[q], sizer[q], known[q])
    /\ UNCHANGED <<iter, last>>

\* Pickle(const Pickle&).
CopyPickle(p, q) ==
    /\ ~Exists(p) /\ Quiet /\ HasHeader(q)
    /\ CopyInto(p, FreshBlock(p), q, writeOffset[q])

\* operator=.  A read-only pickle lets its buffer go; a block with a header of
\* another size is freed; what is left is resized.
\* Variants: the block with the other header is not freed; the write offset
\* stays what it was.
AssignLeaking(p, q) ==
    /\ p # q /\ HasHeader(q) /\ Exists(p) /\ Quiet
    /\ CopyInto(p, FreshBlock(p), q, writeOffset[q])
AssignKeepingOffset(p, q) ==
    /\ p # q /\ HasHeader(q) /\ Exists(p) /\ Quiet
    /\ CopyInto(p, IF Writable(p) THEN header[p] ELSE FreshBlock(p), q, writeOffset[p])
AssignPickle(p, q) ==
    /\ p # q /\ HasHeader(q) /\ Exists(p) /\ Quiet
    /\ CopyInto(p, IF Writable(p) THEN header[p] ELSE FreshBlock(p), q, writeOffset[q])

DestroyPickle(p) ==
    /\ Exists(p) /\ Quiet
    /\ SetMembers(p, NULL, 0, 0, 0)
    /\ mem' = IF Writable(p) THEN [mem EXCEPT ![header[p]] = NoBlock] ELSE mem
    /\ Holding(p, <<>>, 0, FALSE)
    /\ UNCHANGED <<iter, last>>

\* ClaimUninitializedBytesInternal: the capacity after a claim of n bytes.
\* Variant: no growth beyond the doubling.
GrownByDoubling(cap, need) == IF need > cap THEN Align(2 * cap, Unit) ELSE cap
Grown(cap, need) ==
    LET double  == 2 * cap
        rounded == IF double > HeapAlign THEN Align(double, HeapAlign) - Unit ELSE double
    IN IF need > cap THEN Align(Max({rounded, need}), Unit) ELSE cap

\* A claim for the words w, each padded to a word, and what WriteBytesCommon puts there.
Claim(s, hs, w) ==
    LET need == s.at + 4 * Len(w)
    IN  [at |-> need, cap |-> Grown(s.cap, need), words |-> Put(s.words, hs + s.at, w)]

\* The WriteXxx functions: one or two claims.
Written(s, hs, it, name) ==
    IF it.kind = "data" THEN Claim(Claim(s, hs, <<Number(it.size)>>), hs, ValueWords(name, it.size))
    ELSE Claim(s, hs, ValueWords(name, it.size))

WriteItem(p, it) ==
    LET name == <<p, Len(log[p]) + 1>>
        done == Written([at |-> writeOffset[p], cap |-> capacity[p], words |-> mem[header[p]].words],
                        headerSize[p], it, name)
    IN
    /\ Writable(p) /\ Quiet /\ Len(log[p]) < MaxItems
    /\ SetMembers(p, header[p], headerSize[p], done.cap, done.at)
    /\ mem' = [mem EXCEPT ![header[p]] = [words |-> [done.words EXCEPT ![1] = Number(done.at)],
                                          bytes |-> headerSize[p] + done.cap]]
    /\ Holding(p, Append(log[p], [it |-> it, name |-> name, at |-> writeOffset[p]]),
               sizer[p] + SizerAdd(it), known[p] /\ (writeOffset[p] = 0 => PayloadSize(p) = 0))
    /\ UNCHANGED <<iter, last>>

\* Reserve: room for n more bytes.
Reserve(p, n) ==
    LET need == writeOffset[p] + Align(n, 4)
        cap  == Align(2 * capacity[p] + need, Unit) IN
    /\ Writable(p) /\ Quiet /\ need > capacity[p]
    /\ SetMembers(p, header[p], headerSize[p], cap, writeOffset[p])
    /\ mem' = [mem EXCEPT ![header[p]].bytes = headerSize[p] + cap]
    /\ UNCHANGED <<iter, items, last>>

\* The data() of a pickle arrives somewhere else: n bytes of it, with the
\* payload size it had or another one.
Receive(f, p, n, field) ==
    /\ HasHeader(p) /\ mem[f] = NoBlock /\ Quiet
    /\ n \in 1..headerSize[p] + PayloadSize(p)
    /\ mem' = [mem EXCEPT ![f] = [words |-> [Bytes(DataOf(p), 0, n) EXCEPT ![1] = Number(field)],
                                  bytes |-> n]]
    /\ Holding(f, log[p], sizer[p],
               known[p] /\ n = headerSize[p] + PayloadSize(p) /\ field = PayloadSize(p))
    /\ UNCHANGED <<members, iter, last>>

-----------------------------------------------------------------------------
\* PickleIterator(pickle).
BeginReading(p) ==
    /\ Exists(p) /\ Quiet
    /\ iter' = [of |-> p, index |-> 0, end |-> PayloadSize(p), next |-> 1]
    /\ UNCHANGED <<members, mem, items, last>>

EndReading ==
    /\ ~Quiet
    /\ iter' = NoIter /\ last' = NoRead
    /\ UNCHANGED <<members, mem, items>>

\* GetReadPointerAndAdvance and Advance: a cursor [index, end] over n bytes;
\* ok says whether there were that many.
\* Variant: no clamp at the end.
AdvanceUnclamped(c, n) ==
    IF n < 0 \/ c.end - c.index < n THEN [c EXCEPT !.index = c.end, !.ok = FALSE]
    ELSE [c EXCEPT !.from = c.index, !.size = n, !.index = c.index + Align(n, 4), !.ok = TRUE]
Advance(c, n) ==
    IF n < 0 \/ c.end - c.index < n THEN [c EXCEPT !.index = c.end, !.ok = FALSE]
    ELSE [c EXCEPT !.from = c.index, !.size = n, !.ok = TRUE,
                   !.index = IF c.end - c.index < Align(n, 4) THEN c.end ELSE c.index + Align(n, 4)]

Cursor(p) == [index |-> iter.index, end |-> iter.end, ok |-> TRUE, from |-> 0, size |-> 0]

\* The words a cursor has just passed over.
Passed(p, c) == Bytes(mem[header[p]].words, headerSize[p] + c.from, headerSize[p] + c.from + c.size)

\* The integers that a word can be read as: any, if it was not one.
Numbers(w) == IF w.kind = "number" THEN {w.n} ELSE {-1, 0, 5, 1000}

\* Iterator p has moved to cursor c; the read was of an item like it.
Record(p, c, it, words) ==
    LET nth == iter.next IN
    /\ iter' = [iter EXCEPT !.index = c.index,
                            !.next = IF nth > 0 /\ nth <= Len(log[p]) /\ log[p][nth].it = it
                                        THEN nth + 1 ELSE 0]
    /\ last' = [of |-> p, it |-> it, asked |-> nth, ok |-> c.ok, words |-> words,
                from |-> c.from, to |-> c.from + c.size]
    /\ UNCHANGED <<members, mem, items>>

ReadPod(p, n) ==
    LET c == Advance(Cursor(p), n) IN
    /\ iter.of = p
    /\ Record(p, c, [kind |-> "pod", size |-> n], IF c.ok THEN Passed(p, c) ELSE <<>>)

\* ReadString, ReadStringPiece, ReadData: the length, then the bytes.
ReadData(p, it) ==
    LET c == Advance(Cursor(p), 4) IN
    /\ iter.of = p
    /\ \E n \in IF c.ok THEN Numbers(Passed(p, c)[1]) ELSE {0} :
          LET d == IF c.ok THEN Advance(c, n) ELSE c
          IN Record(p, d, it, IF d.ok THEN Passed(p, d) ELSE <<>>)

\* PeekNext and FindNext on n bytes that begin with a header of size hs:
\* where the next pickle begins, -1 if this one is not complete.
\* Variant: the payload alone is compared.
FindNextEarly(hs, field, n) == IF n < 4 \/ n < hs \/ field > n THEN -1 ELSE hs + field
FindNext(hs, field, n) ==
    IF n < 4 \/ n < hs \/ hs + field > n THEN -1 ELSE hs + field

PickleInit ==
    /\ header = [p \in Pickles |-> NULL] /\ headerSize = [p \in Pickles |-> 0]
    /\ capacity = [p \in Pickles |-> 0] /\ writeOffset = [p \in Pickles |-> 0]
    /\ mem = [b \in Where |-> NoBlock]
    /\ iter = NoIter /\ last = NoRead
    /\ log = [p \in Pickles \cup Buffers |-> <<>>] /\ sizer = [p \in Pickles \cup Buffers |-> 0]
    /\ known = [p \in Pickles \cup Buffers |-> FALSE]

PickleNext ==
    \E p \in Pickles :
       \/ \E size \in HeaderSizes : CreatePickle(p, size)
       \/ \E f \in Buffers : View(p, f)
       \/ \E q \in Pickles : CopyPickle(p, q) \/ AssignPickle(p, q)
       \/ DestroyPickle(p)
       \/ \E it \in Items : WriteItem(p, it)
       \/ \E n \in Lengths : Reserve(p, n)
       \/ \E f \in Buffers, cut \in Cuts, field \in WrongSizes \cup {PayloadSize(p)} :
             Receive(f, p, headerSize[p] + PayloadSize(p) - cut, field)
       \/ BeginReading(p) \/ EndReading
       \/ \E n \in PodSizes : ReadPod(p, n)
       \/ \E it \in {i \in Items : i.kind = "data"} : ReadData(p, it)

PickleSpec == PickleInit /\ [][PickleNext]_pickleVars

-----------------------------------------------------------------------------
\* Every block of the heap belongs to exactly one pickle, which can free it;
\* nobody holds a block that has been freed.
BlocksAreOwned ==
    /\ \A b \in Heap : mem[b] # NoBlock => \E p \in Pickles : header[p] = b /\ Writable(p)
    /\ \A p \in Pickles : Writable(p) => /\ header[p] \in Heap /\ mem[header[p]] # NoBlock
                                         /\ \A q \in Pickles \ {p} : header[q] # header[p]

\* A block holds header, payload and capacity, aligned as promised.
BlocksAreLargeEnough ==
    \A p \in Pickles : HasHeader(p) =>
       /\ headerSize[p] + PayloadSize(p) <= mem[header[p]].bytes
       /\ Writable(p) => /\ PayloadSize(p) <= capacity[p] /\ capacity[p] % Unit = 0
                         /\ writeOffset[p] <= PayloadSize(p)
                         /\ headerSize[p] + capacity[p] = mem[header[p]].bytes

\* No read, whatever was asked of whatever data, leaves the payload.
ReadsStayInside ==
    /\ iter.index <= iter.end
    /\ last.of # NULL => LET p == last.of IN
          last.ok => /\ last.from >= 0 /\ last.to <= iter.end
                     /\ headerSize[p] + last.to <= mem[header[p]].bytes

\* Reading back the items that were written, in order, gives their values and
\* never fails, and one read more fails: on the pickle itself, on its copies
\* and on the data as it arrived elsewhere.
RoundTrip ==
    LET p == last.of IN
    last.of # NULL /\ known[p] /\ last.asked > 0 =>
       IF last.asked > Len(log[p]) THEN ~last.ok
       ELSE LET w == log[p][last.asked] IN
            last.it = w.it => last.ok /\ last.words = ValueWords(w.name, w.it.size)

\* The payload size is what a PickleSizer fed with the same items computes.
SizerAgrees ==
    \A p \in Pickles : known[p] /\ HasHeader(p) => PayloadSize(p) = sizer[p]

\* FindNext finds the end of a pickle in a stream as soon as all of it, and
\* not before, has arrived.
FindNextSplits ==
    \A p \in Pickles : Writable(p) =>
       \A n \in 0..headerSize[p] + PayloadSize(p) + 8 :
          FindNext(headerSize[p], PayloadSize(p), n) =
             IF n >= headerSize[p] + PayloadSize(p) THEN headerSize[p] + PayloadSize(p) ELSE -1

\* pickle.h, pickle.cc: every block belongs to the one pickle that frees it and is large
\* enough; what is read is what was written; PickleSizer computes the payload size; a stream
\* is split where the pickles end; no read leaves the payload, whatever the data.
PicklesAreSafe == /\ BlocksAreOwned /\ BlocksAreLargeEnough /\ ReadsStayInside
                  /\ RoundTrip /\ SizerAgrees /\ FindNextSplits

-----------------------------------------------------------------------------
(* What makes this inductive.                                              *)

Words   == [kind : {"number", "value"}, of : {<<>>} \cup (Pickles \X Nat), n : Nat]
Entries == [it : Items, name : Pickles \X Nat, at : Nat]

PickleTypeOK ==
    /\ header \in [Pickles -> Where \cup {NULL}] /\ headerSize \in [Pickles -> Nat]
    /\ capacity \in [Pickles -> Nat \cup {ReadOnly}] /\ writeOffset \in [Pickles -> Nat]
    /\ mem \in [Where -> [words : Seq(Words), bytes : Nat]]
    /\ iter \in [of : Pickles \cup {NULL}, index : Nat, end : Nat, next : Nat]
    /\ log \in [Pickles \cup Buffers -> Seq(Entries)] /\ sizer \in [Pickles \cup Buffers -> Nat]
    /\ known \in [Pickles \cup Buffers -> BOOLEAN]

\* A pickle's own block is the one it was given; a block begins with the payload size,
\* and the words are in it; a buffer is full of them.
BlocksKnown ==
    /\ \A b \in Heap : mem[b] # NoBlock => b \in Pickles /\ header[b] = b /\ Writable(b)
    /\ \A b \in Where : mem[b] # NoBlock => /\ mem[b].words # <<>> /\ mem[b].words[1].kind = "number"
                                            /\ Len(mem[b].words) <= WordsIn(mem[b].bytes)
    /\ \A f \in Buffers : Len(mem[f].words) = WordsIn(mem[f].bytes)

\* A pickle is without a header; or has a block that it may write to, where
\* it goes on at the end, unless it is the copy of one that arrived; or is on a buffer.
PickleKnown(p) ==
    /\ HasHeader(p) => /\ headerSize[p] >= 4 /\ headerSize[p] % 4 = 0 /\ mem[header[p]] # NoBlock
                       /\ headerSize[p] + PayloadSize(p) <= 4 * Len(mem[header[p]].words)
    /\ Writable(p) => /\ header[p] = p /\ PayloadSize(p) <= capacity[p] /\ capacity[p] % Unit = 0
                      /\ writeOffset[p] \in {0, PayloadSize(p)} /\ writeOffset[p] % 4 = 0
                      /\ headerSize[p] + capacity[p] = mem[header[p]].bytes
    /\ HasHeader(p) /\ ~Writable(p) => /\ header[p] \in Buffers /\ writeOffset[p] = 0
                                       /\ headerSize[p] + PayloadSize(p) = mem[header[p]].bytes

\* Words s hold, after a header of size hs, the entries l, of size bytes altogether.
Contains(s, hs, l, size) ==
    /\ hs + size <= 4 * Len(s) /\ size % 4 = 0
    /\ IF l = <<>> THEN size = 0 ELSE l[1].at = 0
    /\ \A k \in 1..Len(l) :
         /\ l[k].at % 4 = 0 /\ l[k].at + SizerAdd(l[k].it) <= size
         /\ l[k].at + SizerAdd(l[k].it) = (IF k = Len(l) THEN size ELSE l[k + 1].at)
         /\ \A j \in 1..Len(Image(l[k].it, l[k].name)) :
               s[(hs + l[k].at) \div 4 + j] = Image(l[k].it, l[k].name)[j]

ContentsKnown(p) ==
    known[p] => /\ HasHeader(p) /\ PayloadSize(p) = sizer[p]
                /\ Contains(mem[header[p]].words, headerSize[p], log[p], sizer[p])
ArrivalKnown(f) ==
    known[f] => LET hs == mem[f].bytes - sizer[f] IN
                /\ mem[f] # NoBlock /\ Field(f) = sizer[f] /\ hs >= 4 /\ hs % 4 = 0
                /\ Contains(mem[f].words, hs, log[f], sizer[f])

\* Where item k begins, or would.
Begins(p, k) == IF k <= Len(log[p]) THEN log[p][k].at ELSE sizer[p]

\* An iterator that was asked for the items so far is where the next begins.
IteratorKnown ==
    IF iter.of = NULL THEN iter = NoIter /\ last = NoRead
    ELSE LET p == iter.of IN
         /\ last = NoRead \/ last.of = p
         /\ iter.index <= iter.end /\ iter.end = PayloadSize(p)
         /\ known[p] /\ iter.next > 0 => /\ iter.next <= Len(log[p]) + 1
                                         /\ iter.index = Begins(p, iter.next)

PickleInv == /\ PickleTypeOK /\ BlocksKnown /\ IteratorKnown /\ ReadsStayInside /\ RoundTrip
             /\ \A p \in Pickles : PickleKnown(p) /\ ContentsKnown(p)
             /\ \A f \in Buffers : ArrivalKnown(f)
=============================================================================

---------------------------- MODULE LeadingNumbers ---------------------------
(***************************************************************************)
(* The parsers of src/base/numbers.cc that read a number off the front of  *)
(* a text with the C library: strto32_adapter, strtou32_adapter, the       *)
(* ParseLeading functions, and ConsumeStrayLeadingZeroes.  A character is  *)
(* its ASCII code, a type is the record of its limits.  The model is of    *)
(* the platforms where long is wider than 32 bits, as the code is.         *)
(***************************************************************************)
EXTENDS Integers, Sequences, FiniteSetsExt

CONSTANTS Texts,      \* the texts read
          Bases,      \* bases given to the adapters
          Errnos,     \* values of errno before a call
          Int32Max, LongMax

WidthAssumption == Int32Max \in Nat /\ LongMax \in Nat /\ LongMax > 2 * Int32Max + 1

VARIABLES input, base, errno,   \* of the call
          deflt,                \* the default of the call
          fn,                   \* the function called, "none" before
          out                   \* what it returned

vars == <<input, base, errno, deflt, fn, out>>
call == <<input, base, deflt>>

SignedType(max) == [min |-> -max - 1, max |-> max]
UnsignedType(max) == [min |-> 0, max |-> 2 * max + 1]

Int32 == SignedType(Int32Max)
Uint32 == UnsignedType(Int32Max)
Long == SignedType(LongMax)
Ulong == UnsignedType(LongMax)

Fits(n, type) == n >= type.min /\ n <= type.max
Clamp(n, type) == IF n > type.max THEN type.max ELSE IF n < type.min THEN type.min ELSE n
Cast(n, type) == n % (type.max + 1)  \* to an unsigned type

ERANGE == 34
Space == 9..13 \cup {32}
Minus == 45
Zero == 48

Digit(c) == CASE c >= 48 /\ c <= 57 -> c - 48
              [] c >= 97 /\ c <= 122 -> c - 87
              [] c >= 65 /\ c <= 90 -> c - 55
              [] OTHER -> 36

\* The length of the longest prefix of s in the set.
Run(s, set) == Max({n \in 0..Len(s) : \A i \in 1..n : s[i] \in set})

From(s, n) == SubSeq(s, n + 1, Len(s))

-----------------------------------------------------------------------------
(* strtol(3) and its family.                                               *)

DigitsIn(s, i, radix) ==
    Max({n \in 0..Len(s) - i : \A k \in 1..n : Digit(s[i + k]) < radix})

\* The number in the n digits behind the first i characters.
Magnitude(s, i, n, radix) ==
    LET m[k \in 0..n] == IF k = 0 THEN 0 ELSE m[k - 1] * radix + Digit(s[i + k])
    IN  m[n]

HexAt(s, b, i) == /\ b \in {0, 16} /\ Len(s) >= i + 3
                  /\ s[i + 1] = Zero /\ s[i + 2] \in {88, 120} /\ Digit(s[i + 3]) < 16
RadixAt(s, b, i) == IF b # 0 THEN b ELSE IF Len(s) > i /\ s[i + 1] = Zero THEN 8 ELSE 10
SignAt(s, i) == Len(s) > i /\ s[i + 1] \in {43, Minus}

Numeral(s, i, n, radix, minus) ==
    [end |-> IF n = 0 THEN 0 ELSE i + n, minus |-> minus, size |-> Magnitude(s, i, n, radix)]
Prefixed(s, b, i, minus) ==
    IF HexAt(s, b, i) THEN Numeral(s, i + 2, DigitsIn(s, i + 2, 16), 16, minus)
    ELSE Numeral(s, i, DigitsIn(s, i, RadixAt(s, b, i)), RadixAt(s, b, i), minus)
Signed(s, b, i) == IF SignAt(s, i) THEN Prefixed(s, b, i + 1, s[i + 1] = Minus)
                                   ELSE Prefixed(s, b, i, FALSE)

\* What there is to convert: end is the number of characters used, 0 for none.
Scan(s, b) == Signed(s, b, Run(s, Space))

Negated(scan) == IF scan.minus THEN -scan.size ELSE scan.size
InRange(n, end, type, saved) ==
    [value |-> Clamp(n, type), end |-> end, errno |-> IF Fits(n, type) THEN saved ELSE ERANGE]
\* A minus sign negates modulo 2^width.
Wrapped(scan, type, saved) ==
    [value |-> IF scan.size > type.max THEN type.max ELSE Cast(Negated(scan), type),
     end |-> scan.end,
     errno |-> IF scan.size > type.max THEN ERANGE ELSE saved]

StrtolOf(scan, type, saved) == InRange(Negated(scan), scan.end, type, saved)
Strtol(s, b, type, saved) == StrtolOf(Scan(s, b), type, saved)
Strtoul(s, b, type, saved) == Wrapped(Scan(s, b), type, saved)

-----------------------------------------------------------------------------
(* The adapters: r is what the wider function of the C library returned.   *)

Restored(r, saved) == [r EXCEPT !.errno = IF @ = 0 THEN saved ELSE @]

NarrowedQuietly(r, saved) == [Restored(r, saved) EXCEPT !.value = Clamp(@, Int32)]

Narrowed(r, saved) ==
    CASE r.errno = ERANGE /\ r.value = Long.min -> [r EXCEPT !.value = Int32.min]
      [] r.errno = ERANGE /\ r.value = Long.max -> [r EXCEPT !.value = Int32.max]
      [] r.errno = 0 /\ ~Fits(r.value, Int32) ->
           [r EXCEPT !.value = Clamp(@, Int32), !.errno = ERANGE]
      [] OTHER -> Restored(r, saved)

NarrowedUnsigned(r, saved) ==
    CASE r.errno = ERANGE /\ r.value = Ulong.max -> [r EXCEPT !.value = Uint32.max]
      [] r.errno = 0 /\ r.value > Uint32.max ->
           [r EXCEPT !.value = Uint32.max, !.errno = ERANGE]
      [] OTHER -> Restored(r, saved)

strto32_adapter(s, b, saved) == Narrowed(Strtol(s, b, Long, 0), saved)
strtou32_adapter(s, b, saved) == NarrowedUnsigned(Strtoul(s, b, Ulong, 0), saved)

-----------------------------------------------------------------------------
(* ParseLeading*Value: b is 0, 10 or 16 by the function's name.            *)

AsInt32Unclamped(n) == n
AsInt32(n) == Clamp(n, Int32)
AsUInt32Low(n) == IF n > Uint32.max THEN Uint32.max ELSE Cast(n, Uint32)
AsUInt32(n) == IF n > Uint32.max \/ n < -Uint32.max THEN Uint32.max ELSE Cast(n, Uint32)
OrDefault(r, value, d) == IF r.end = 0 THEN d ELSE value

\* r is what strtol or strtoul returned.
Int32From(r, d) == OrDefault(r, AsInt32(r.value), d)
UInt32From(r, d) == OrDefault(r, AsUInt32(r.value), d)

ParseLeadingInt32Value(s, b, d) == Int32From(Strtol(s, b, Long, 0), d)
ParseLeadingUInt32Value(s, b, d) == UInt32From(Strtol(s, b, Long, 0), d)

kMaxLen == 5
Lower(c) == IF c \in 65..90 THEN c + 32 ELSE c
Alnum == 48..57 \cup 65..90 \cup 97..122

Lowered(s, n) == [i \in 1..n |-> Lower(s[i])]
Word(s) == From(s, Run(s, Space))
CopiedShort(word) == Lowered(word, Min({Run(word, Alnum), kMaxLen}))

\* The characters copied to the array value: one more than fits a word at most.
Copied(word) == Lowered(word, Min({Run(word, Alnum), kMaxLen + 1}))

No == {<<48>>, <<110>>, <<110, 111>>, <<102, 97, 108, 115, 101>>}      \* 0 n no false
Yes == {<<49>>, <<121>>, <<121, 101, 115>>, <<116, 114, 117, 101>>}    \* 1 y yes true

Truth(word, d) == IF word \in No THEN FALSE ELSE IF word \in Yes THEN TRUE ELSE d
BoolFrom(copied, d) == IF Len(copied) \in {0, kMaxLen + 1} THEN d ELSE Truth(copied, d)
ParseLeadingBoolValue(s, d) == BoolFrom(Copied(Word(s)), d)

StrayNumber(s, zeroes) == zeroes
Stray(s, zeroes) == IF zeroes = Len(s) THEN zeroes - 1 ELSE zeroes

ConsumeStrayLeadingZeroes(s) ==
    IF Len(s) > 1 /\ s[1] = Zero THEN From(s, Stray(s, Run(s, {Zero}))) ELSE s

-----------------------------------------------------------------------------
Init == /\ input \in Texts /\ base \in Bases /\ errno \in Errnos
        /\ deflt \in {0, Int32Max} /\ fn = "none" /\ out = 0

Returns(f, result, after) ==
    fn = "none" /\ fn' = f /\ out' = result /\ errno' = after /\ UNCHANGED call

\* The adapters return errno too.
Adapted(f, r) == Returns(f, r, r.errno)
CallStrto32 == Adapted("strto32", strto32_adapter(input, base, errno))
CallStrtou32 == Adapted("strtou32", strtou32_adapter(input, base, errno))

\* The others leave in errno what the C library leaves there.
After(type) == Strtol(input, base, type, errno).errno
UnsignedAfter(type) == Strtoul(input, base, type, errno).errno

CallInt32 == Returns("Int32", ParseLeadingInt32Value(input, base, deflt), After(Long))
CallUInt32 == Returns("UInt32", ParseLeadingUInt32Value(input, base, deflt), After(Long))
ParseInt64(r) == Returns("Int64", OrDefault(r, r.value, deflt), After(Long))
ParseUInt64(r) == Returns("UInt64", OrDefault(r, r.value, deflt), UnsignedAfter(Ulong))
CallInt64 == ParseInt64(Strtol(input, base, Long, 0))
CallUInt64 == ParseUInt64(Strtoul(input, base, Ulong, 0))
CallBool == Returns("Bool", ParseLeadingBoolValue(input, deflt # 0), errno)
CallConsume == Returns("Consume", ConsumeStrayLeadingZeroes(input), errno)

Next == \/ CallStrto32 \/ CallStrtou32 \/ CallInt32 \/ CallUInt32
        \/ CallInt64 \/ CallUInt64 \/ CallBool \/ CallConsume

Spec == Init /\ [][Next]_vars

-----------------------------------------------------------------------------
TypeOK == /\ fn = "Int32" => Fits(out, Int32)
          /\ fn = "UInt32" => Fits(out, Uint32)
          /\ fn = "Int64" => Fits(out, Long)
          /\ fn = "UInt64" => Fits(out, Ulong)
          /\ fn = "Bool" => out \in BOOLEAN

\* The adapters make up for a long of more than 32 bits: value, end and errno are those of
\* a strtol and strtoul of 32 bits (numbers.h:23-36), with one exception that the code has:
\* strtou32_adapter takes a number with a minus sign for one out of range.
AdaptersLikeNativeStep ==
    /\ fn' = "strto32" => out' = Strtol(input, base, Int32, errno)
    /\ fn' = "strtou32" /\ ~Scan(input, base).minus =>
         out' = Strtoul(input, base, Uint32, errno)
AdaptersLikeNative == [][AdaptersLikeNativeStep]_vars

\* ParseLeadingUInt32Value and its siblings return what their own first branch, for a
\* long of 32 bits, returns (numbers.cc:276-279, 307-310): also for negative numbers.
LeadingLikeNative ==
    /\ fn = "Int32" => out = OrDefault(Scan(input, base), Strtol(input, base, Int32, 0).value, deflt)
    /\ fn = "UInt32" =>
         out = OrDefault(Scan(input, base), Strtoul(input, base, Uint32, 0).value, deflt)

\* A truth value is read from the whole word at the front: a text whose word goes on after
\* "yes" or "false" is not taken for one, however long it is.
WholeWord(text) == Lowered(text, Run(text, Alnum))
BoolReadsAWord == fn = "Bool" => out = Truth(WholeWord(Word(input)), deflt # 0)

\* Only zeroes are taken off the front, all of them, and never the last digit.
ZeroesKeepTheNumber ==
    fn = "Consume" =>
      /\ \E n \in 0..Len(input) : out = From(input, n) /\ \A i \in 1..n : input[i] = Zero
      /\ Len(out) > 1 => out[1] # Zero
      /\ input # <<>> => out # <<>>
=============================================================================

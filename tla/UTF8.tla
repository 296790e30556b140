--------------------------------- MODULE UTF8 --------------------------------
(***************************************************************************)
(* UTF8Encode and UTF8Decode (src/base/string_encode.cc).  Values are      *)
(* encoded one after the other into a buffer while there is room; the      *)
(* bytes are decoded at the other end, where only some of them may have    *)
(* arrived yet, and the tail may be lost.  Or the bytes decoded are        *)
(* anybody's.                                                              *)
(***************************************************************************)
EXTENDS Integers, SequencesExt

CONSTANTS Values,    \* values encoded
          Rooms,     \* sizes of the buffer
          Foreign,   \* bytes that nobody here encoded
          Beyond,    \* bytes that may lie where nothing has arrived yet
          MaxValues  \* bound: values encoded

VARIABLES bytes,     \* encoded and not yet decoded
          room,      \* what is left of the buffer
          sent, got, \* the values encoded and decoded
          whole,     \* nothing was lost and nothing is foreign
          taken,     \* what the last call of UTF8Decode returned, and its src_len
          strayed    \* history: a call of UTF8Decode with src_len = 0 returned a value

vars == <<bytes, room, sent, got, whole, taken, strayed>>

Take(s, n) == SubSeq(s, 1, n)
Drop(s, n) == SubSeq(s, n + 1, Len(s))

-----------------------------------------------------------------------------
Shift(value, n) == value \div 64^n          \* value >> 6n
Low6(value) == value % 64                   \* value & 0x3F
Continuation(b) == b \in 128..191           \* (b & 0xC0) == 0x80

\* Variant: the low bits come first.
BytesReversed(mark, value, n) ==
    <<mark + Shift(value, n - 1)>> \o [i \in 1..n - 1 |-> 128 + Low6(Shift(value, i - 1))]
\* n bytes, the first marked with their number.
Bytes(mark, value, n) ==
    <<mark + Shift(value, n - 1)>> \o [i \in 1..n - 1 |-> 128 + Low6(Shift(value, n - 1 - i))]

\* Variant: one byte of room is taken to be enough for two.
UTF8EncodeLoose(value, buf_len) ==
    IF value <= 127 /\ buf_len >= 1 THEN Bytes(0, value, 1)
    ELSE IF value <= 2047 /\ buf_len >= 1 THEN Bytes(192, value, 2)
    ELSE IF value <= 65535 /\ buf_len >= 3 THEN Bytes(224, value, 3)
    ELSE IF value <= 2097151 /\ buf_len >= 4 THEN Bytes(240, value, 4)
    ELSE <<>>
\* What is written to the buffer; its length is what is returned.
UTF8Encode(value, buf_len) ==
    IF value <= 127 /\ buf_len >= 1 THEN Bytes(0, value, 1)
    ELSE IF value <= 2047 /\ buf_len >= 2 THEN Bytes(192, value, 2)
    ELSE IF value <= 65535 /\ buf_len >= 3 THEN Bytes(224, value, 3)
    ELSE IF value <= 2097151 /\ buf_len >= 4 THEN Bytes(240, value, 4)
    ELSE <<>>

\* The value of n bytes, of the first of which the lowest bits count.
Value(s, n, lead) ==
    FoldLeft(LAMBDA v, b : v * 64 + Low6(b), lead, SubSeq(s, 2, n))

\* Variant: lengths are not looked at (what lies beyond is taken for zeroes).
UTF8DecodeBeyond(s, src_len) ==
    LET t == s \o <<0, 0, 0>>
    IN  CASE s[1] < 128 -> [used |-> 1, value |-> s[1]]
          [] s[1] \in 192..223 -> [used |-> 2, value |-> Value(t, 2, s[1] % 32)]
          [] s[1] \in 224..239 -> [used |-> 3, value |-> Value(t, 3, s[1] % 16)]
          [] src_len >= 4 /\ s[1] \in 240..247 -> [used |-> 4, value |-> Value(s, 4, s[1] % 8)]
          [] OTHER -> [used |-> 0, value |-> 0]
\* Variant: src_len is taken for the last position.
UTF8DecodeLate(s, src_len) ==
    LET follows(n) == src_len > n /\ Continuation(s[n])
        fails == [used |-> 0, value |-> 0]
    IN  IF s[1] < 128 THEN [used |-> 1, value |-> s[1]]
        ELSE IF follows(2) /\ s[1] \in 192..223 THEN [used |-> 2, value |-> Value(s, 2, s[1] % 32)]
        ELSE fails
\* Variant: the fifth bit of the first byte is not looked at.
UTF8DecodeWide(s, src_len) ==
    LET follows(n) == src_len >= n /\ Continuation(s[n])
    IN  IF s[1] >= 240 /\ \A n \in 2..4 : follows(n) THEN [used |-> 4, value |-> Value(s, 4, s[1] % 16)]
        ELSE [used |-> 0, value |-> 0]
\* used = 0: no value.  The first byte is read whatever src_len is.
UTF8Decode(s, src_len) ==
    LET follows(n) == src_len >= n /\ Continuation(s[n])
        fails == [used |-> 0, value |-> 0]
    IN  IF s[1] < 128 THEN [used |-> 1, value |-> s[1]]
        ELSE IF ~follows(2) THEN fails
        ELSE IF s[1] \in 192..223 THEN [used |-> 2, value |-> Value(s, 2, s[1] % 32)]
        ELSE IF ~follows(3) THEN fails
        ELSE IF s[1] \in 224..239 THEN [used |-> 3, value |-> Value(s, 3, s[1] % 16)]
        ELSE IF ~follows(4) THEN fails
        ELSE IF s[1] \in 240..247 THEN [used |-> 4, value |-> Value(s, 4, s[1] % 8)]
        ELSE fails

-----------------------------------------------------------------------------
Init ==
    /\ sent = <<>> /\ got = <<>> /\ taken = [used |-> 0, value |-> 0, src_len |-> 0]
    /\ strayed = FALSE
    /\ \/ bytes = <<>> /\ room \in Rooms /\ whole = TRUE
       \/ bytes \in Foreign /\ room = 0 /\ whole = FALSE

Encode(v) ==
    LET e == UTF8Encode(v, room)
    IN  /\ whole /\ Len(sent) < MaxValues /\ got = <<>>
        /\ bytes' = bytes \o e /\ room' = room - Len(e)
        /\ sent' = IF e = <<>> THEN sent ELSE Append(sent, v)
        /\ UNCHANGED <<got, whole, taken, strayed>>

\* src_len bytes have arrived, and s is what lies there; the caller moves on by what is
\* returned.
Decode(s, src_len) ==
    LET r == UTF8Decode(s, src_len)
    IN  /\ bytes' = Drop(bytes, r.used)
        /\ got' = IF r.used = 0 THEN got ELSE Append(got, r.value)
        /\ taken' = [used |-> r.used, value |-> r.value, src_len |-> src_len]
        /\ strayed' = (strayed \/ (src_len = 0 /\ r.used > 0))
        /\ UNCHANGED <<room, sent, whole>>

\* The last byte does not arrive.
Lose ==
    /\ bytes # <<>> /\ sent # <<>>
    /\ bytes' = Front(bytes) /\ whole' = FALSE
    /\ UNCHANGED <<room, sent, got, taken, strayed>>

\* Bound: a caller strays once.
Next == \/ \E v \in Values : Encode(v)
        \/ \E n \in 1..Len(bytes) : Decode(Take(bytes, n), n)
        \/ ~strayed /\ \E b \in Beyond : Decode(<<b>>, 0)
        \/ Lose

Spec == Init /\ [][Next]_vars

-----------------------------------------------------------------------------
\* Encoding never writes past the buffer, and decoding never takes more than has arrived,
\* with one exception: where nothing has arrived the first byte is read all the same, and
\* returned if it is ASCII (string_encode.cc:37-40).
StaysInside ==
    /\ room >= 0
    /\ taken.used <= IF taken.src_len = 0 THEN 1 ELSE taken.src_len

\* However the bytes arrive, in parts, and the last ones never, the values decoded are
\* the values encoded, in order: no beginning of an encoding is taken for another value.
\* A caller that asked for a value where nothing had arrived may have got one (strayed).
DecodesWhatWasEncoded == sent # <<>> /\ ~strayed => IsPrefix(got, sent)

\* What was encoded and has arrived can be decoded: no byte is left.
NothingIsLeft ==
    whole /\ ~strayed /\ bytes # <<>> => UTF8Decode(bytes, Len(bytes)).used > 0

\* What is decoded from any bytes is a value that UTF8Encode can encode, in no more bytes.
\* It may be fewer: overlong forms are decoded.
DecodesEncodable ==
    taken.used > 0 =>
      LET e == UTF8Encode(taken.value, 4)
      IN  Len(e) \in 1..taken.used /\ UTF8Decode(e, Len(e)).value = taken.value

\* Encodings sort like the values, byte by byte: that is what UTF-8 is for.
SortsLikeValues ==
    \A i, j \in DOMAIN sent : sent[i] < sent[j] =>
      LET a == UTF8Encode(sent[i], 4)
          b == UTF8Encode(sent[j], 4)
      IN  \E k \in DOMAIN a \cap DOMAIN b : Take(a, k - 1) = Take(b, k - 1) /\ a[k] < b[k]
=============================================================================

------------------------------- MODULE HexCode -------------------------------
(***************************************************************************)
(* HexEncode and HexDecode (src/base/string_encode.cc), with and without a *)
(* delimiter, into a caller's buffer or into a string.  Bytes and          *)
(* characters are numbers; delimiter 0 stands for none, as in the code.    *)
(* What a failed DCHECK leads to is the result "abort".                    *)
(***************************************************************************)
EXTENDS Integers, Bitwise, SequencesExt

CONSTANTS Sources,     \* bytes to encode
          Texts,       \* characters to decode that nobody here encoded
          Delimiters, Rooms

VARIABLES source,      \* the bytes encoded, or <<>> if there are none
          delimiter,
          room,        \* buf_len of the last call
          result,      \* [length, out, wrote]: returned, and written to the buffer
          text,        \* the characters encoded, or somebody's
          back,        \* the bytes decoded
          fn           \* the last call

vars == <<source, delimiter, room, result, text, back, fn>>

Nothing == [length |-> 0, out |-> <<>>, wrote |-> 0]
Aborts == [length |-> -1, out |-> <<>>, wrote |-> 0]

-----------------------------------------------------------------------------
HexEncodeDigit(v) == IF v < 10 THEN 48 + v ELSE 55 + v

\* Letters after F are digits too, of values up to 35; -1 for what is no digit.
\* Variant: lower-case letters count from 0.
HexDecodeDigitLow(ch) ==
    IF ch \in 48..57 THEN ch - 48
    ELSE IF ch \in 65..90 THEN ch - 55
    ELSE IF ch \in 97..122 THEN ch - 97
    ELSE -1
HexDecodeDigit(ch) ==
    IF ch \in 48..57 THEN ch - 48
    ELSE IF ch \in 65..90 THEN ch - 55
    ELSE IF ch \in 97..122 THEN ch - 87
    ELSE -1

-----------------------------------------------------------------------------
(* Encoding.  The terminator is written after what is returned.            *)

Needed(n, delim) == IF delim # 0 THEN 3 * n ELSE 2 * n + 1
\* Variant: no room for the terminator.
NeededBare(n, delim) == IF delim # 0 THEN 3 * n - 1 ELSE 2 * n

\* Variant: a delimiter after the last byte, too.
PairEach(src, i, delim) ==
    <<HexEncodeDigit(src[i] \div 16), HexEncodeDigit(src[i] % 16)>>
    \o (IF delim # 0 THEN <<delim>> ELSE <<>>)
Pair(src, i, delim) ==
    <<HexEncodeDigit(src[i] \div 16), HexEncodeDigit(src[i] % 16)>>
    \o (IF delim # 0 /\ i < Len(src) THEN <<delim>> ELSE <<>>)

HexEncodeTight(src, delim, buf_len) ==
    LET chars == FlattenSeq([i \in DOMAIN src |-> Pair(src, i, delim)])
    IN  IF buf_len = 0 \/ buf_len < NeededBare(Len(src), delim) THEN Nothing
        ELSE [length |-> Len(chars), out |-> chars, wrote |-> Len(chars) + 1]
HexEncodeWithDelimiter(src, delim, buf_len) ==
    LET chars == FlattenSeq([i \in DOMAIN src |-> Pair(src, i, delim)])
    IN  IF buf_len = 0 \/ buf_len < Needed(Len(src), delim) THEN Nothing
        ELSE [length |-> Len(chars), out |-> chars, wrote |-> Len(chars) + 1]

\* The function that returns a string has a buffer of its own, of kBufferSize.
\* Variant: as large as the text without a delimiter.
HexEncodeStringSmall(src, delim) ==
    LET r == HexEncodeWithDelimiter(src, delim, 2 * Len(src))
    IN  IF src = <<>> \/ r.length > 0 THEN r ELSE Aborts
HexEncodeString(src, delim) ==
    LET r == HexEncodeWithDelimiter(src, delim, 3 * Len(src))
    IN  IF src = <<>> \/ r.length > 0 THEN r ELSE Aborts

-----------------------------------------------------------------------------
(* Decoding.                                                               *)

\* One turn of the loop, from position p of the text (which counts from 1).  A single
\* character that is left is never skipped and fails the turn after.
Turn(s, delim, acc, p) ==
    LET left == Len(s) - p + 1
        h1 == HexDecodeDigit(s[p])
        h2 == HexDecodeDigit(s[p + 1])
        put == [acc EXCEPT !.out = Append(@, ((h1 * 16) | h2) % 256)]
    IN  IF ~acc.ok THEN acc
        ELSE IF left < 2 \/ h1 = -1 \/ h2 = -1 THEN [acc EXCEPT !.ok = FALSE]
        ELSE [put EXCEPT !.ok = delim = 0 \/ left = 2 \/ (left > 3 /\ s[p + 2] = delim)]

\* The positions where turns begin.
Starts(s, delim) == LET step == IF delim = 0 THEN 2 ELSE 3
                    IN  [k \in 1..(Len(s) + step - 1) \div step |-> (k - 1) * step + 1]

HexDecodeWithDelimiter(s, delim, buf_len) ==
    LET needed == IF delim # 0 THEN (Len(s) + 1) \div 3 ELSE Len(s) \div 2
        end == FoldLeft(LAMBDA acc, p : Turn(s, delim, acc, p),
                        [ok |-> TRUE, out |-> <<>>], Starts(s, delim))
    IN  IF buf_len = 0 \/ buf_len < needed THEN Nothing
        ELSE [length |-> IF end.ok THEN Len(end.out) ELSE 0,
              out |-> IF end.ok THEN end.out ELSE <<>>, wrote |-> Len(end.out)]

HexDecodeString(s) ==
    LET r == HexDecodeWithDelimiter(s, 0, Len(s) \div 2)
    IN  IF s = <<>> \/ r.length > 0 THEN r ELSE Aborts

-----------------------------------------------------------------------------
Init == /\ \/ source \in Sources /\ text = <<>>
           \/ source = <<>> /\ text \in Texts
        /\ delimiter \in Delimiters /\ room = 0
        /\ result = Nothing /\ back = <<>> /\ fn = "none"

Encoded(r) == result' = r /\ text' = r.out /\ UNCHANGED <<source, delimiter, back>>
Decoded(r) == result' = r /\ back' = r.out /\ UNCHANGED <<source, delimiter, text>>

CallEncode == /\ fn = "none" /\ text = <<>> /\ fn' = "encode"
              /\ room' \in Rooms
              /\ Encoded(HexEncodeWithDelimiter(source, delimiter, room'))
CallEncodeString == /\ fn = "none" /\ text = <<>> /\ fn' = "encode string"
                    /\ room' = 3 * Len(source)
                    /\ Encoded(HexEncodeString(source, delimiter))

CanDecode == \/ fn = "none" /\ source = <<>>
             \/ fn \in {"encode", "encode string"} /\ result.length > 0
CallDecode == /\ CanDecode /\ fn' = "decode"
              /\ room' \in Rooms
              /\ Decoded(HexDecodeWithDelimiter(text, delimiter, room'))
CallDecodeString == /\ CanDecode /\ delimiter = 0 /\ fn' = "decode string"
                    /\ room' = Len(text) \div 2
                    /\ Decoded(HexDecodeString(text))

Next == CallEncode \/ CallEncodeString \/ CallDecode \/ CallDecodeString

Spec == Init /\ [][Next]_vars

-----------------------------------------------------------------------------
\* No function writes more than the buffer has, terminator included; decoding the texts
\* that turn out to be malformed half way does not either.
BufferKept == result.wrote <= room

\* The buffers that the functions on strings give themselves are large enough: encoding
\* never aborts, and decoding only on a text that is no pairs of digits.
StringsHaveRoom ==
    /\ fn = "encode string" => result.length >= 0
    /\ fn = "decode string" /\ result.length = -1 =>
         Len(text) % 2 = 1 \/ \E i \in DOMAIN text : HexDecodeDigit(text[i]) = -1

\* What was encoded is decoded to what it was, with any delimiter, also one that is a
\* digit, whenever the buffer has a byte for each byte.
RoundTrip ==
    source # <<>> /\ fn \in {"decode", "decode string"} =>
      back = IF room >= Len(source) THEN source ELSE <<>>

\* What is decoded and encoded again is the text in upper case, so that decoding tells
\* texts apart.  Letters after F are the exception: they are decoded as well.
EncodesBack ==
    LET upper(c) == IF c \in 97..122 THEN c - 32 ELSE c
        hex == 48..57 \cup 65..70 \cup 97..102
    IN  /\ fn \in {"decode", "decode string"} /\ back # <<>>
        /\ \A i \in DOMAIN text : text[i] \in hex \/ (delimiter # 0 /\ i % 3 = 0)
        => HexEncodeWithDelimiter(back, delimiter, 3 * Len(back)).out
             = [i \in DOMAIN text |-> IF delimiter # 0 /\ i % 3 = 0 THEN text[i] ELSE upper(text[i])]
=============================================================================

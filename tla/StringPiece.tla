----------------------------- MODULE StringPiece -----------------------------
(***************************************************************************)
(* base::StringPiece (src/base/string_piece.h, string_piece.cc) and the    *)
(* functions of src/base/string_util.cc on pieces.  A piece is a pointer   *)
(* into a buffer that somebody else owns and a length; a character is its  *)
(* unsigned code.  Positions count from 0, as the code's do, and size_t is *)
(* so narrow that what wraps around is seen: Npos, its largest value, is   *)
(* npos.  A behaviour is one call on any piece of any buffer.              *)
(***************************************************************************)
EXTENDS Integers, SequencesExt, FiniteSetsExt

CONSTANTS Buffers,   \* the contents of the buffer
          Needles,   \* second pieces, in memory of their own
          Npos

NposAssumption == Npos \in Nat /\ \A s \in Buffers \cup Needles : 2 * Len(s) < Npos

VARIABLES buffer, piece,  \* what the buffer has, and [ptr, length]
          before,         \* the piece before the call
          call,           \* the call: [fn, with, at]
          out             \* what it returned

vars == <<buffer, piece, before, call, out>>

Wrap(n) == n % (Npos + 1)
Text(p) == SubSeq(buffer, p.ptr + 1, p.ptr + p.length)
At(s, i) == s[i + 1]
First(S) == IF S = {} THEN Npos ELSE Min(S)
Latest(S) == IF S = {} THEN Npos ELSE Max(S)
Lesser(a, b) == Min({a, b})

Positions == SUBSET {"leading", "trailing"}

-----------------------------------------------------------------------------
(* Searches.                                                               *)

OccursAt(s, t, i) == SubSeq(s, i + 1, i + Len(t)) = t

find(s, t, pos) ==
    LET found == {i \in pos..Len(s) - Len(t) : OccursAt(s, t, i)}
    IN  IF pos > Len(s) THEN Npos ELSE First(found)

findChar(s, c, pos) == First({i \in pos..Len(s) - 1 : At(s, i) = c})

\* last is where std::find_end stops: no occurrence may end after it.
rfindEarly(s, t, pos) ==
    LET last == Lesser(Len(s) - Len(t), pos)
    IN  IF Len(s) < Len(t) THEN Npos
        ELSE IF t = <<>> THEN Lesser(Len(s), pos)
        ELSE Latest({i \in 0..last - Len(t) : OccursAt(s, t, i)})
rfind(s, t, pos) ==
    LET last == Lesser(Len(s) - Len(t), pos) + Len(t)
    IN  IF Len(s) < Len(t) THEN Npos
        ELSE IF t = <<>> THEN Lesser(Len(s), pos)
        ELSE Latest({i \in 0..last - Len(t) : OccursAt(s, t, i)})

rfindChar(s, c, pos) ==
    IF s = <<>> THEN Npos ELSE Latest({i \in 0..Lesser(pos, Len(s) - 1) : At(s, i) = c})

BuildLookupTable(t) == {t[i] : i \in DOMAIN t}

find_first_of(s, t, pos) ==
    IF s = <<>> \/ t = <<>> THEN Npos
    ELSE IF Len(t) = 1 THEN findChar(s, t[1], pos)
    ELSE First({i \in pos..Len(s) - 1 : At(s, i) \in BuildLookupTable(t)})

\* Without characters to skip the position is 0, whatever pos is.
find_first_not_of(s, t, pos) ==
    IF s = <<>> THEN Npos
    ELSE IF t = <<>> THEN 0
    ELSE First({i \in pos..Len(s) - 1 : At(s, i) \notin BuildLookupTable(t)})

find_last_of(s, t, pos) ==
    IF s = <<>> \/ t = <<>> THEN Npos
    ELSE IF Len(t) = 1 THEN rfindChar(s, t[1], pos)
    ELSE Latest({i \in 0..Lesser(pos, Len(s) - 1) : At(s, i) \in BuildLookupTable(t)})

find_last_not_of(s, t, pos) ==
    LET i == Lesser(pos, Len(s) - 1)
    IN  IF s = <<>> THEN Npos
        ELSE IF t = <<>> THEN i
        ELSE Latest({j \in 0..i : At(s, j) \notin BuildLookupTable(t)})

Search(fn, s, t, pos) ==
    CASE fn = "find" -> find(s, t, pos)
      [] fn = "rfind" -> rfind(s, t, pos)
      [] fn = "first of" -> find_first_of(s, t, pos)
      [] fn = "first not of" -> find_first_not_of(s, t, pos)
      [] fn = "last of" -> find_last_of(s, t, pos)
      [] fn = "last not of" -> find_last_not_of(s, t, pos)

Searches == {"find", "rfind", "first of", "first not of", "last of", "last not of"}

-----------------------------------------------------------------------------
(* Cutting.                                                                *)

\* Variant: the length is clamped before the position.
substrLengthFirst(p, pos, n) ==
    [ptr |-> p.ptr + Lesser(pos, p.length), length |-> Lesser(n, Wrap(p.length - pos))]
substr(p, pos, n) ==
    LET from == Lesser(pos, p.length)
    IN  [ptr |-> p.ptr + from, length |-> Lesser(n, p.length - from)]

\* If all of it goes, begin is npos and end is 0 or the length.
TrimStringPieceT(p, t, positions) ==
    LET begin == IF "leading" \in positions THEN find_first_not_of(Text(p), t, 0) ELSE 0
        end == IF "trailing" \in positions THEN Wrap(find_last_not_of(Text(p), t, Npos) + 1)
               ELSE p.length
    IN  substr(p, begin, Wrap(end - begin))

\* The function on strings: what output becomes, and whether anything was trimmed.
\* Variant: in the branch of an empty result the input is looked at after
\* output, which may be the same string, has been cleared.
TrimStringTLate(s, t) ==
    LET first == find_first_not_of(s, t, 0)
        last == find_last_not_of(s, t, Npos)
    IN  IF s = <<>> \/ Npos \in {first, last} THEN [output |-> <<>>, trimmed |-> FALSE]
        ELSE [output |-> SubSeq(s, first + 1, last + 1),
              trimmed |-> first # 0 \/ last # Wrap(Len(s) - 1)]
TrimStringT(s, t) ==
    LET first == find_first_not_of(s, t, 0)
        last == find_last_not_of(s, t, Npos)
    IN  IF s = <<>> \/ Npos \in {first, last} THEN [output |-> <<>>, trimmed |-> s # <<>>]
        ELSE [output |-> SubSeq(s, first + 1, last + 1),
              trimmed |-> first # 0 \/ last # Wrap(Len(s) - 1)]

-----------------------------------------------------------------------------
(* Comparing.                                                              *)

ToLowerASCII(c) == IF c \in 65..90 THEN c + 32 ELSE c
Lower(s) == [i \in DOMAIN s |-> ToLowerASCII(s[i])]

\* char is signed on the platforms of the Makefile.
SignedChar(c) == IF c > 127 THEN c - 256 ELSE c

Differs(s, t) == First({i \in 0..Lesser(Len(s), Len(t)) - 1 : At(s, i) # At(t, i)})
Sign(a, b) == IF a < b THEN -1 ELSE IF a > b THEN 1 ELSE 0

\* wordmemcmp compares unsigned characters.
compareByLength(s, t) ==
    LET d == Differs(s, t)
    IN  IF Len(s) # Len(t) \/ d = Npos THEN Sign(Len(s), Len(t)) ELSE Sign(At(s, d), At(t, d))
compare(s, t) ==
    LET d == Differs(s, t)
    IN  IF d = Npos THEN Sign(Len(s), Len(t)) ELSE Sign(At(s, d), At(t, d))

Equal(s, t) == Len(s) = Len(t) /\ Differs(s, t) = Npos
Less(s, t) ==
    LET d == Differs(s, t)
    IN  IF d = Npos THEN Len(s) < Len(t) ELSE At(s, d) < At(t, d)

CompareCaseInsensitiveASCII(s, t) ==
    LET d == Differs(Lower(s), Lower(t))
    IN  IF d = Npos THEN Sign(Len(s), Len(t))
        ELSE Sign(SignedChar(At(Lower(s), d)), SignedChar(At(Lower(t), d)))

LowerCaseEqualsASCII(s, t) == Lower(s) = t

Matches(s, t, sensitive) == IF sensitive THEN Equal(s, t) ELSE Equal(Lower(s), Lower(t))

StartsWith(p, t, sensitive) ==
    Len(t) <= p.length /\ Matches(Text(substr(p, 0, Len(t))), t, sensitive)

\* Variant: the text at the front, as in StartsWith.
EndsWithFront(p, t, sensitive) ==
    Len(t) <= p.length /\ Matches(Text(substr(p, 0, Len(t))), t, sensitive)
EndsWith(p, t, sensitive) ==
    Len(t) <= p.length /\ Matches(Text(substr(p, p.length - Len(t), Len(t))), t, sensitive)

-----------------------------------------------------------------------------
Init == /\ buffer \in Buffers
        /\ piece \in {p \in [ptr : 0..Len(buffer), length : 0..Len(buffer)] :
                        p.ptr + p.length <= Len(buffer)}
        /\ before = piece
        /\ call = [fn |-> "none", with |-> <<>>, at |-> 0] /\ out = "none"

\* at is the position to search from, or the positions to trim.
Calls(fn, t, at) ==
    /\ call.fn = "none"
    /\ call' = [fn |-> fn, with |-> t, at |-> at]
    /\ UNCHANGED <<buffer, before>>

Returns(result) == out' = result /\ UNCHANGED piece
Cuts(result) == piece' = result /\ UNCHANGED out

Places == 0..piece.length + 1 \cup {Npos}

CallSearch == \E fn \in Searches, t \in Needles, pos \in Places :
                 Calls(fn, t, pos) /\ Returns(Search(fn, Text(piece), t, pos))

CallSubstr == \E pos, n \in Places : Calls("substr", <<>>, 0) /\ Cuts(substr(piece, pos, n))

\* The caller has to see to it that there is as much to remove.
remove_prefix == \E n \in 0..piece.length :
    Calls("remove_prefix", <<>>, 0) /\ Cuts([ptr |-> piece.ptr + n, length |-> piece.length - n])
remove_suffix == \E n \in 0..piece.length :
    Calls("remove_suffix", <<>>, 0) /\ Cuts([piece EXCEPT !.length = @ - n])

CallTrim == \E t \in Needles, positions \in Positions :
    Calls("trim", t, positions) /\ Cuts(TrimStringPieceT(piece, t, positions))
CallTrimString == \E t \in Needles : Calls("trim string", t, 0) /\ Returns(TrimStringT(Text(piece), t))

CallCompare == \E t \in Needles :
    Calls("compare", t, 0)
      /\ Returns([order |-> compare(Text(piece), t), equal |-> Equal(Text(piece), t),
                  less |-> Less(Text(piece), t),
                  folded |-> CompareCaseInsensitiveASCII(Text(piece), t),
                  lower |-> LowerCaseEqualsASCII(Text(piece), t),
                  starts |-> {b \in BOOLEAN : StartsWith(piece, t, b)},
                  ends |-> {b \in BOOLEAN : EndsWith(piece, t, b)}])

Next == \/ CallSearch \/ CallSubstr \/ remove_prefix \/ remove_suffix
        \/ CallTrim \/ CallTrimString \/ CallCompare

Spec == Init /\ [][Next]_vars

-----------------------------------------------------------------------------
\* However a piece is cut, also with npos for positions and lengths and with a trim that
\* leaves nothing, the rest lies inside the piece it was cut from.
StaysInside ==
    /\ piece.ptr >= before.ptr /\ piece.length >= 0
    /\ piece.ptr + piece.length <= before.ptr + before.length

\* Every search returns the first or last position that std::string's function of that
\* name returns (string_piece.h:187-241), npos if there is none.  The exception is the
\* code's: find_first_not_of without characters to skip returns 0 and not pos.
SearchesLikeString ==
    LET s == Text(before)
        t == call.with
        forward == call.fn \in {"find", "first of", "first not of"}
        hit(i) == CASE call.fn \in {"find", "rfind"} -> i + Len(t) <= Len(s) /\ OccursAt(s, t, i)
                    [] call.fn \in {"first of", "last of"} -> i < Len(s) /\ Contains(t, At(s, i))
                    [] OTHER -> i < Len(s) /\ ~Contains(t, At(s, i))
        allowed == {i \in 0..Len(s) : IF forward THEN i >= call.at ELSE i <= call.at}
        hits == {i \in allowed : hit(i)}
    IN  call.fn \in Searches /\ ~(call.fn = "first not of" /\ t = <<>>) =>
          IF hits = {} THEN out = Npos
          ELSE out \in hits /\ \A i \in hits : IF forward THEN out <= i ELSE i <= out

\* Trimming takes characters to trim and nothing else, and leaves none at an end it was to
\* trim; the function on strings does the same and says truly whether it took any.
TrimsExactly ==
    LET s == Text(before)
        rest == IF call.fn = "trim" THEN Text(piece) ELSE out.output
        positions == IF call.fn = "trim" THEN call.at ELSE {"leading", "trailing"}
        good(c) == ~Contains(call.with, c)
    IN  call.fn \in {"trim", "trim string"} =>
          /\ \E i, j \in 0..Len(s) :
               /\ i <= j /\ rest = SubSeq(s, i + 1, j)
               /\ \A k \in (1..i) \cup (j + 1..Len(s)) : ~good(s[k])
               /\ rest # <<>> => /\ "leading" \in positions \/ i = 0
                                 /\ "trailing" \in positions \/ j = Len(s)
          /\ rest # <<>> => /\ "leading" \in positions => good(Head(rest))
                            /\ "trailing" \in positions => good(Last(rest))
          /\ call.fn = "trim string" => out.trimmed = (out.output # s)

\* compare, == and < are one total order, and what ignores case orders as the others do
\* the lower-case texts; of characters that are not ASCII only equality is promised, they
\* are signed here and unsigned there.
OneOrder ==
    LET s == Text(before)
        t == call.with
        ascii == \A i \in DOMAIN s \cup DOMAIN t :
                    /\ i \in DOMAIN s => s[i] < 128
                    /\ i \in DOMAIN t => t[i] < 128
    IN  call.fn = "compare" =>
          /\ out.equal = (s = t) /\ out.equal = (out.order = 0) /\ out.less = (out.order < 0)
          /\ compare(t, s) = -out.order
          /\ \A x \in Needles : /\ out.less /\ Less(t, x) => Less(s, x)
                                /\ out.folded < 0 /\ CompareCaseInsensitiveASCII(t, x) < 0
                                     => CompareCaseInsensitiveASCII(s, x) < 0
          /\ ascii => out.folded = compare(Lower(s), Lower(t))
          /\ out.lower => out.folded = 0

\* StartsWith and EndsWith find the text they look for at the end where they look for it.
FindsTheEnds ==
    LET s == Text(before)
        t == call.with
    IN  call.fn = "compare" =>
          /\ TRUE \in out.starts <=> find(s, t, 0) = 0
          /\ TRUE \in out.ends <=> \E i \in 0..Len(s) : s = SubSeq(s, 1, i) \o t
          /\ FALSE \in out.starts <=> find(Lower(s), Lower(t), 0) = 0
          /\ out.folded = 0 <=> FALSE \in out.starts \cap out.ends /\ Len(s) = Len(t)
=============================================================================

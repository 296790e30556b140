---------------------------- MODULE MCConversions ----------------------------
(***************************************************************************)
(* The functions of base that convert, parse and take apart: in each       *)
(* behaviour the ones of one library are called, `part'.  The libraries    *)
(* share no state, so the behaviours of each are all there.  The variables *)
(* of the others do not move.                                              *)
(***************************************************************************)
EXTENDS SafeInt

VARIABLES part,
    number, radix, errno, deflt, reader, read,                        \* LeadingNumbers
    range, opts, eaten, from, to, is_currency, first, seen_dollar,    \* DoubleRange
    stage, found, end,
    path, pathBefore, pathCall, arg,                                  \* FilePath
    buffer, piece, pieceBefore, pieceCall, pieceOut,                  \* StringPiece
    bytes, room, sent, got, whole, taken, strayed,                    \* UTF8
    plain, delimiter, hexRoom, written, hex, back, hexCall,           \* HexCode
    contents, pos, eof, failed, equal                                 \* TextFiles

numberVars == <<number, radix, errno, deflt, reader, read>>
rangeVars  == <<range, opts, eaten, from, to, is_currency, first, seen_dollar, stage, found, end>>
pathVars   == <<path, pathBefore, pathCall, arg>>
pieceVars  == <<buffer, piece, pieceBefore, pieceCall, pieceOut>>
utf8Vars   == <<bytes, room, sent, got, whole, taken, strayed>>
hexVars    == <<plain, delimiter, hexRoom, written, hex, back, hexCall>>
fileVars   == <<contents, pos, eof, failed, equal>>
all == <<part, vars, numberVars, rangeVars, pathVars, pieceVars, utf8Vars, hexVars, fileVars>>

UpTo(n, chars) == UNION {[1..k -> chars] : k \in 0..n}

-----------------------------------------------------------------------------
\* SafeInt: ' ', '+', '-', '0', '1', '7', 'x'.  With 63 for the largest int every limit is
\* met exactly and overstepped by the product and by the sum: 63 is "77" in base 8 and "70" in
\* base 9, where "71" and "-77" are too far; 127 is "71" in base 18, where "77" is.
MCTexts == UpTo(4, {32, 43, 45, 48, 49, 55, 120})

-----------------------------------------------------------------------------
\* LeadingNumbers: numerals, and 0, n, no, false, 1, y, yes, true in small and
\* capital letters with something before and behind.
Words == {<<48>>, <<110>>, <<110, 111>>, <<102, 97, 108, 115, 101>>,
          <<49>>, <<121>>, <<121, 101, 115>>, <<116, 114, 117, 101>>}
Capital(w) == [i \in DOMAIN w |-> IF w[i] \in 97..122 THEN w[i] - 32 ELSE w[i]]
Numbers == UpTo(4, {32, 43, 45, 48, 49, 57, 97, 120})
           \cup {f \o w \o t : f \in {<<>>, <<32>>, <<9, 32>>},
                               w \in Words \cup {Capital(w) : w \in Words},
                               t \in {<<>>, <<32>>, <<49>>, <<33>>, <<115, 49>>}}
L == INSTANCE LeadingNumbers
     WITH input <- number, base <- radix, fn <- reader, out <- read,
          Texts <- Numbers, Bases <- {0, 10, 16}, Errnos <- {0, 5},
          Int32Max <- 7, LongMax <- 127

-----------------------------------------------------------------------------
\* DoubleRange: everything that looks like a range, and short texts.
One(set)  == {<<c>> : c \in set}
Part(set) == set \cup {<<>>}
Bounds == One({"1", "?"}) \cup {<<"-", "1">>, <<"1", ".">>, <<"1", ".", "2">>}
Ranges == {p[1] \o p[2] \o p[3] \o p[4] \o p[5] \o p[6] \o p[7] :
             p \in Part({<<"<">>, <<">", "=">>}) \X Part(One({"$"})) \X Part(Bounds)
                   \X Part(One({"-", ":", "."}) \cup {<<".", ".">>, <<".", ".", ".">>})
                   \X Part(One({"$"})) \X Part(Bounds) \X Part(One({"x", "."}))}
Option(separators, terminators, bounds, flags) ==
    [separators |-> separators, acceptable_terminators |-> terminators,
     num_required_bounds |-> bounds,
     require_separator |-> "separator" \in flags, null_terminator_ok |-> "null" \in flags,
     allow_unbounded_markers |-> "markers" \in flags,
     dont_modify_unbounded |-> "keep" \in flags,
     allow_currency |-> "currency" \in flags, allow_comparators |-> "comparators" \in flags]
D == INSTANCE DoubleRange
     WITH input <- range, text <- eaten, pc <- stage, result <- found,
          Texts <- Ranges \cup UpTo(3, {"1", "-", ".", ":", "$", "?", ">", "=", "x"}),
          Options <- {Option({"-"}, {}, 0, {"null"}),
                      Option({"-"}, {"x"}, 1, {"null", "currency", "comparators", "keep"}),
                      Option({"-"}, {"x"}, 2, {"markers", "currency"}),
                      Option({":"}, {"x"}, 0, {"null", "separator", "markers"}),
                      Option({".", "-"}, {"x"}, 0, {"null", "currency", "comparators"}),
                      Option({"."}, {"."}, 1, {"null", "keep", "markers"}),
                      Option({".", ":"}, {"x"}, 2, {"null", "currency"}),
                      Option({"-", ":"}, {"."}, 0, {"null", "currency", "comparators", "keep", "markers"})}

-----------------------------------------------------------------------------
P == INSTANCE FilePath
     WITH before <- pathBefore, fn <- pathCall,
          Paths <- UpTo(5, {"/", ".", "a", "z"}) \cup {<<"a", "NUL", "z">>},
          Components <- UpTo(2, {"/", ".", "a", "z"})
                        \cup {<<"a", "/", "z">>, <<"z", "/", "a">>, <<"/", "a", "z">>, <<".", "NUL", "/">>},
          Extensions <- {<<>>, <<".">>, <<".", "a">>, <<"z">>, <<".", "Z">>, <<".", "a", ".", "z">>}

\* 'A', '[', 'a' and a character beyond ASCII
Letters == {65, 91, 97, 200}
S == INSTANCE StringPiece
     WITH before <- pieceBefore, call <- pieceCall, out <- pieceOut,
          Buffers <- UpTo(3, Letters), Npos <- 15,
          Needles <- UpTo(1, Letters) \cup {<<65, 91>>, <<97, 97>>, <<97, 65>>, <<200, 97>>, <<91, 200>>,
                                             <<97, 65, 97>>, <<65, 91, 97, 200>>}

-----------------------------------------------------------------------------
\* Values and bytes at the limits of every length.
Edges == {0, 127, 128, 191, 192, 223, 224, 239, 240, 247, 248, 255}
U == INSTANCE UTF8
     WITH Values <- {0, 65, 127, 128, 2047, 2048, 2049, 2112, 65535, 65536, 2097151, 2097152},
          Rooms <- {0, 1, 3, 7, 9}, Foreign <- UpTo(4, Edges) \ {<<>>}, Beyond <- {65, 200}, MaxValues <- 3

\* '0', 'F', 'a', 'z', ':' and '!' to decode
H == INSTANCE HexCode
     WITH source <- plain, room <- hexRoom, result <- written, text <- hex, fn <- hexCall,
          Sources <- UpTo(3, {0, 9, 58, 171, 255}),
          Texts <- UpTo(5, {48, 70, 97, 122, 58, 33}) \ {<<>>},
          Delimiters <- {0, 58, 65}, Rooms <- {0, 1, 2, 3, 5, 7, 9}

F == INSTANCE TextFiles
     WITH text <- contents, result <- equal, Letters <- {"a", "b"}, MaxLength <- 4

-----------------------------------------------------------------------------
Parts == {"integers", "numbers", "ranges", "paths", "pieces", "utf8", "hex", "files"}

AllInit ==
    /\ part \in Parts
    /\ IF part = "integers" THEN Init
       ELSE /\ signed = TRUE /\ input = <<>> /\ asked = 0 /\ text = <<>> /\ base = 0
            /\ negative = FALSE /\ value = 0 /\ pc = "sign" /\ ok = FALSE
    /\ IF part = "numbers" THEN L!Init
       ELSE number = 0 /\ radix = 0 /\ errno = 0 /\ deflt = 0 /\ reader = 0 /\ read = 0
    /\ IF part = "ranges" THEN D!Init
       ELSE /\ range = 0 /\ opts = 0 /\ eaten = 0 /\ from = 0 /\ to = 0 /\ is_currency = 0
            /\ first = 0 /\ seen_dollar = 0 /\ stage = 0 /\ found = 0 /\ end = 0
    /\ IF part = "paths" THEN P!Init
       ELSE path = 0 /\ pathBefore = 0 /\ pathCall = 0 /\ arg = 0
    /\ IF part = "pieces" THEN S!Init
       ELSE buffer = 0 /\ piece = 0 /\ pieceBefore = 0 /\ pieceCall = 0 /\ pieceOut = 0
    /\ IF part = "utf8" THEN U!Init
       ELSE bytes = 0 /\ room = 0 /\ sent = 0 /\ got = 0 /\ whole = 0 /\ taken = 0 /\ strayed = 0
    /\ IF part = "hex" THEN H!Init
       ELSE /\ plain = 0 /\ delimiter = 0 /\ hexRoom = 0 /\ written = 0 /\ hex = 0
            /\ back = 0 /\ hexCall = 0
    /\ IF part = "files" THEN F!Init
       ELSE contents = 0 /\ pos = 0 /\ eof = 0 /\ failed = 0 /\ equal = 0

AllNext ==
    /\ UNCHANGED part
    /\ IF part = "integers" THEN Next ELSE UNCHANGED vars
    /\ IF part = "numbers" THEN L!Next ELSE UNCHANGED numberVars
    /\ IF part = "ranges" THEN D!Next ELSE UNCHANGED rangeVars
    /\ IF part = "paths" THEN P!Next ELSE UNCHANGED pathVars
    /\ IF part = "pieces" THEN S!Next ELSE UNCHANGED pieceVars
    /\ IF part = "utf8" THEN U!Next ELSE UNCHANGED utf8Vars
    /\ IF part = "hex" THEN H!Next ELSE UNCHANGED hexVars
    /\ IF part = "files" THEN F!Next ELSE UNCHANGED fileVars

AllSpec == AllInit /\ [][AllNext]_all

-----------------------------------------------------------------------------
ASSUME AllAssumptions == /\ L!WidthAssumption /\ D!OptionsAssumption /\ S!NposAssumption

-----------------------------------------------------------------------------
(* What the modules promise, of the behaviours that are about them.  The    *)
(* conjuncts are stated and explained in their modules; NoOverflow is that  *)
(* of SafeInt.                                                              *)

\* numbers.cc: the safe_strto functions accept exactly the texts of integers and clamp to the
\* limits of the type; adapters and ParseLeading functions give the value, the end and the
\* errno of a native function for 32 bits; ParseLeadingBoolValue decides by the whole word in
\* front; of stray zeroes all go, and no other digit.
NumbersReadExactly ==
    /\ [](/\ TypeOK /\ AcceptsExactly /\ ClampsToTheLimit
          /\ part = "numbers" => /\ L!TypeOK /\ L!LeadingLikeNative
                                 /\ L!BoolReadsAWord /\ L!ZeroesKeepTheNumber)
    /\ [][part = "numbers" => L!AdaptersLikeNativeStep]_all

\* numbers.cc, ParseDoubleRange: a range that was written is read as it was; reading stops at
\* a terminator or an allowed end, says whether a dollar was read if currencies are allowed
\* and else says nothing, and succeeds only with as many bounds as are required.
RangesReadBack == part = "ranges" => /\ D!TypeOK /\ D!EndsAtATerminator /\ D!CurrencyMeansDollar
                                     /\ D!RequiredBoundsGiven /\ D!RangesReadBack

\* file_path.cc: DirName and BaseName together are the path; what Append returns is below the
\* path, with the components of both; AppendRelativePath leads from the parent to the child
\* again; the functions on extensions agree where the extension begins.
PathsFitTogether == part = "paths" => /\ P!TypeOK /\ P!SplitsWhole /\ P!AppendsBelow
                                      /\ P!RelativeLeadsBack /\ P!ExtensionsAgree

\* string_piece.cc, string_util.cc, TextContentsEqual of file_util.cc: pieces stay inside
\* their text and are searched, trimmed and compared like std::strings, by one order; texts
\* that are equal but for CRLF and LF are equal, and what is called equal differs in the ends
\* of lines of one only.
TextsLikeStrings ==
    /\ part = "pieces" => /\ S!StaysInside /\ S!SearchesLikeString /\ S!TrimsExactly
                          /\ S!OneOrder /\ S!FindsTheEnds
    /\ part = "files" => F!AcceptsEqualTexts /\ F!DifferencesAreTails

\* string_encode.cc: nothing is read or written outside the buffers, but for the first byte
\* where none has arrived; what was encoded is decoded, in whatever parts it arrives and with
\* any delimiter, and encoded again as it was; of any bytes only values are decoded that can
\* be encoded; encodings sort like the values.
EncodingsComeBack ==
    /\ part = "utf8" => /\ U!StaysInside /\ U!DecodesWhatWasEncoded /\ U!NothingIsLeft
                        /\ U!DecodesEncodable /\ U!SortsLikeValues
    /\ part = "hex" => /\ H!BufferKept /\ H!StringsHaveRoom /\ H!RoundTrip /\ H!EncodesBack
=============================================================================

------------------------------ MODULE TextFiles ------------------------------
(***************************************************************************)
(* TextContentsEqual (src/base/file_util.cc): two files are read line by   *)
(* line and compared without the ends of their lines.  A character is a    *)
(* string of length one.  The files do not change while they are read;     *)
(* reading may fail.                                                       *)
(***************************************************************************)
EXTENDS Naturals, SequencesExt, FiniteSetsExt

CONSTANTS Letters,   \* the characters that end no line
          MaxLength  \* of the files looked at

CR == "\r"
LF == "\n"
Files == 1..2
AllTexts == SeqOf(Letters \cup {CR, LF}, MaxLength)
Absent == <<"absent">>
None == "none"
Answer(b) == IF b THEN "equal" ELSE "different"

VARIABLES text,    \* of each file; Absent: it cannot be opened
          pos,     \* how much of it has been read
          eof,     \* file.eof()
          failed,  \* reading failed
          result   \* what was returned, or None

vars == <<text, pos, eof, failed, result>>

Init == /\ text \in [Files -> AllTexts \cup {Absent}]
        /\ pos = [f \in Files |-> 0] /\ eof = [f \in Files |-> FALSE]
        /\ failed = FALSE /\ result = None

\* getline: the characters up to the next LF, or up to the end of the file,
\* which it notices only then.
Left(f)  == SubSeq(text[f], pos[f] + 1, Len(text[f]))
Whole(f) == \E i \in 1..Len(Left(f)) : Left(f)[i] = LF
Line(f)  == IF Whole(f) THEN SubSeq(Left(f), 1, Min({i \in 1..Len(Left(f)) : Left(f)[i] = LF}) - 1)
            ELSE Left(f)

\* find_last_not_of("\r\n") + 1, and 0 for npos.
End(line) == Max({0} \cup {i \in 1..Len(line) : line[i] \notin {CR, LF}})
Cut(line, n) == SubSeq(line, 1, Min({n, Len(line)}))

\* Both ends are those of line1, which has been cut when the second is
\* looked for (line 106): what line2 has beyond it is never compared.
\* Variants: the last character is cut off as well; line2 is not cut.
SameLineShort(line1, line2) ==
    LET cut == Cut(line1, IF End(line1) = 0 THEN 0 ELSE End(line1) - 1)
    IN  cut = Cut(line2, End(cut))
SameLineBoth(line1, line2) == Cut(line1, End(line1)) = Cut(line2, Len(line2))
SameLine(line1, line2) ==
    LET cut == Cut(line1, End(line1)) IN cut = Cut(line2, End(cut))

\* One of the files is missing.
OpenFails == /\ result = None /\ \E f \in Files : text[f] = Absent
             /\ result' = Answer(FALSE) /\ UNCHANGED <<text, pos, eof, failed>>

\* One turn of the loop.
Turn ==
    /\ result = None /\ \A f \in Files : text[f] # Absent
    /\ pos' = [f \in Files |-> pos[f] + Len(Line(f)) + IF Whole(f) THEN 1 ELSE 0]
    /\ eof' = [f \in Files |-> ~Whole(f)]
    /\ result' = CASE eof'[1] # eof'[2] \/ ~SameLine(Line(1), Line(2)) -> Answer(FALSE)
                   [] eof'[1] /\ eof'[2] -> Answer(TRUE)
                   [] OTHER -> None
    /\ UNCHANGED <<text, failed>>

ReadFails == /\ result = None /\ \A f \in Files : text[f] # Absent
             /\ failed' = TRUE /\ result' = Answer(FALSE)
             /\ UNCHANGED <<text, pos, eof>>

Returned == result # None /\ UNCHANGED vars

Next == OpenFails \/ Turn \/ ReadFails \/ Returned

Spec == Init /\ [][Next]_vars

-----------------------------------------------------------------------------
Breaks(t)   == <<0>> \o SetToSortSeq({i \in 1..Len(t) : t[i] = LF}, <) \o <<Len(t) + 1>>
LinesOf(t)  == [i \in 1..(Len(Breaks(t)) - 1) |-> SubSeq(t, Breaks(t)[i] + 1, Breaks(t)[i + 1] - 1)]
Stripped(t) == [i \in DOMAIN LinesOf(t) |-> Cut(LinesOf(t)[i], End(LinesOf(t)[i]))]
Opened      == \A f \in Files : text[f] # Absent

(* Texts that differ in the ends of their lines only, CRLF or LF, are equal, *)
(* and no file differs from itself, unless reading fails.                    *)
AcceptsEqualTexts ==
    result = Answer(FALSE) /\ Opened /\ ~failed => Stripped(text[1]) # Stripped(text[2])

(* Texts that TextContentsEqual calls equal have equally many lines, and     *)
(* differ at most in what their second one's lines have beyond the first's.  *)
(* (What they have there is overlooked: line2 is cut to the length of line1, *)
(* file_util.cc:106, so "ab" equals "abc", and "abc" does not equal "ab".)   *)
DifferencesAreTails ==
    result = Answer(TRUE) =>
        /\ Opened
        /\ Len(LinesOf(text[1])) = Len(LinesOf(text[2]))
        /\ \A i \in DOMAIN LinesOf(text[1]) : IsPrefix(Stripped(text[1])[i], LinesOf(text[2])[i])
=============================================================================

----------------------------- MODULE DoubleRange -----------------------------
(***************************************************************************)
(* One call of ParseDoubleRange (src/base/numbers.cc:56-239): a range of   *)
(* numbers such as "1-2", "-2", "1..2", ">=$1" or "?-2" at the front of a  *)
(* text.  A character is a string of length one, a number is the sequence  *)
(* of its characters without '+' and final period, and every step eats     *)
(* what one block of the function eats.  The text is as long as len says   *)
(* or ends with a NUL, which the function treats alike.                    *)
(***************************************************************************)
EXTENDS Integers, Sequences, FiniteSetsExt

CONSTANTS Texts,
          Options  \* DoubleRangeOptions, as records

OptionsAssumption ==
    \A o \in Options :
      /\ o.separators # {} /\ o.separators \cap {"+", "0", "1", "2", "e", "E", "$"} = {}
      /\ o.num_required_bounds \in 0..2

VARIABLES input, opts,       \* of the call
          text,              \* the number of characters eaten
          from, to,          \* *from and *to
          is_currency,       \* *is_currency: "yes", "no", or "old", what the caller had there
          first,             \* what the first EatADouble returned
          seen_dollar,
          pc, result, end

vars == <<input, opts, text, from, to, is_currency, first, seen_dollar, pc, result, end>>
call == <<input, opts>>

OldFrom == <<"old from">>  \* the values of *from and *to before the call
OldTo == <<"old to">>
HUGE_VAL == <<"inf">>
MinusLost(v) == v
Minus(v) == IF v[1] = "-" THEN Tail(v) ELSE <<"-">> \o v

Char(p) == IF p < Len(input) THEN input[p + 1] ELSE "NUL"

-----------------------------------------------------------------------------
(* strtod(3), on digits, one point and a sign.                             *)

Digit == {"0", "1", "2"}
Signs == {"+", "-"}

IsDouble(s) ==
    LET u == IF s # <<>> /\ s[1] \in Signs THEN Tail(s) ELSE s
    IN  /\ \E i \in DOMAIN u : u[i] \in Digit
        /\ \A i \in DOMAIN u : u[i] \in Digit \cup {"."}
        /\ \A i, j \in DOMAIN u : u[i] = "." /\ u[j] = "." => i = j

Doubles(p) == {q \in p + 1..Len(input) : IsDouble(SubSeq(input, p + 1, q))}

\* "1." and "+1" are "1".
Number(p, q) ==
    LET s == SubSeq(input, p + 1, q)
        u == IF s[1] = "+" THEN Tail(s) ELSE s
    IN  IF u[Len(u)] = "." THEN SubSeq(u, 1, Len(u) - 1) ELSE u

-----------------------------------------------------------------------------
(* EatAChar and EatADouble.                                                *)

EatNul(p, set) == IF Char(p) \in set \cup {"NUL"} THEN p + 1 ELSE p
Eat(p, set) == IF Char(p) \in set THEN p + 1 ELSE p

\* The result is also given for a failure, when initial_minus may be set: text is old.
EatADouble(p, old, check_minus, check_period) ==
    LET minus == check_minus /\ Char(p) = "-"
        q == IF minus THEN p + 1 ELSE p
        ends == Doubles(q)
        last == Max(ends)
        period == check_period /\ input[last] = "."
        failure == [seen |-> FALSE, text |-> p, val |-> old, minus |-> minus, period |-> FALSE]
    IN  IF p = Len(input) THEN [failure EXCEPT !.minus = FALSE]
        ELSE IF opts.allow_unbounded_markers /\ Char(p) = "?"
          THEN [failure EXCEPT !.seen = TRUE, !.text = p + 1, !.minus = FALSE]
        ELSE IF ends = {} THEN failure
        ELSE [seen |-> TRUE, text |-> IF period THEN last - 1 ELSE last,
              val |-> Number(q, last), minus |-> minus, period |-> period]

-----------------------------------------------------------------------------
NoDouble == [seen |-> FALSE, text |-> 0, val |-> <<>>, minus |-> FALSE, period |-> FALSE]

Init == /\ input \in Texts /\ opts \in Options
        /\ text = 0 /\ first = NoDouble
        /\ from = (IF opts.dont_modify_unbounded THEN OldFrom ELSE Minus(HUGE_VAL))
        /\ to = (IF opts.dont_modify_unbounded THEN OldTo ELSE HUGE_VAL)
        /\ is_currency = (IF opts.allow_currency THEN "no" ELSE "old") /\ seen_dollar = FALSE
        /\ pc = "comparator" /\ result = FALSE /\ end = 0

\* Whether the options require more bounds than were seen.
LacksTwo(seen) == opts.num_required_bounds > seen + 1
Lacks(seen) == opts.num_required_bounds > seen
Seen(d) == IF d.seen THEN 1 ELSE 0

\* A dollar without a number after it is not one.
DollarReset(eaten, d) == eaten /\ ~d.seen
Dollar(eaten, d) == eaten /\ d.seen

\* *is_currency becomes true or stays what it is.
Reported(dollar) == IF dollar THEN "yes" ELSE is_currency

Fail == pc' = "done" /\ result' = FALSE /\ UNCHANGED end

\* The last lines: *end, and whether what follows may follow.
Terminated(p) == IF p = Len(input) THEN opts.null_terminator_ok
                 ELSE Char(p) \in opts.acceptable_terminators

Finish(p) == pc' = "done" /\ result' = Terminated(p) /\ end' = p

\* Before a period *end is one less.
FinishRange(p) ==
    /\ pc' = "done" /\ result' = Terminated(p)
    /\ end' = IF "." \in opts.acceptable_terminators /\ Char(p) = "." THEN p - 1 ELSE p

Dollars == IF opts.allow_currency THEN {"$"} ELSE {}

Comparator ==
    /\ pc = "comparator"
    /\ opts.allow_comparators /\ Char(0) \in {"<", ">"}
    /\ LET afterEq == Eat(1, {"="})
           p == Eat(afterEq, Dollars)
           greater == Char(0) = ">"
           d == EatADouble(p, IF greater THEN from ELSE to, FALSE, FALSE)
       IN  /\ is_currency' = Reported(p > afterEq)
           /\ from' = IF greater THEN d.val ELSE from
           /\ to' = IF greater THEN to ELSE d.val
           /\ IF d.seen THEN Finish(d.text) /\ text' = d.text
                        ELSE Fail /\ UNCHANGED text
    /\ UNCHANGED <<call, first, seen_dollar>>

NoComparator ==
    /\ pc = "comparator"
    /\ ~(opts.allow_comparators /\ Char(0) \in {"<", ">"})
    /\ pc' = "first"
    /\ UNCHANGED <<call, text, from, to, is_currency, first, seen_dollar, result, end>>

\* Without a number the dollar is put back.
FirstDouble ==
    /\ pc = "first"
    /\ LET p == Eat(text, Dollars)
           dollar == p > text
           check_minus == "-" \in opts.separators /\ ~dollar /\ opts.num_required_bounds < 2
           d == EatADouble(p, from, check_minus, "." \in opts.separators)
       IN  /\ first' = d
           /\ from' = d.val
           /\ seen_dollar' = Dollar(dollar, d)
           /\ IF opts.num_required_bounds = 2 /\ ~d.seen
              THEN Fail /\ text' = p
              ELSE /\ pc' = "separator"
                   /\ text' = IF d.seen THEN d.text ELSE text
                   /\ UNCHANGED <<result, end>>
    /\ UNCHANGED <<call, to, is_currency>>

\* One separator, but two or three periods, or a period and another separator: a single
\* period is put back.
SeparatorEnd ==
    LET p == Eat(text, opts.separators)
        two == Eat(p, {"."})
        three == IF first.period THEN Eat(two, {"."}) ELSE two
        other == Eat(p, opts.separators)
    IN  IF p = text \/ input[p] # "." THEN p
        ELSE IF two > p THEN three
        ELSE IF other > p THEN other ELSE text

Separator ==
    /\ pc = "separator"
    /\ SeparatorEnd > text
    /\ text' = SeparatorEnd
    /\ from' = IF first.minus /\ first.seen THEN Minus(from) ELSE from
    /\ pc' = "second"
    /\ UNCHANGED <<call, to, is_currency, first, seen_dollar, result, end>>

\* With no separator "-2" is "up to 2".
NoSeparator ==
    /\ pc = "separator"
    /\ SeparatorEnd = text
    /\ LET upTo == first.minus /\ first.seen
           bad == ~upTo /\ (opts.require_separator \/ Lacks(Seen(first)))
           p == IF first.period THEN Eat(text, {"."}) ELSE text
       IN  /\ text' = p
           /\ to' = IF upTo THEN from ELSE to
           /\ from' = IF upTo THEN (IF opts.dont_modify_unbounded THEN OldFrom
                                    ELSE Minus(HUGE_VAL)) ELSE from
           /\ is_currency' = Reported(~bad /\ seen_dollar)
           /\ IF bad THEN Fail ELSE FinishRange(p)
    /\ UNCHANGED <<call, first, seen_dollar>>

Second ==
    /\ pc = "second"
    /\ LET dollarFits == seen_dollar \/ (opts.allow_currency /\ ~first.seen)
           p == IF dollarFits THEN Eat(text, {"$"}) ELSE text
           d == EatADouble(p, to, FALSE, FALSE)
           q == IF d.seen THEN d.text ELSE text
       IN  /\ to' = d.val
           /\ IF Lacks(Seen(first) + Seen(d))
              THEN Fail /\ text' = p /\ UNCHANGED <<seen_dollar, is_currency>>
              ELSE /\ FinishRange(q) /\ text' = q
                   /\ seen_dollar' = (seen_dollar \/ Dollar(p > text, d))
                   /\ is_currency' = Reported(seen_dollar')
    /\ UNCHANGED <<call, from, first>>

Next == Comparator \/ NoComparator \/ FirstDouble \/ Separator \/ NoSeparator \/ Second

Spec == Init /\ [][Next]_vars

-----------------------------------------------------------------------------
Eaten == SubSeq(input, 1, text)
Succeeded == pc = "done" /\ result

TypeOK == /\ text \in 0..Len(input)
          /\ pc \in {"comparator", "first", "separator", "second", "done"}
          /\ result \in BOOLEAN /\ is_currency \in {"yes", "no", "old"} /\ seen_dollar \in BOOLEAN

\* A successful call stops where a terminator stands or, if that is allowed, at the end;
\* only before a period *end is one less (numbers.cc:232-238).
EndsAtATerminator ==
    Succeeded =>
      /\ IF text = Len(input) THEN opts.null_terminator_ok
                             ELSE Char(text) \in opts.acceptable_terminators
      /\ end = IF Char(text) = "." /\ input[1] \notin {"<", ">"} THEN text - 1 ELSE text

\* A bound that the text leaves open keeps its value or is infinite, as the option says.
OpenBounds == [from |-> IF opts.dont_modify_unbounded THEN OldFrom ELSE Minus(HUGE_VAL),
               to |-> IF opts.dont_modify_unbounded THEN OldTo ELSE HUGE_VAL]

\* If currencies are allowed the call reports one exactly if it ate a dollar; if not, the
\* caller keeps what it had (numbers.cc:143), which may be a stale true.
CurrencyMeansDollar ==
    Succeeded => is_currency = IF ~opts.allow_currency THEN "old"
                               ELSE IF \E i \in DOMAIN Eaten : Eaten[i] = "$" THEN "yes" ELSE "no"

\* As many bounds are given as the options require, unless a comparator gave one.
RequiredBoundsGiven ==
    Succeeded /\ Char(0) \notin {"<", ">"} =>
      opts.num_required_bounds <= Cardinality({b \in {"from", "to"} :
          IF b = "from" THEN from # OpenBounds.from ELSE to # OpenBounds.to})
        + Cardinality({i \in DOMAIN Eaten : Eaten[i] = "?"})

\* What a range looks like in a text: a bound that is open is left out.
Written(f, t, separator) ==
    (IF f = OpenBounds.from THEN <<>> ELSE f) \o separator
    \o (IF t = OpenBounds.to THEN <<>> ELSE t)

Bounds == {<<"1">>, <<"-", "1">>, <<"1", ".", "2">>}

\* A range that was written with a separator is read back with the same bounds.
RangesReadBack ==
    pc = "done" =>
      \A f \in Bounds \cup {OpenBounds.from}, t \in Bounds \cup {OpenBounds.to},
         s \in {IF c = "." THEN <<c, c>> ELSE <<c>> : c \in opts.separators} :
        input = Written(f, t, s) /\ opts.null_terminator_ok
          /\ (opts.num_required_bounds = 0) => result /\ <<from, to>> = <<f, t>>
=============================================================================

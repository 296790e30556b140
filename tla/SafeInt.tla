------------------------------- MODULE SafeInt -------------------------------
(***************************************************************************)
(* One call of safe_strto32_base, safe_strto64_base or one of their        *)
(* unsigned siblings (src/base/numbers.cc:404-595).  A character is its    *)
(* ASCII code.  The loops of safe_parse_positive_int and _negative_int are *)
(* stepped twice a digit, before and after the multiplication, so that     *)
(* value is looked at wherever the code could overflow it.                 *)
(* IntMax stands for the largest value of the signed type: the code never  *)
(* uses more of it than that it is not smaller than a digit.               *)
(***************************************************************************)
EXTENDS Integers, Sequences, FiniteSetsExt

CONSTANTS Texts,   \* the strings parsed
          Bases,   \* the bases asked for, wrong ones included
          IntMax   \* numeric_limits<IntType>::max() of the signed type

ASSUME IntMaxAssumption == IntMax \in Nat /\ IntMax >= 36
ASSUME BasesAssumption == Bases \subseteq Nat

VARIABLES signed,    \* safe_int_internal or safe_uint_internal
          input,     \* the text of the call
          asked,     \* the base of the call
          text,      \* what is left of the StringPiece
          base,      \* *base_ptr
          negative,  \* *negative_ptr
          value,     \* the local value, and *value_p once the call returned
          pc,        \* "sign", "digit", "product", "done"
          ok         \* what the call returned

vars == <<signed, input, asked, text, base, negative, value, pc, ok>>
call == <<signed, input, asked>>

Plus == 43
Minus == 45
Zero == 48
X == {88, 120}

vmax == IF signed THEN IntMax ELSE 2 * IntMax + 1
vmin == IF signed THEN -IntMax - 1 ELSE 0

ascii_isspace(c) == c \in 9..13 \cup {32}

kAsciiToInt(c) == IF c \in 48..57 THEN c - 48
                  ELSE IF c \in 65..90 THEN c - 55
                  ELSE IF c \in 97..122 THEN c - 87 ELSE 36

Init == /\ signed \in BOOLEAN /\ input \in Texts /\ asked \in Bases
        /\ text = input /\ base = asked /\ negative = FALSE
        /\ value = 0 /\ pc = "sign" /\ ok = FALSE

Return(result, v) == pc' = "done" /\ ok' = result /\ value' = v

-----------------------------------------------------------------------------
(* safe_parse_sign_and_base.                                               *)

TrimFront(s) == LET black == {i \in 1..Len(s) : ~ascii_isspace(s[i])}
                IN  IF black = {} THEN <<>> ELSE SubSeq(s, Min(black), Len(s))

Trim(s) == LET black == {i \in 1..Len(s) : ~ascii_isspace(s[i])}
           IN  IF black = {} THEN <<>> ELSE SubSeq(s, Min(black), Max(black))

Drop(s, n) == SubSeq(s, n + 1, Len(s))

HasSign(s) == s # <<>> /\ s[1] \in {Plus, Minus}

SaysHex(s) == Len(s) >= 2 /\ s[1] = Zero /\ s[2] \in X

Unsigned(s) == IF HasSign(s) THEN Drop(s, 1) ELSE s

\* The base the digits are read in and the length of its prefix.
BaseOf(s, b) ==
    IF b = 0 THEN IF SaysHex(s) THEN 16 ELSE IF s[1] = Zero THEN 8 ELSE 10
    ELSE b

PrefixOf(s, b) == IF b \in {0, 16} /\ SaysHex(s) THEN 2
                  ELSE IF b = 0 /\ s[1] = Zero THEN 1 ELSE 0

BadStartAnyBase(s, b) == s = <<>> \/ (b \in {0, 16} /\ SaysHex(s) /\ Len(s) = 2)

BadStart(s, b) == \/ s = <<>>
                  \/ b \in {0, 16} /\ SaysHex(s) /\ Len(s) = 2
                  \/ b # 0 /\ b \notin 2..36

safe_parse_sign_and_base ==
    /\ pc = "sign"
    /\ LET trimmed == Trim(input)
           rest == Unsigned(trimmed)
           minus == trimmed # <<>> /\ trimmed[1] = Minus
       IN  /\ negative' = minus
           /\ IF BadStart(rest, asked) \/ (minus /\ ~signed)
              THEN Return(FALSE, 0) /\ UNCHANGED <<text, base>>
              ELSE /\ base' = BaseOf(rest, asked)
                   /\ text' = Drop(rest, PrefixOf(rest, asked))
                   /\ pc' = "digit"
                   /\ UNCHANGED <<value, ok>>
    /\ UNCHANGED call

-----------------------------------------------------------------------------
(* safe_parse_positive_int and safe_parse_negative_int.  C++ rounds the    *)
(* quotient vmin / base towards zero, so vmin % base is never positive.    *)

vmax_over_base == vmax \div base
vmin_over_base == -((-vmin) \div base)

digit == kAsciiToInt(text[1])
limitAbove == vmax
limit == IF negative THEN vmin ELSE vmax

ProductOverflows == IF negative THEN value < vmin_over_base ELSE value > vmax_over_base
SumUntestedAbove == negative /\ value < vmin + digit
SumOverflowsLate == IF negative THEN value + 1 < vmin + digit ELSE value - 1 > vmax - digit
SumOverflows == IF negative THEN value < vmin + digit ELSE value > vmax - digit

BadDigit == /\ pc = "digit" /\ text # <<>>
            /\ digit >= base
            /\ Return(FALSE, value)
            /\ UNCHANGED <<call, text, base, negative>>

ProductOutOfRange == /\ pc = "digit" /\ text # <<>>
                     /\ digit < base /\ ProductOverflows
                     /\ Return(FALSE, limit)
                     /\ UNCHANGED <<call, text, base, negative>>

Multiply == /\ pc = "digit" /\ text # <<>>
            /\ digit < base /\ ~ProductOverflows
            /\ value' = value * base
            /\ pc' = "product"
            /\ UNCHANGED <<call, text, base, negative, ok>>

SumOutOfRange == /\ pc = "product"
                 /\ SumOverflows
                 /\ Return(FALSE, limit)
                 /\ UNCHANGED <<call, text, base, negative>>

AddDigit == /\ pc = "product"
            /\ ~SumOverflows
            /\ value' = IF negative THEN value - digit ELSE value + digit
            /\ text' = Tail(text)
            /\ pc' = "digit"
            /\ UNCHANGED <<call, base, negative, ok>>

EndOfText == /\ pc = "digit" /\ text = <<>>
             /\ Return(TRUE, value)
             /\ UNCHANGED <<call, text, base, negative>>

Next == \/ safe_parse_sign_and_base
        \/ BadDigit \/ ProductOutOfRange \/ Multiply
        \/ SumOutOfRange \/ AddDigit \/ EndOfText

Spec == Init /\ [][Next]_vars

-----------------------------------------------------------------------------
(* What a numeral denotes, by its grammar instead of by the parser: the    *)
(* text between spaces is a sign, a prefix that the base allows and digits *)
(* of the base.                                                            *)

Forms(b) == CASE b = 0 -> {<<<<>>, 10>>, <<<<Zero>>, 8>>} \cup {<<<<Zero, x>>, 16>> : x \in X}
              [] b = 16 -> {<<<<>>, 16>>} \cup {<<<<Zero, x>>, 16>> : x \in X}
              [] b \in (2..36) \ {16} -> {<<<<>>, b>>}
              [] OTHER -> {}

Body(s) == CHOOSE t \in {SubSeq(s, i, j) : i \in 1..Len(s) + 1, j \in 0..Len(s)} :
             \E i \in 0..Len(s), j \in 0..Len(s) :
               /\ i + Len(t) + j = Len(s)
               /\ t = SubSeq(s, i + 1, i + Len(t))
               /\ \A k \in 1..i : ascii_isspace(s[k])
               /\ \A k \in Len(s) - j + 1..Len(s) : ascii_isspace(s[k])
               /\ t # <<>> => ~ascii_isspace(t[1]) /\ ~ascii_isspace(t[Len(t)])

Digits(s, sign, form) == Drop(s, Len(sign) + Len(form[1]))

IsNumeral(s, sign, form, b) ==
    LET ds == Digits(s, sign, form)
    IN  /\ s = sign \o form[1] \o ds
        /\ ds # <<>> \/ form[1] = <<Zero>>
        /\ \A k \in DOMAIN ds : kAsciiToInt(ds[k]) < form[2]
        /\ b = 0 /\ form[1] = <<>> => ds[1] # Zero

Magnitude(ds, radix) ==
    LET m[n \in 0..Len(ds)] == IF n = 0 THEN 0 ELSE m[n - 1] * radix + kAsciiToInt(ds[n])
    IN  m[Len(ds)]

Signs == {<<>>, <<Plus>>, <<Minus>>}

\* The number input denotes in base asked: no element, or one.
Denotes == {LET m == Magnitude(Digits(Body(input), r[1], r[2]), r[2][2])
            IN  IF r[1] = <<Minus>> THEN -m ELSE m
            : r \in {q \in Signs \X Forms(asked) : IsNumeral(Body(input), q[1], q[2], asked)}}

-----------------------------------------------------------------------------
TypeOK == /\ signed \in BOOLEAN /\ negative \in BOOLEAN /\ ok \in BOOLEAN
          /\ value \in Int /\ base \in Nat
          /\ pc \in {"sign", "digit", "product", "done"}
          /\ pc \in {"digit", "product"} => base \in 2..36

\* The checks before the multiplication and before the addition are exact enough that
\* the local value, the product included, never leaves the integer type (numbers.cc:482-548).
NoOverflow == value \in vmin..vmax

\* A call succeeds if and only if the whole text is one number of the base in the range of
\* the type, and it then stores that number; an unsigned type takes no minus sign.
AcceptsExactly ==
    pc = "done" =>
      (ok <=> /\ Denotes # {} /\ Denotes \subseteq vmin..vmax
              /\ negative => signed)
      /\ (ok => Denotes = {value})

\* A number outside the range is refused, and the stored value is the limit it is beyond.
ClampsToTheLimit ==
    pc = "done" =>
      \A n \in Denotes : /\ n > vmax => ~ok /\ value = vmax
                         /\ n < vmin => ~ok /\ value = vmin
=============================================================================

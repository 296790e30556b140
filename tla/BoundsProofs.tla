----------------------------- MODULE BoundsProofs -----------------------------
(***************************************************************************)
(* Nothing goes out of bounds.  SafeInt: no arithmetic of                  *)
(* safe_parse_positive_int and safe_parse_negative_int leaves the integer  *)
(* type, for every width, text and base.  Pickle: nothing is written or    *)
(* read outside a pickle's block, and what is read is what was written,    *)
(* for every number of pickles, size, unit and sequence of calls.          *)
(***************************************************************************)
EXTENDS SafeInt, Pickle, SequenceTheorems, TLAPS

-----------------------------------------------------------------------------
(* SafeInt.                                                                *)

\* A non-negative number not above a quotient can be multiplied by the divisor.
LEMMA QuotientBoundsProduct ==
    ASSUME NEW v \in Nat, NEW m \in Nat, NEW b \in Nat \ {0}, v <= m \div b
    PROVE  v * b \in Nat /\ v * b <= m
<1> DEFINE q == m \div b
<1>1. q \in Nat /\ q * b <= m
  BY SMT
<1>2. v * b <= q * b
  BY <1>1, SMT
<1> QED
  BY <1>1, <1>2, SMT

\* kAsciiToInt has no other values than 0..36.
LEMMA DigitRange == \A c : kAsciiToInt(c) \in 0..36
BY DEF kAsciiToInt

\* Where the loops are, value has the sign of the number and a base that the parser let through.
Progress == /\ pc \in {"digit", "product"} => /\ base \in 2..36
                                             /\ IF negative THEN signed /\ value <= 0
                                                            ELSE value >= 0
            /\ pc = "sign" => value = 0

Inductive == TypeOK /\ NoOverflow /\ Progress

\* The parser of the sign and base only lets bases from 2 to 36 through.
LEMMA BaseRange ==
    ASSUME NEW s, NEW b \in Nat, ~BadStart(s, b)
    PROVE  BaseOf(s, b) \in 2..36
BY DEF BadStart, BaseOf

\* The limits are on both sides of 0, and of a digit below the lower one.
LEMMA Limits ==
    /\ vmin \in Int /\ vmax \in Nat /\ vmin <= 0 /\ vmax >= 36
    /\ signed => vmin <= -36
BY IntMaxAssumption DEF vmin, vmax

\* A call starts in the invariant.
LEMMA InitInductive == Init => Inductive
<1> SUFFICES ASSUME Init PROVE Inductive
  OBVIOUS
<1>1. /\ value = 0 /\ pc = "sign"
      /\ signed \in BOOLEAN /\ negative \in BOOLEAN /\ ok \in BOOLEAN
  BY Zenon DEF Init
<1>2. base \in Nat
  BY BasesAssumption DEF Init
<1>3. TypeOK
  BY <1>1, <1>2 DEF TypeOK
<1>4. NoOverflow
  BY <1>1, Limits DEF NoOverflow
<1>5. Progress
  BY <1>1 DEF Progress
<1> QED
  BY <1>3, <1>4, <1>5 DEF Inductive

\* A call may return any value of the type.
LEMMA ReturnInductive ==
    ASSUME Inductive, NEW r \in BOOLEAN, NEW v \in vmin..vmax, Return(r, v),
           signed' = signed, base' = base, negative' \in BOOLEAN
    PROVE  Inductive'
<1>1. vmin' = vmin /\ vmax' = vmax
  BY DEF vmin, vmax
<1>2. v \in Int
  BY Limits
<1>3. TypeOK'
  BY <1>2 DEF Return, Inductive, TypeOK
<1>4. NoOverflow'
  BY <1>1 DEF Return, NoOverflow
<1>5. Progress'
  BY DEF Return, Progress
<1> QED
  BY <1>3, <1>4, <1>5 DEF Inductive

\* A loop may go on with any value of the type that has the number's sign.
LEMMA LoopInductive ==
    ASSUME Inductive, pc' \in {"digit", "product"}, value' \in vmin..vmax,
           base' \in 2..36, UNCHANGED <<signed, ok>>, negative' \in BOOLEAN,
           negative' => signed /\ value' <= 0, ~negative' => value' >= 0
    PROVE  Inductive'
<1>1. vmin' = vmin /\ vmax' = vmax
  BY DEF vmin, vmax
<1>2. value' \in Int
  BY Limits
<1>3. TypeOK'
  BY <1>2 DEF Inductive, TypeOK
<1>4. NoOverflow'
  BY <1>1 DEF NoOverflow
<1>5. Progress'
  BY DEF Progress
<1> QED
  BY <1>3, <1>4, <1>5 DEF Inductive

\* Every step of the call keeps the invariant.
LEMMA StepInductive == Inductive /\ asked \in Nat /\ [Next]_vars => Inductive'
<1> SUFFICES ASSUME Inductive, asked \in Nat, [Next]_vars PROVE Inductive'
  OBVIOUS
<1>0. /\ value \in vmin..vmax /\ value \in Int /\ negative \in BOOLEAN
      /\ limit \in vmin..vmax /\ 0 \in vmin..vmax
  BY Limits DEF Inductive, TypeOK, NoOverflow, limit
<1>1. CASE safe_parse_sign_and_base
  <2> DEFINE rest == Unsigned(Trim(input))
             minus == Trim(input) # <<>> /\ Trim(input)[1] = Minus
  <2>1. negative' = minus /\ signed' = signed /\ pc = "sign"
    BY <1>1 DEF safe_parse_sign_and_base, call
  <2>2. negative' \in BOOLEAN
    BY <2>1
  <2>3. CASE BadStart(rest, asked) \/ (minus /\ ~signed)
    <3>1. Return(FALSE, 0) /\ base' = base
      BY <1>1, <2>3 DEF safe_parse_sign_and_base
    <3> QED
      BY <1>0, <2>1, <2>2, <3>1, ReturnInductive
  <2>4. CASE ~(BadStart(rest, asked) \/ (minus /\ ~signed))
    <3>1. base' = BaseOf(rest, asked) /\ pc' = "digit" /\ value' = value /\ ok' = ok
      BY <1>1, <2>4 DEF safe_parse_sign_and_base
    <3>2. base' \in 2..36
      BY <2>4, <3>1, BaseRange
    <3>3. value = 0
      BY <2>1 DEF Inductive, Progress
    <3>4. negative' => signed
      BY <2>1, <2>4, Zenon
    <3> QED
      BY <1>0, <2>1, <2>2, <3>1, <3>2, <3>3, <3>4, LoopInductive
  <2> QED
    BY <2>3, <2>4
<1>2. CASE BadDigit
  BY <1>0, <1>2, ReturnInductive DEF BadDigit, call
<1>3. CASE ProductOutOfRange
  BY <1>0, <1>3, ReturnInductive DEF ProductOutOfRange, call
<1>4. CASE Multiply
  <2>1. /\ value' = value * base /\ pc = "digit" /\ pc' = "product" /\ ~ProductOverflows
        /\ UNCHANGED <<signed, negative, base, ok>>
    BY <1>4 DEF Multiply, call
  <2>2. base \in Nat \ {0} /\ base' \in 2..36
    BY <2>1 DEF Inductive, Progress
  <2>3. CASE ~negative
    <3>1. value \in Nat /\ value <= vmax \div base
      BY <1>0, <2>1, <2>2, <2>3, Limits DEF ProductOverflows, vmax_over_base, Inductive, Progress
    <3>2. value * base \in Nat /\ value * base <= vmax
      BY <2>2, <3>1, Limits, QuotientBoundsProduct
    <3>3. value' \in vmin..vmax /\ value' >= 0
      BY <2>1, <3>2, Limits
    <3> QED
      BY <1>0, <2>1, <2>2, <2>3, <3>3, LoopInductive
  <2>4. CASE negative
    <3>0. signed /\ value <= 0 /\ -vmin \in Nat
      BY <2>1, <2>4, Limits DEF Inductive, Progress
    <3>1. -value \in Nat /\ -value <= (-vmin) \div base
      BY <1>0, <2>1, <2>2, <2>4, <3>0, Limits DEF ProductOverflows, vmin_over_base
    <3>2. (-value) * base \in Nat /\ (-value) * base <= -vmin
      BY <2>2, <3>0, <3>1, QuotientBoundsProduct
    <3>3. value * base \in Int /\ (-value) * base = -(value * base)
      BY <1>0, <2>2
    <3>4. value' \in vmin..vmax /\ value' <= 0
      BY <2>1, <3>2, <3>3, Limits
    <3> QED
      BY <1>0, <2>1, <2>2, <2>4, <3>0, <3>4, LoopInductive
  <2> QED
    BY <2>3, <2>4
<1>5. CASE SumOutOfRange
  BY <1>0, <1>5, ReturnInductive DEF SumOutOfRange, call
<1>6. CASE AddDigit
  <2>1. digit \in 0..36
    BY DigitRange DEF digit
  <2>2. /\ ~SumOverflows /\ pc = "product" /\ pc' = "digit"
        /\ value' = IF negative THEN value - digit ELSE value + digit
        /\ UNCHANGED <<signed, negative, base, ok>>
    BY <1>6 DEF AddDigit, call
  <2>3. /\ base' \in 2..36
        /\ IF negative THEN signed /\ value <= 0 ELSE value >= 0
    BY <2>2 DEF Inductive, Progress
  <2>4. CASE ~negative
    <3>1. value' \in vmin..vmax /\ value' >= 0
      BY <1>0, <2>1, <2>2, <2>3, <2>4, Limits DEF SumOverflows
    <3> QED
      BY <1>0, <2>2, <2>3, <2>4, <3>1, LoopInductive
  <2>5. CASE negative
    <3>1. value' \in vmin..vmax /\ value' <= 0
      BY <1>0, <2>1, <2>2, <2>3, <2>5, Limits DEF SumOverflows
    <3> QED
      BY <1>0, <2>2, <2>3, <2>5, <3>1, LoopInductive
  <2> QED
    BY <2>4, <2>5
<1>7. CASE EndOfText
  BY <1>0, <1>7, ReturnInductive DEF EndOfText, call
<1>8. CASE UNCHANGED vars
  BY <1>8 DEF vars, Inductive, TypeOK, NoOverflow, Progress, vmin, vmax
<1> QED
  BY <1>1, <1>2, <1>3, <1>4, <1>5, <1>6, <1>7, <1>8 DEF Next

\* The base a call was asked for is one of Bases and never changes.
LEMMA AskedIsABase == Spec => [](asked \in Nat)
<1>1. Init => asked \in Nat
  BY BasesAssumption DEF Init
<1>2. asked \in Nat /\ [Next]_vars => (asked \in Nat)'
  BY DEF Next, vars, call, safe_parse_sign_and_base, BadDigit, ProductOutOfRange, Multiply,
         SumOutOfRange, AddDigit, EndOfText
<1> QED
  BY <1>1, <1>2, PTL DEF Spec

\* What the two theorems below rest on: the invariant holds in every state.
LEMMA AlwaysInductive == Spec => []Inductive
BY InitInductive, StepInductive, AskedIsABase, PTL DEF Spec

\* The loops run with a base from 2 to 36, whatever base was asked for
\* (numbers.cc:450-475).
THEOREM TypesHold == Spec => []TypeOK
<1>1. Inductive => TypeOK
  BY DEF Inductive
<1> QED
  BY <1>1, AlwaysInductive, PTL

\* Neither the product nor the sum of an iteration leaves the integer type, for
\* every width of the type (numbers.cc:482-548).
THEOREM ArithmeticStaysInRange == Spec => []NoOverflow
<1>1. Inductive => NoOverflow
  BY DEF Inductive
<1> QED
  BY <1>1, AlwaysInductive, PTL

-----------------------------------------------------------------------------
(* Pickle: sizes.                                                          *)

\* Sizes in words: Align(n, 4) is the first multiple of 4 from n on.
LEMMA WordSizes ==
    ASSUME NEW n \in Nat
    PROVE  /\ Align(n, 4) \in Nat /\ Align(n, 4) >= n /\ Align(n, 4) < n + 4
           /\ Align(n, 4) % 4 = 0
           /\ WordsIn(n) \in Nat /\ 4 * WordsIn(n) = Align(n, 4)
BY SMT DEF Align, WordsIn

\* Offsets and lengths are multiples of 4, and so are their sums.
LEMMA FoursAdd ==
    ASSUME NEW m \in Nat, NEW n \in Nat, m % 4 = 0, n % 4 = 0
    PROVE  (m + n) % 4 = 0 /\ (m + n) \div 4 = m \div 4 + n \div 4
BY SMT

\* Words before an offset and words from it on.
LEMMA WordSizesAdd ==
    ASSUME NEW m \in Nat, NEW n \in Nat, m % 4 = 0
    PROVE  WordsIn(m + n) = m \div 4 + WordsIn(n)
BY SMT DEF Align, WordsIn

\* More bytes are no fewer words.
LEMMA WordSizesGrow ==
    ASSUME NEW m \in Nat, NEW n \in Nat, m <= n
    PROVE  WordsIn(m) <= WordsIn(n)
BY SMT DEF Align, WordsIn

\* A capacity is a multiple of the unit, and large enough.
LEMMA UnitSizes ==
    ASSUME PickleAssumption, NEW n \in Nat
    PROVE  Align(n, Unit) \in Nat /\ Align(n, Unit) >= n /\ Align(n, Unit) % Unit = 0
<1> DEFINE q == (n + Unit - 1) \div Unit
<1>1. Unit \in Nat \ {0}
  BY DEF PickleAssumption
<1>2. q \in Nat /\ q * Unit <= n + Unit - 1 /\ n + Unit - 1 < q * Unit + Unit
  BY <1>1, SMT
<1>3. (q * Unit) % Unit = 0 /\ q * Unit \in Nat
  BY <1>1, <1>2, SMT
<1> QED
  BY <1>1, <1>2, <1>3, SMT DEF Align

\* The smaller of two numbers.
LEMMA MinOfTwo ==
    ASSUME NEW a \in Int, NEW b \in Int
    PROVE  Min({a, b}) = IF a <= b THEN a ELSE b
<1> DEFINE m == IF a <= b THEN a ELSE b
<1>1. m \in {a, b} /\ \A y \in {a, b} : m <= y
  BY SMT
<1>2. \A x \in {a, b} : (\A y \in {a, b} : x <= y) => x = m
  BY SMT
<1> QED
  BY <1>1, <1>2, Zenon DEF Min

\* The larger of two numbers.
LEMMA MaxOfTwo ==
    ASSUME NEW a \in Int, NEW b \in Int
    PROVE  Max({a, b}) = IF a >= b THEN a ELSE b
<1> DEFINE m == IF a >= b THEN a ELSE b
<1>1. m \in {a, b} /\ \A y \in {a, b} : m >= y
  BY SMT
<1>2. \A x \in {a, b} : (\A y \in {a, b} : x >= y) => x = m
  BY SMT
<1> QED
  BY <1>1, <1>2, Zenon DEF Max

\* A claim leaves a capacity for what was claimed.
LEMMA GrowsEnough ==
    ASSUME PickleAssumption, NEW cap \in Nat, cap % Unit = 0, NEW need \in Nat
    PROVE  Grown(cap, need) \in Nat /\ Grown(cap, need) >= need /\ Grown(cap, need) % Unit = 0
<1> DEFINE double  == 2 * cap
           rounded == IF double > HeapAlign THEN Align(double, HeapAlign) - Unit ELSE double
           most == Max({rounded, need})
<1>1. CASE need <= cap
  BY <1>1, SMT DEF Grown
<1>2. CASE need > cap
  <2>1. rounded \in Int
    <3>1. Unit \in Nat /\ HeapAlign \in Nat \ {0}
      BY DEF PickleAssumption
    <3>2. Align(double, HeapAlign) \in Int
      BY <3>1, SMT DEF Align
    <3> QED
      BY <3>1, <3>2
  <2>2. most \in Nat /\ most >= need
    BY <2>1, MaxOfTwo
  <2>3. Grown(cap, need) = Align(most, Unit)
    BY <1>2 DEF Grown
  <2> QED
    BY <2>2, <2>3, UnitSizes
<1> QED
  BY <1>1, <1>2

-----------------------------------------------------------------------------
(* Words.                                                                  *)

\* The words that the actions write are words.
LEMMA WordsAreWords ==
    /\ \A n \in Nat : Number(n) \in Words
    /\ \A i \in Nat : Word(<<>>, i) \in Words
    /\ \A p \in Pickles, k \in Nat, i \in Nat : Word(<<p, k>>, i) \in Words
BY DEF Number, Word, Words

\* Plain types have at least one byte, strings may have none.
LEMMA ItemSizes ==
    ASSUME PickleAssumption, NEW it \in Items
    PROVE  /\ it.size \in Nat
           /\ it.kind \in {"pod", "data"}
           /\ it.kind = "pod" => it.size > 0
<1>1. PodSizes \subseteq Nat /\ \A n \in PodSizes : n > 0
  BY SMT DEF PickleAssumption
<1>2. Lengths \subseteq Nat
  BY DEF PickleAssumption
<1> QED
  BY <1>1, <1>2 DEF Items

\* The words of a value are numbered from 1.
LEMMA ValueWordsAre ==
    ASSUME NEW name \in Pickles \X Nat, NEW n \in Nat
    PROVE  /\ ValueWords(name, n) \in Seq(Words) /\ Len(ValueWords(name, n)) = WordsIn(n)
           /\ \A i \in 1..WordsIn(n) : ValueWords(name, n)[i] = Word(name, i)
<1>1. WordsIn(n) \in Nat
  BY WordSizes
<1>2. \A i \in 1..WordsIn(n) : Word(name, i) \in Words
  BY <1>1 DEF Word, Words
<1> QED
  BY <1>1, <1>2 DEF ValueWords

\* What is written of an item is as long as the sizer says.
LEMMA ImageIs ==
    ASSUME PickleAssumption, NEW it \in Items, NEW name \in Pickles \X Nat
    PROVE  /\ Image(it, name) \in Seq(Words)
           /\ SizerAdd(it) \in Nat /\ SizerAdd(it) = 4 * Len(Image(it, name))
           /\ it.kind = "pod"  => Image(it, name) = ValueWords(name, it.size)
           /\ it.kind = "data" =>
                /\ Image(it, name) = <<Number(it.size)>> \o ValueWords(name, it.size)
                /\ Len(Image(it, name)) = 1 + WordsIn(it.size)
                /\ Image(it, name)[1] = Number(it.size)
                /\ \A i \in 1..WordsIn(it.size) : Image(it, name)[i + 1] = Word(name, i)
<1> DEFINE v == ValueWords(name, it.size)
           l == <<Number(it.size)>>
<1>1. /\ it.size \in Nat /\ it.kind \in {"pod", "data"}
  BY ItemSizes
<1>2. /\ v \in Seq(Words) /\ Len(v) = WordsIn(it.size)
      /\ \A i \in 1..WordsIn(it.size) : v[i] = Word(name, i)
  BY <1>1, ValueWordsAre
<1>3. l \in Seq(Words) /\ Len(l) = 1 /\ l[1] = Number(it.size)
  BY <1>1, WordsAreWords
<1>4. WordsIn(it.size) \in Nat /\ 4 * WordsIn(it.size) = Align(it.size, 4) /\ Align(4, 4) = 4
  <2>1. Align(4, 4) = 4
    BY SMT DEF Align
  <2> QED
    BY <1>1, <2>1, WordSizes, Zenon
<1>5. CASE it.kind = "pod"
  <2>1. Image(it, name) = v
    BY <1>2, <1>5, ConcatEmptySeq DEF Image
  <2>2. SizerAdd(it) = Align(it.size, 4)
    BY <1>5 DEF SizerAdd, AddBytes
  <2>3. Len(v) = WordsIn(it.size)
    BY <1>2
  <2>4. it.kind # "data"
    BY <1>5
  <2> HIDE DEF v
  <2>5. SizerAdd(it) \in Nat /\ SizerAdd(it) = 4 * Len(v)
    BY <1>4, <2>2, <2>3
  <2> QED
    BY <1>2, <2>1, <2>4, <2>5, Zenon DEF v
<1>6. CASE it.kind = "data"
  <2>1. Image(it, name) = l \o v
    BY <1>6 DEF Image
  <2>2. SizerAdd(it) = 4 + Align(it.size, 4)
    BY <1>4, <1>6 DEF SizerAdd, AddBytes
  <2>3. /\ l \o v \in Seq(Words) /\ Len(l \o v) = 1 + WordsIn(it.size)
        /\ \A i \in 1..1 + WordsIn(it.size) : (l \o v)[i] = IF i <= 1 THEN l[i] ELSE v[i - 1]
    BY <1>2, <1>3, ConcatProperties
  <2>4. \A i \in 1..WordsIn(it.size) : (l \o v)[i + 1] = Word(name, i)
    BY <1>2, <1>4, <2>3, SMT
  <2>5. (l \o v)[1] = Number(it.size)
    BY <1>3, <1>4, <2>3, SMT
  <2>6. SizerAdd(it) \in Nat /\ SizerAdd(it) = 4 * Len(l \o v)
    <3>1. Len(l \o v) = 1 + WordsIn(it.size)
      BY <2>3
    <3> HIDE DEF l, v
    <3> QED
      BY <1>4, <2>2, <3>1, SMT
  <2>7. it.kind # "pod"
    BY <1>6
  <2> QED
    BY <2>1, <2>3, <2>4, <2>5, <2>6, <2>7, Zenon
<1> QED
  BY <1>1, <1>5, <1>6

\* What an item takes, in words and in bytes.
LEMMA ImageSizes ==
    ASSUME PickleAssumption, NEW it \in Items, NEW name \in Pickles \X Nat
    PROVE  /\ Image(it, name) \in Seq(Words) /\ SizerAdd(it) \in Nat
           /\ SizerAdd(it) = 4 * Len(Image(it, name))
BY ImageIs, Zenon

\* SubSeq of words, by its elements.
LEMMA PartIs ==
    ASSUME NEW s \in Seq(Words), NEW a \in Nat \ {0}, NEW b \in Nat, b <= Len(s)
    PROVE  /\ SubSeq(s, a, b) \in Seq(Words)
           /\ Len(SubSeq(s, a, b)) = IF a <= b THEN b - a + 1 ELSE 0
           /\ \A i \in 1..b - a + 1 : SubSeq(s, a, b)[i] = s[a + i - 1]
<1>1. a \in Int /\ b \in Int
  OBVIOUS
<1>2. \A i \in a..b : s[i] \in Words
  OBVIOUS
<1> QED
  BY <1>1, <1>2, SubSeqProperties, SMT

\* Words t are n words of s, those behind the first k of them.
IsPart(t, s, k, n) ==
    /\ t \in Seq(Words) /\ Len(t) = (IF n > 0 THEN n ELSE 0)
    /\ \A i \in 1..n : t[i] = s[k + i]

\* The words between two offsets that the words reach.
LEMMA BytesAre ==
    ASSUME NEW s \in Seq(Words), NEW from \in Nat, NEW to \in Nat, WordsIn(to) <= Len(s)
    PROVE  IsPart(Bytes(s, from, to), s, from \div 4, WordsIn(to) - from \div 4)
<1> DEFINE a == from \div 4 + 1
           b == WordsIn(to)
<1>1. a \in Nat \ {0} /\ b \in Nat /\ b <= Len(s)
  <2>1. b \in Nat
    BY WordSizes, Zenon
  <2>2. from \div 4 \in Nat
    BY SMT
  <2> QED
    BY <2>1, <2>2
<1>2. Min({Len(s), b}) = b
  BY <1>1, MinOfTwo
<1>3. Bytes(s, from, to) = SubSeq(s, a, b)
  BY <1>2 DEF Bytes
<1>4. /\ SubSeq(s, a, b) \in Seq(Words)
      /\ Len(SubSeq(s, a, b)) = IF a <= b THEN b - a + 1 ELSE 0
      /\ \A i \in 1..b - a + 1 : SubSeq(s, a, b)[i] = s[a + i - 1]
  BY <1>1, PartIs
<1>5. b - a + 1 = b - from \div 4 /\ \A i \in Nat : a + i - 1 = from \div 4 + i
  BY <1>1
<1> HIDE DEF a, b
<1>6. \A i \in 1..b - from \div 4 : SubSeq(s, a, b)[i] = s[from \div 4 + i]
  BY <1>1, <1>4, <1>5
<1>7. Len(SubSeq(s, a, b)) = IF b - from \div 4 > 0 THEN b - from \div 4 ELSE 0
  BY <1>1, <1>4, <1>5
<1> QED
  BY <1>3, <1>4, <1>6, <1>7 DEF b, IsPart

\* From the beginning, whatever there is.
LEMMA FirstBytesAre ==
    ASSUME NEW s \in Seq(Words), NEW to \in Nat
    PROVE  LET t == Bytes(s, 0, to) IN
           /\ t \in Seq(Words) /\ Len(t) <= WordsIn(to) /\ Len(t) <= Len(s)
           /\ Len(t) = Len(s) \/ Len(t) = WordsIn(to)
           /\ \A i \in 1..Len(t) : t[i] = s[i]
<1> DEFINE n == Min({Len(s), WordsIn(to)})
           t == SubSeq(s, 1, n)
<1>1. WordsIn(to) \in Nat
  BY WordSizes
<1>2. n = IF Len(s) <= WordsIn(to) THEN Len(s) ELSE WordsIn(to)
  BY <1>1, MinOfTwo
<1>3. Bytes(s, 0, to) = SubSeq(s, 1, n)
  BY DEF Bytes
<1> HIDE DEF n
<1>4. n \in Nat /\ n <= Len(s) /\ n <= WordsIn(to) /\ (n = Len(s) \/ n = WordsIn(to))
  BY <1>1, <1>2
<1>5. /\ t \in Seq(Words) /\ Len(t) = IF 1 <= n THEN n - 1 + 1 ELSE 0
      /\ \A i \in 1..n - 1 + 1 : t[i] = s[1 + i - 1]
  BY <1>4, PartIs
<1> HIDE DEF t
<1>6. Len(t) = n /\ \A i \in 1..n : t[i] = s[i]
  BY <1>4, <1>5
<1> QED
  BY <1>3, <1>4, <1>5, <1>6 DEF t

\* Words t are words s with x instead of the first.
BeginsWith(t, s, x) ==
    /\ t \in Seq(Words) /\ Len(t) = Len(s) /\ Len(t) >= 1 /\ t # <<>> /\ t[1] = x
    /\ \A i \in 1..Len(t) : i # 1 => t[i] = s[i]

\* Words with another first one.
LEMMA FirstReplaced ==
    ASSUME NEW s \in Seq(Words), NEW x \in Words, Len(s) >= 1
    PROVE  BeginsWith([s EXCEPT ![1] = x], s, x)
<1> DEFINE t == [s EXCEPT ![1] = x]
<1>1. t \in Seq(Words) /\ Len(t) = Len(s) /\ t[1] = x
  OBVIOUS
<1>2. \A i \in 1..Len(s) : i # 1 => t[i] = s[i]
  OBVIOUS
<1> HIDE DEF t
<1>3. t # <<>>
  BY <1>1
<1> QED
  BY <1>1, <1>2, <1>3 DEF t, BeginsWith

\* Words t are m words, those of s as far as there are any, and words w.
IsPut(t, s, m, w) ==
    /\ t \in Seq(Words) /\ Len(t) = m + Len(w)
    /\ \A i \in 1..m : i <= Len(s) => t[i] = s[i]
    /\ \A j \in 1..Len(w) : t[m + j] = w[j]

\* Words are put behind what there was.
LEMMA PutIs ==
    ASSUME NEW s \in Seq(Words), NEW at \in Nat, NEW w \in Seq(Words)
    PROVE  IsPut(Put(s, at, w), s, at \div 4, w)
<1> DEFINE m == at \div 4
           b == [i \in 1..m |-> IF i <= Len(s) THEN s[i] ELSE Word(<<>>, 0)]
<1>1. m \in Nat
  OBVIOUS
<1>2. b \in Seq(Words) /\ Len(b) = m
  BY <1>1, WordsAreWords
<1>3. /\ b \o w \in Seq(Words) /\ Len(b \o w) = m + Len(w)
      /\ \A i \in 1..m + Len(w) : (b \o w)[i] = IF i <= m THEN b[i] ELSE w[i - m]
  BY <1>2, ConcatProperties
<1>4. Put(s, at, w) = b \o w
  BY DEF Put
<1>5. \A i \in 1..m : i <= Len(s) => (b \o w)[i] = s[i]
  BY <1>1, <1>3
<1>6. \A j \in 1..Len(w) : (b \o w)[m + j] = w[j]
  BY <1>1, <1>3
<1> HIDE DEF b, m
<1> QED
  BY <1>3, <1>4, <1>5, <1>6 DEF IsPut, m

-----------------------------------------------------------------------------
(* Contents.                                                               *)

\* The words of an entry are behind the header and within the payload.
LEMMA EntryIsInside ==
    ASSUME PickleAssumption, NEW e \in Entries, NEW hs \in Nat, NEW size \in Nat,
           hs >= 4, hs % 4 = 0, size % 4 = 0,
           e.at % 4 = 0, e.at + SizerAdd(e.it) <= size,
           NEW j \in 1..Len(Image(e.it, e.name))
    PROVE  /\ (hs + e.at) \div 4 + j \in 2..(hs + size) \div 4
           /\ (hs + e.at) \div 4 = hs \div 4 + e.at \div 4
<1> DEFINE n == Len(Image(e.it, e.name))
           z == SizerAdd(e.it)
           at == e.at
<1>1. e.it \in Items /\ e.name \in Pickles \X Nat /\ at \in Nat
  BY DEF Entries
<1>2. n \in Nat /\ z = 4 * n
  <2>1. Image(e.it, e.name) \in Seq(Words) /\ z = 4 * n
    BY <1>1, ImageIs, Zenon
  <2> QED
    BY <2>1
<1>3. j \in 1..n /\ at % 4 = 0 /\ at + z <= size
  OBVIOUS
<1> HIDE DEF n, z, at
<1>4. (hs + at) \div 4 + j \in 2..(hs + size) \div 4
  BY <1>1, <1>2, <1>3, SMT
<1>5. (hs + at) \div 4 = hs \div 4 + at \div 4
  BY <1>1, <1>3, SMT
<1> QED
  BY <1>4, <1>5 DEF at

\* What has the same words behind the header has the same contents.
LEMMA ContentsCarry ==
    ASSUME PickleAssumption, NEW s \in Seq(Words), NEW t \in Seq(Words),
           NEW hs \in Nat, NEW l \in Seq(Entries), NEW size \in Nat,
           hs >= 4, hs % 4 = 0, Contains(s, hs, l, size),
           hs + size <= 4 * Len(t),
           \A i \in 2..(hs + size) \div 4 : t[i] = s[i]
    PROVE  Contains(t, hs, l, size)
<1>1. /\ size % 4 = 0 /\ (IF l = <<>> THEN size = 0 ELSE l[1].at = 0)
      /\ \A k \in 1..Len(l) :
           /\ l[k].at % 4 = 0 /\ l[k].at + SizerAdd(l[k].it) <= size
           /\ l[k].at + SizerAdd(l[k].it) = (IF k = Len(l) THEN size ELSE l[k + 1].at)
           /\ \A j \in 1..Len(Image(l[k].it, l[k].name)) :
                 s[(hs + l[k].at) \div 4 + j] = Image(l[k].it, l[k].name)[j]
  BY DEF Contains
<1>2. ASSUME NEW k \in 1..Len(l), NEW j \in 1..Len(Image(l[k].it, l[k].name))
      PROVE  t[(hs + l[k].at) \div 4 + j] = Image(l[k].it, l[k].name)[j]
  <2>1. l[k] \in Entries
    OBVIOUS
  <2>2. (hs + l[k].at) \div 4 + j \in 2..(hs + size) \div 4
    BY <1>1, <2>1, EntryIsInside
  <2> QED
    BY <1>1, <2>2
<1> QED
  BY <1>1, <1>2 DEF Contains

\* What fits fits into more.
LEMMA MoreRoom ==
    ASSUME NEW a \in Nat, NEW b \in Nat, NEW c \in Nat, NEW z \in Nat, a + b <= c
    PROVE  a + b <= c + z
OBVIOUS

\* An item is written where the contents end.
LEMMA ContentsGrow ==
    ASSUME PickleAssumption, NEW s \in Seq(Words), NEW t \in Seq(Words),
           NEW hs \in Nat, NEW l \in Seq(Entries), NEW size \in Nat,
           NEW it \in Items, NEW name \in Pickles \X Nat,
           hs >= 4, hs % 4 = 0, Contains(s, hs, l, size),
           hs + size + SizerAdd(it) <= 4 * Len(t),
           \A i \in 2..(hs + size) \div 4 : t[i] = s[i],
           \A j \in 1..Len(Image(it, name)) : t[(hs + size) \div 4 + j] = Image(it, name)[j]
    PROVE  Contains(t, hs, Append(l, [it |-> it, name |-> name, at |-> size]), size + SizerAdd(it))
<1> DEFINE e == [it |-> it, name |-> name, at |-> size]
           m == Append(l, e)
           z == SizerAdd(it)
           Fits(k) == /\ m[k].at % 4 = 0 /\ m[k].at + SizerAdd(m[k].it) <= size + z
                      /\ m[k].at + SizerAdd(m[k].it) = (IF k = Len(m) THEN size + z ELSE m[k + 1].at)
                      /\ \A j \in 1..Len(Image(m[k].it, m[k].name)) :
                            t[(hs + m[k].at) \div 4 + j] = Image(m[k].it, m[k].name)[j]
<1>1. /\ size % 4 = 0 /\ (IF l = <<>> THEN size = 0 ELSE l[1].at = 0)
      /\ \A k \in 1..Len(l) :
           /\ l[k].at % 4 = 0 /\ l[k].at + SizerAdd(l[k].it) <= size
           /\ l[k].at + SizerAdd(l[k].it) = (IF k = Len(l) THEN size ELSE l[k + 1].at)
           /\ \A j \in 1..Len(Image(l[k].it, l[k].name)) :
                 s[(hs + l[k].at) \div 4 + j] = Image(l[k].it, l[k].name)[j]
  BY DEF Contains
<1>2. /\ z \in Nat /\ z % 4 = 0
  <2>1. z \in Nat /\ z = 4 * Len(Image(it, name)) /\ Image(it, name) \in Seq(Words)
    BY ImageIs
  <2>2. Len(Image(it, name)) \in Nat
    BY <2>1
  <2> QED
    BY <2>1, <2>2, SMT
<1>3. e \in Entries /\ m \in Seq(Entries) /\ Len(m) = Len(l) + 1 /\ m[Len(l) + 1] = e
      /\ \A k \in 1..Len(l) : m[k] = l[k]
  BY DEF Entries
<1>4. ASSUME NEW k \in 1..Len(l)
      PROVE  Fits(k)
  <2>1. l[k] \in Entries /\ m[k] = l[k] /\ k # Len(m)
    BY <1>3
  <2>2. m[k + 1] = IF k = Len(l) THEN e ELSE l[k + 1]
    BY <1>3
  <2>3. l[k].at \in Nat /\ l[k].it \in Items /\ l[k].name \in Pickles \X Nat
    BY <2>1 DEF Entries
  <2>4. SizerAdd(l[k].it) \in Nat
    BY <2>3, ImageIs
  <2>5. l[k].at + SizerAdd(l[k].it) = m[k + 1].at
    <3>1. e.at = size
      OBVIOUS
    <3> HIDE DEF e, m
    <3> QED
      BY <1>1, <2>2, <3>1
  <2>6. l[k].at + SizerAdd(l[k].it) <= size + z
    <3>1. l[k].at + SizerAdd(l[k].it) <= size
      BY <1>1
    <3>2. z \in Nat
      BY <1>2, Zenon
    <3> QED
      BY <2>3, <2>4, <3>1, <3>2, MoreRoom, Zenon
  <2>7. ASSUME NEW j \in 1..Len(Image(l[k].it, l[k].name))
        PROVE  t[(hs + l[k].at) \div 4 + j] = Image(l[k].it, l[k].name)[j]
    <3>1. (hs + l[k].at) \div 4 + j \in 2..(hs + size) \div 4
      BY <1>1, <2>1, EntryIsInside
    <3>2. s[(hs + l[k].at) \div 4 + j] = Image(l[k].it, l[k].name)[j]
      BY <1>1, Zenon
    <3> QED
      BY <3>1, <3>2, Zenon
  <2> QED
    BY <1>1, <2>1, <2>5, <2>6, <2>7
<1>5. Fits(Len(m))
  <2>1. m[Len(m)] = e
    BY <1>3
  <2>2. e.at = size /\ e.it = it /\ e.name = name
    OBVIOUS
  <2>3. size % 4 = 0 /\ size + z <= size + z
    <3>1. size % 4 = 0 /\ z \in Nat
      BY <1>1, <1>2
    <3> HIDE DEF e, m, z
    <3> QED
      BY <3>1
  <2> HIDE DEF e, m
  <2> QED
    BY <2>1, <2>2, <2>3, Zenon
<1>6. m # <<>> /\ m[1].at = 0
  <2>1. e.at = size
    OBVIOUS
  <2>2. Len(m) > 0 /\ Len(l) \in Nat
    BY <1>3
  <2>3. CASE l = <<>>
    <3>1. Len(l) + 1 = 1
      BY <2>3
    <3> QED
      BY <1>1, <1>3, <2>1, <2>2, <2>3, <3>1
  <2>4. CASE l # <<>>
    <3>1. 1 \in 1..Len(l)
      BY <2>4
    <3> HIDE DEF m
    <3> QED
      BY <1>1, <1>3, <2>2, <2>4, <3>1
  <2> QED
    BY <2>3, <2>4
<1>7. \A k \in 1..Len(m) : Fits(k)
  <2>1. \A k \in 1..Len(m) : k \in 1..Len(l) \/ k = Len(m)
    BY <1>3
  <2> QED
    BY <1>4, <1>5, <2>1, Zenon
<1>8. (size + z) % 4 = 0
  BY <1>1, <1>2, FoursAdd, Zenon
<1>9. hs + (size + z) <= 4 * Len(t)
  BY <1>2
<1> QED
  BY <1>6, <1>7, <1>8, <1>9, Zenon DEF Contains

\* What a claim of the words v at offset at leaves: room, what was there before, and v behind it.
Claimed(r, at, w, hs, v) ==
    LET m == (hs + at) \div 4 IN
    /\ r = [at |-> r.at, cap |-> r.cap, words |-> r.words]
    /\ r.at \in Nat /\ r.at = at + 4 * Len(v) /\ r.at % 4 = 0
    /\ r.cap \in Nat /\ r.cap >= r.at /\ r.cap % Unit = 0
    /\ r.words \in Seq(Words) /\ Len(r.words) = m + Len(v)
    /\ 4 * Len(r.words) = hs + r.at /\ (hs + r.at) \div 4 = m + Len(v)
    /\ \A i \in 1..m : i <= Len(w) => r.words[i] = w[i]
    /\ \A j \in 1..Len(v) : r.words[m + j] = v[j]

\* A claim leaves what Claimed says.
LEMMA ClaimIs ==
    ASSUME PickleAssumption, NEW at \in Nat, NEW cap \in Nat, NEW w \in Seq(Words),
           NEW hs \in Nat, NEW v \in Seq(Words), cap % Unit = 0, hs % 4 = 0, at % 4 = 0
    PROVE  Claimed(Claim([at |-> at, cap |-> cap, words |-> w], hs, v), at, w, hs, v)
<1> DEFINE n == Len(v)
           m == (hs + at) \div 4
           need == at + 4 * n
           new == Put(w, hs + at, v)
           r == Claim([at |-> at, cap |-> cap, words |-> w], hs, v)
<1>1. n \in Nat
  OBVIOUS
<1>2. /\ hs + at \in Nat /\ m \in Nat /\ 4 * m = hs + at
      /\ need \in Nat /\ need % 4 = 0
      /\ 4 * (m + n) = hs + need /\ (hs + need) \div 4 = m + n
  <2> HIDE DEF n
  <2> QED
    BY <1>1, SMT
<1>3. Grown(cap, need) \in Nat /\ Grown(cap, need) >= need /\ Grown(cap, need) % Unit = 0
  BY <1>2, GrowsEnough
<1>4. /\ new \in Seq(Words) /\ Len(new) = m + n
      /\ \A i \in 1..m : i <= Len(w) => new[i] = w[i]
      /\ \A j \in 1..n : new[m + j] = v[j]
  <2>1. hs + at \in Nat
    BY <1>2
  <2>2. IsPut(new, w, m, v)
    BY <2>1, PutIs, Zenon
  <2> HIDE DEF new, m
  <2> QED
    BY <2>2, Zenon DEF IsPut, n
<1>5. r = [at |-> need, cap |-> Grown(cap, need), words |-> new]
  BY DEF Claim
<1> HIDE DEF n, m, need, new
<1>6. 4 * Len(new) = hs + need
  BY <1>2, <1>4
<1>7. /\ r.at = need /\ r.cap = Grown(cap, need) /\ r.words = new
      /\ r = [at |-> r.at, cap |-> r.cap, words |-> r.words]
  BY <1>5
<1> HIDE DEF r
<1>8. /\ r.at \in Nat /\ r.at % 4 = 0 /\ r.cap \in Nat /\ r.cap >= r.at /\ r.cap % Unit = 0
      /\ r.words \in Seq(Words) /\ Len(r.words) = m + n
      /\ 4 * Len(r.words) = hs + r.at /\ (hs + r.at) \div 4 = m + n
  BY <1>2, <1>3, <1>4, <1>6, <1>7
<1>9. /\ r.at = at + 4 * n
      /\ \A i \in 1..m : i <= Len(w) => r.words[i] = w[i]
      /\ \A j \in 1..n : r.words[m + j] = v[j]
  BY <1>4, <1>7, Zenon DEF need
<1> QED
  BY <1>7, <1>8, <1>9, Zenon DEF Claimed, n, m, r

\* An item is written where its offset was; what was there before is left.
ItemWritten(r, at, w, hs, it, name) ==
    LET m == (hs + at) \div 4
    IN  /\ r.at \in Nat /\ r.at = at + SizerAdd(it) /\ r.at % 4 = 0
        /\ r.cap \in Nat /\ r.cap >= r.at /\ r.cap % Unit = 0
        /\ r.words \in Seq(Words) /\ 4 * Len(r.words) = hs + r.at
        /\ \A i \in 1..m : i <= Len(w) => r.words[i] = w[i]
        /\ \A j \in 1..Len(Image(it, name)) : r.words[m + j] = Image(it, name)[j]

LEMMA WrittenIs ==
    ASSUME PickleAssumption, NEW at \in Nat, NEW cap \in Nat, NEW w \in Seq(Words),
           NEW hs \in Nat, NEW it \in Items, NEW name \in Pickles \X Nat,
           cap % Unit = 0, hs % 4 = 0, at % 4 = 0
    PROVE  ItemWritten(Written([at |-> at, cap |-> cap, words |-> w], hs, it, name), at, w, hs, it, name)
<1> DEFINE s == [at |-> at, cap |-> cap, words |-> w]
           m == (hs + at) \div 4
           v == ValueWords(name, it.size)
           l == <<Number(it.size)>>
           r == Written(s, hs, it, name)
<1> SUFFICES ItemWritten(r, at, w, hs, it, name)
  BY Zenon
<1>1. it.size \in Nat /\ it.kind \in {"pod", "data"}
  BY ItemSizes
<1>2. /\ v \in Seq(Words) /\ Len(v) = WordsIn(it.size)
      /\ \A i \in 1..WordsIn(it.size) : v[i] = Word(name, i)
  BY <1>1, ValueWordsAre
<1>3. l \in Seq(Words) /\ Len(l) = 1 /\ l[1] = Number(it.size)
  BY <1>1, WordsAreWords
<1>4. m \in Nat /\ hs + at = 4 * m
  BY SMT
<1>5. CASE it.kind = "pod"
  <2>1. Image(it, name) = v /\ SizerAdd(it) = 4 * Len(v)
    BY <1>5, ImageIs
  <2>2. r = Claim(s, hs, v)
    BY <1>5 DEF Written
  <2>3. /\ r.at \in Nat /\ r.at = at + 4 * Len(v) /\ r.at % 4 = 0
        /\ r.cap \in Nat /\ r.cap >= r.at /\ r.cap % Unit = 0
        /\ r.words \in Seq(Words) /\ 4 * Len(r.words) = hs + r.at
        /\ \A i \in 1..m : i <= Len(w) => r.words[i] = w[i]
        /\ \A j \in 1..Len(v) : r.words[m + j] = v[j]
    <3>1. Claimed(Claim(s, hs, v), at, w, hs, v)
      BY <1>2, ClaimIs, Zenon
    <3>2. Claimed(r, at, w, hs, v)
      BY <2>2, <3>1, Zenon
    <3> HIDE DEF r, v, s
    <3> QED
      BY <3>2, Zenon DEF Claimed
  <2> HIDE DEF r, v
  <2> QED
    BY <2>1, <2>3, Zenon DEF ItemWritten
<1>6. CASE it.kind = "data"
  <2> DEFINE c == Claim(s, hs, l)
             n == WordsIn(it.size)
  <2>1. /\ SizerAdd(it) = 4 * Len(Image(it, name)) /\ Len(Image(it, name)) = 1 + n
        /\ Image(it, name)[1] = Number(it.size)
        /\ \A i \in 1..n : Image(it, name)[i + 1] = Word(name, i)
    BY <1>6, ImageIs, Zenon
  <2>2. /\ c = [at |-> c.at, cap |-> c.cap, words |-> c.words]
        /\ c.at \in Nat /\ c.at = at + 4 * Len(l) /\ c.at % 4 = 0
        /\ c.cap \in Nat /\ c.cap % Unit = 0
        /\ c.words \in Seq(Words) /\ Len(c.words) = m + Len(l) /\ (hs + c.at) \div 4 = m + Len(l)
        /\ \A i \in 1..m : i <= Len(w) => c.words[i] = w[i]
        /\ \A j \in 1..Len(l) : c.words[m + j] = l[j]
    <3>1. Claimed(c, at, w, hs, l)
      BY <1>3, ClaimIs, Zenon
    <3> HIDE DEF c, l, s
    <3> QED
      BY <3>1, Zenon DEF Claimed
  <2>3. r = Claim([at |-> c.at, cap |-> c.cap, words |-> c.words], hs, v)
    <3>1. it.kind = "data"
      BY <1>6
    <3> QED
      BY <2>2, <3>1, Zenon DEF Written
  <2> HIDE DEF c, l, v, m, r
  <2>4. /\ r.at \in Nat /\ r.at = c.at + 4 * Len(v) /\ r.at % 4 = 0
        /\ r.cap \in Nat /\ r.cap >= r.at /\ r.cap % Unit = 0
        /\ r.words \in Seq(Words) /\ 4 * Len(r.words) = hs + r.at
        /\ \A i \in 1..(hs + c.at) \div 4 : i <= Len(c.words) => r.words[i] = c.words[i]
        /\ \A j \in 1..Len(v) : r.words[(hs + c.at) \div 4 + j] = v[j]
    <3>1. Claimed(r, c.at, c.words, hs, v)
      BY <1>2, <2>2, <2>3, ClaimIs, Zenon
    <3> QED
      BY <3>1, Zenon DEF Claimed
  <2>5. n \in Nat
    BY <1>1, WordSizes, Zenon
  <2> HIDE DEF n
  <2>6. (hs + c.at) \div 4 = m + 1 /\ Len(c.words) = m + 1 /\ c.words[m + 1] = Number(it.size)
    <3>1. 1 \in 1..Len(l) /\ l[1] = Number(it.size) /\ Len(l) = 1
      BY <1>3
    <3>2. (hs + c.at) \div 4 = m + Len(l) /\ Len(c.words) = m + Len(l)
      BY <2>2
    <3>3. c.words[m + 1] = l[1]
      BY <2>2, <3>1, Zenon
    <3> QED
      BY <3>1, <3>2, <3>3
  <2>7. r.at = at + SizerAdd(it)
    <3>1. Len(v) = n /\ Len(l) = 1 /\ SizerAdd(it) = 4 * (1 + n)
      BY <1>2, <1>3, <2>1 DEF n
    <3>2. r.at = c.at + 4 * Len(v) /\ c.at = at + 4 * Len(l)
      BY <2>2, <2>4
    <3> QED
      BY <2>5, <3>1, <3>2
  <2>8. ASSUME NEW i \in 1..m, i <= Len(w)
        PROVE  r.words[i] = w[i]
    <3>1. i \in 1..m + 1 /\ i <= m + 1
      BY <1>4
    <3>2. r.words[i] = c.words[i]
      BY <2>4, <2>6, <3>1
    <3> QED
      BY <2>2, <2>8, <3>2
  <2>9. \A j \in 1..Len(Image(it, name)) : r.words[m + j] = Image(it, name)[j]
    <3>1. r.words[m + 1] = Image(it, name)[1]
      BY <1>4, <2>1, <2>4, <2>6
    <3>2. ASSUME NEW i \in 1..n
          PROVE  r.words[m + (i + 1)] = Image(it, name)[i + 1]
      <4>1. r.words[m + 1 + i] = v[i]
        BY <1>2, <2>4, <2>6 DEF n
      <4>2. m + 1 + i = m + (i + 1)
        BY <1>4, <2>5
      <4> QED
        BY <1>2, <2>1, <4>1, <4>2 DEF n
    <3>3. ASSUME NEW j \in 1..1 + n
          PROVE  r.words[m + j] = Image(it, name)[j]
      <4>1. CASE j = 1
        BY <3>1, <4>1
      <4>2. CASE j # 1
        <5>1. j - 1 \in 1..n /\ (j - 1) + 1 = j
          BY <2>5, <4>2
        <5> QED
          BY <3>2, <5>1
      <4> QED
        BY <4>1, <4>2
    <3> QED
      BY <2>1, <3>3
  <2> QED
    BY <2>4, <2>7, <2>8, <2>9 DEF ItemWritten, m
<1> QED
  BY <1>1, <1>5, <1>6

-----------------------------------------------------------------------------
(* What the invariant says of one pickle.                                  *)

Block == [words : Seq(Words), bytes : Nat]

\* The type invariant, of one pickle.
LEMMA TypesAre ==
    ASSUME PickleTypeOK, NEW p \in Pickles
    PROVE  /\ header[p] \in Where \cup {NULL} /\ headerSize[p] \in Nat
           /\ capacity[p] \in Nat \cup {ReadOnly} /\ writeOffset[p] \in Nat
           /\ log[p] \in Seq(Entries) /\ sizer[p] \in Nat /\ known[p] \in BOOLEAN
           /\ p \in Where /\ \A b \in Where : mem[b] \in Block
BY DEF PickleTypeOK, Where, Heap, Block

\* A pickle with a header begins with its payload size, and has all of the payload.
LEMMA HeaderIs ==
    ASSUME PickleAssumption, PickleInv, NEW p \in Pickles, HasHeader(p)
    PROVE  LET w == mem[header[p]].words IN
           /\ header[p] \in Where /\ mem[header[p]].bytes \in Nat
           /\ w \in Seq(Words) /\ w # <<>> /\ Len(w) >= 1
           /\ w[1] \in Words /\ w[1].kind = "number" /\ w[1].n = PayloadSize(p)
           /\ PayloadSize(p) \in Nat /\ headerSize[p] \in Nat
           /\ headerSize[p] >= 4 /\ headerSize[p] % 4 = 0
           /\ headerSize[p] + PayloadSize(p) <= 4 * Len(w)
<1> DEFINE w == mem[header[p]].words
<1>1. PickleTypeOK /\ PickleKnown(p) /\ BlocksKnown
  BY DEF PickleInv
<1>2. header[p] \in Where
  BY <1>1, TypesAre DEF HasHeader
<1>3. w \in Seq(Words) /\ mem[header[p]].bytes \in Nat /\ headerSize[p] \in Nat
  BY <1>1, <1>2, TypesAre DEF Block
<1>4. /\ headerSize[p] >= 4 /\ headerSize[p] % 4 = 0 /\ mem[header[p]] # NoBlock
      /\ headerSize[p] + PayloadSize(p) <= 4 * Len(w)
  BY <1>1 DEF PickleKnown
<1>5. w # <<>> /\ w[1].kind = "number"
  BY <1>1, <1>2, <1>4 DEF BlocksKnown
<1>6. PayloadSize(p) = w[1].n
  BY DEF PayloadSize, Field, HasHeader
<1> HIDE DEF w
<1>7. Len(w) >= 1 /\ w[1] \in Words
  BY <1>3, <1>5
<1>8. w[1].n \in Nat
  BY <1>7 DEF Words
<1> QED
  BY <1>2, <1>3, <1>4, <1>5, <1>6, <1>7, <1>8, Zenon DEF w

\* PayloadSize is never negative.
LEMMA PayloadSizes ==
    ASSUME PickleAssumption, PickleInv, NEW p \in Pickles
    PROVE  PayloadSize(p) \in Nat
<1>1. CASE HasHeader(p)
  BY <1>1, HeaderIs
<1>2. CASE ~HasHeader(p)
  BY <1>2 DEF HasHeader, PayloadSize
<1> QED
  BY <1>1, <1>2

\* A pickle that writes does so to the block it was given; for another that block is free.
LEMMA OwnBlockIs ==
    ASSUME PickleAssumption, PickleInv, NEW p \in Pickles
    PROVE  /\ Writable(p) => header[p] = p
           /\ ~Writable(p) => mem[p] = NoBlock
           /\ (IF Writable(p) THEN header[p] ELSE FreshBlock(p)) = p
           /\ ~Exists(p) => ~Writable(p) /\ FreshBlock(p) = p
<1>1. PickleKnown(p) /\ BlocksKnown
  BY DEF PickleInv
<1>2. Writable(p) => header[p] = p
  BY <1>1 DEF PickleKnown
<1>3. ~Writable(p) => mem[p] = NoBlock
  BY <1>1 DEF BlocksKnown, Heap
<1>4. ~Exists(p) => ~Writable(p)
  BY DEF Exists, Writable, HasHeader
<1> QED
  BY <1>2, <1>3, <1>4 DEF FreshBlock

\* A header that is not in a pickle's own block is in a buffer, and no two pickles share a block.
LEMMA HeadersApart ==
    ASSUME PickleAssumption, PickleInv, NEW p \in Pickles, HasHeader(p)
    PROVE  header[p] \in {p} \cup Buffers
BY DEF PickleInv, PickleKnown

\* What is copied from a pickle: its header and payload, with all it contains.
LEMMA DataIs ==
    ASSUME PickleAssumption, PickleInv, NEW p \in Pickles, HasHeader(p)
    PROVE  LET t == DataOf(p) IN
           /\ t \in Seq(Words) /\ t # <<>> /\ t[1] = mem[header[p]].words[1]
           /\ Len(t) = WordsIn(headerSize[p] + PayloadSize(p))
           /\ known[p] => Contains(t, headerSize[p], log[p], sizer[p])
<1> DEFINE w == mem[header[p]].words
           t == DataOf(p)
           hs == headerSize[p]
           n == PayloadSize(p)
<1>1. /\ w \in Seq(Words) /\ Len(w) >= 1
      /\ n \in Nat /\ hs \in Nat /\ hs >= 4 /\ hs % 4 = 0 /\ hs + n <= 4 * Len(w)
  BY HeaderIs
<1>2. t = Bytes(w, 0, hs + n)
  BY DEF DataOf
<1> HIDE DEF w, n, hs
<1>3. hs + n \in Nat
  BY <1>1
<1>4. WordsIn(hs + n) <= Len(w) /\ WordsIn(hs + n) \in Nat /\ WordsIn(hs + n) >= 1 /\ 4 * WordsIn(hs + n) >= hs + n
  <2>1. Len(w) \in Nat
    BY <1>1
  <2>2. WordsIn(hs + n) <= Len(w)
    BY <1>1, <1>3, <2>1, SMT DEF WordsIn, Align
  <2>3. WordsIn(hs + n) \in Nat /\ 4 * WordsIn(hs + n) >= hs + n
    BY <1>3, WordSizes, Zenon
  <2> QED
    BY <1>1, <2>2, <2>3
<1> DEFINE u == Bytes(w, 0, hs + n)
<1>5. /\ u \in Seq(Words) /\ Len(u) <= WordsIn(hs + n)
      /\ Len(u) = Len(w) \/ Len(u) = WordsIn(hs + n)
      /\ \A i \in 1..Len(u) : u[i] = w[i]
  BY <1>1, <1>3, FirstBytesAre, Zenon
<1> HIDE DEF u
<1>6. Len(u) = WordsIn(hs + n)
  BY <1>1, <1>4, <1>5
<1>7. u # <<>> /\ u[1] = w[1]
  BY <1>4, <1>5, <1>6
<1>8. ASSUME known[p]
      PROVE  Contains(u, hs, log[p], sizer[p])
  <2>1. PickleTypeOK /\ ContentsKnown(p)
    BY DEF PickleInv
  <2>2. n = sizer[p] /\ Contains(w, hs, log[p], sizer[p])
    BY <1>8, <2>1 DEF ContentsKnown, w, n, hs
  <2>3. log[p] \in Seq(Entries) /\ sizer[p] \in Nat
    BY <2>1, TypesAre
  <2>4. hs + sizer[p] <= 4 * Len(u)
    BY <1>4, <1>6, <2>2
  <2>5. \A i \in 2..(hs + sizer[p]) \div 4 : u[i] = w[i]
    <3>1. (hs + sizer[p]) \div 4 <= Len(u)
      BY <1>1, <1>4, <1>6, <2>2, SMT
    <3> QED
      BY <1>5, <3>1, <1>1, <2>3
  <2> QED
    BY <1>1, <1>5, <2>2, <2>3, <2>4, <2>5, ContentsCarry
<1> QED
  BY <1>2, <1>5, <1>6, <1>7, <1>8, Zenon DEF u, w, hs, n

-----------------------------------------------------------------------------
(* Steps.  Most change one pickle, with its block.                         *)

OthersKeep(p) ==
    /\ \A q \in Pickles \ {p} : /\ header'[q] = header[q] /\ headerSize'[q] = headerSize[q]
                                /\ capacity'[q] = capacity[q] /\ writeOffset'[q] = writeOffset[q]
    /\ \A q \in (Pickles \cup Buffers) \ {p} : log'[q] = log[q] /\ sizer'[q] = sizer[q] /\ known'[q] = known[q]
    /\ \A b \in Where \ {p} : mem'[b] = mem[b]

\* What the block of a pickle is after a step.
BlockKnown(p) ==
    mem[p] # NoBlock => /\ header[p] = p /\ Writable(p)
                        /\ mem[p].words # <<>> /\ mem[p].words[1].kind = "number"
                        /\ Len(mem[p].words) <= WordsIn(mem[p].bytes)

\* What is not touched stays known.
LEMMA PickleKeeps ==
    ASSUME PickleAssumption, NEW p \in Pickles, PickleKnown(p), ContentsKnown(p),
           header'[p] = header[p], headerSize'[p] = headerSize[p],
           capacity'[p] = capacity[p], writeOffset'[p] = writeOffset[p],
           log'[p] = log[p], sizer'[p] = sizer[p], known'[p] = known[p],
           HasHeader(p) => mem'[header[p]] = mem[header[p]]
    PROVE  PickleKnown(p)' /\ ContentsKnown(p)'
<1>1. HasHeader(p)' = HasHeader(p) /\ Writable(p)' = Writable(p)
  BY DEF HasHeader, Writable, NULL, ReadOnly
<1>2. PayloadSize(p)' = PayloadSize(p)
  BY DEF HasHeader, PayloadSize, Field, NULL
<1>3. PickleKnown(p)'
  <2>1. Writable(p) => HasHeader(p)
    BY DEF Writable
  <2>2. CASE ~HasHeader(p)
    BY <1>1, <2>1, <2>2 DEF PickleKnown
  <2>3. CASE HasHeader(p)
    <3>1. mem'[header'[p]] = mem[header[p]] /\ NoBlock' = NoBlock
      BY <2>3 DEF NoBlock
    <3> QED
      BY <1>1, <1>2, <2>3, <3>1 DEF PickleKnown
  <2> QED
    BY <2>2, <2>3
<1>4. ContentsKnown(p)'
  BY <1>1, <1>2 DEF ContentsKnown
<1> QED
  BY <1>3, <1>4

\* Data that nobody touches stays what it was.
LEMMA BufferKeeps ==
    ASSUME NEW f \in Buffers, ArrivalKnown(f),
           log'[f] = log[f], sizer'[f] = sizer[f], known'[f] = known[f], mem'[f] = mem[f]
    PROVE  ArrivalKnown(f)'
BY DEF ArrivalKnown, Field, NoBlock

\* Nobody reads.
LEMMA QuietKeeps ==
    ASSUME PickleInv, Quiet, UNCHANGED <<iter, last>>
    PROVE  (IteratorKnown /\ ReadsStayInside /\ RoundTrip)'
<1>1. iter = NoIter /\ last = NoRead
  BY DEF PickleInv, IteratorKnown, Quiet, NoIter
<1>2. iter' = NoIter /\ last' = NoRead
  BY <1>1
<1> QED
  BY <1>2 DEF IteratorKnown, ReadsStayInside, RoundTrip, NoIter, NoRead

\* A step that changes one pickle and its block keeps the invariant if that pickle is as it
\* should be afterwards.
LEMMA StepOfOne ==
    ASSUME PickleAssumption, PickleInv, NEW p \in Pickles, Quiet, UNCHANGED <<iter, last>>,
           OthersKeep(p), PickleTypeOK', BlockKnown(p)', PickleKnown(p)', ContentsKnown(p)'
    PROVE  PickleInv'
<1>1. BlocksKnown'
  <2>1. BlocksKnown
    BY DEF PickleInv
  <2>2. ASSUME NEW b \in Heap, b # p, mem'[b] # NoBlock
        PROVE  b \in Pickles /\ header'[b] = b /\ Writable(b)'
    <3>1. mem[b] # NoBlock
      BY <2>2 DEF OthersKeep, Where
    <3>2. b \in Pickles /\ header[b] = b /\ Writable(b)
      BY <2>1, <2>2, <3>1 DEF BlocksKnown
    <3> QED
      BY <2>2, <3>2 DEF OthersKeep, Writable, HasHeader
  <2>3. ASSUME NEW b \in Where, b # p, mem'[b] # NoBlock
        PROVE  /\ mem'[b].words # <<>> /\ mem'[b].words[1].kind = "number"
               /\ Len(mem'[b].words) <= WordsIn(mem'[b].bytes)
    <3>1. mem'[b] = mem[b]
      BY <2>3 DEF OthersKeep
    <3> QED
      BY <2>1, <2>3, <3>1 DEF BlocksKnown
  <2>4. \A f \in Buffers : Len(mem'[f].words) = WordsIn(mem'[f].bytes)
    <3>1. \A f \in Buffers : f # p /\ f \in Where
      BY DEF PickleAssumption, Where
    <3> QED
      BY <2>1, <3>1 DEF OthersKeep, BlocksKnown
  <2>5. NoBlock' = NoBlock /\ Heap' = Heap
    BY DEF NoBlock, Heap
  <2> QED
    BY <2>2, <2>3, <2>4, <2>5 DEF BlocksKnown, BlockKnown
<1>2. ASSUME NEW q \in Pickles \ {p}
      PROVE  PickleKnown(q)' /\ ContentsKnown(q)'
  <2>1. PickleKnown(q) /\ ContentsKnown(q)
    BY DEF PickleInv
  <2>2. HasHeader(q) => mem'[header[q]] = mem[header[q]]
    <3>1. HasHeader(q) => header[q] \in Where /\ header[q] # p
      BY HeadersApart DEF PickleAssumption, Where, Heap
    <3> QED
      BY <3>1 DEF OthersKeep
  <2> QED
    BY <2>1, <2>2, PickleKeeps DEF OthersKeep
<1>3. ASSUME NEW f \in Buffers
      PROVE  ArrivalKnown(f)'
  <2>1. f # p /\ f \in Where
    BY DEF PickleAssumption, Where
  <2> QED
    BY <2>1, BufferKeeps DEF PickleInv, OthersKeep
<1>4. (IteratorKnown /\ ReadsStayInside /\ RoundTrip)'
  BY QuietKeeps
<1> QED
  BY <1>1, <1>2, <1>3, <1>4 DEF PickleInv

\* What a constructor, an assignment or a write does to pickle p, and what p is then.
Sets(p, b, hs, cap, offset, block, entries, size, sure) ==
    /\ SetMembers(p, b, hs, cap, offset) /\ Holding(p, entries, size, sure)
    /\ mem' = [mem EXCEPT ![p] = block] /\ iter' = iter
Becomes(p, b, hs, cap, offset, block, entries, size, sure) ==
    /\ PickleTypeOK' /\ OthersKeep(p)
    /\ header'[p] = b /\ headerSize'[p] = hs /\ capacity'[p] = cap /\ writeOffset'[p] = offset
    /\ log'[p] = entries /\ sizer'[p] = size /\ known'[p] = sure
    /\ mem'[p] = block

\* That is what it leaves.
LEMMA NewState ==
    ASSUME PickleTypeOK, NEW p \in Pickles, NEW b \in Where \cup {NULL}, NEW hs \in Nat,
           NEW cap \in Nat \cup {ReadOnly}, NEW offset \in Nat, NEW block \in Block,
           NEW entries \in Seq(Entries), NEW size \in Nat, NEW sure \in BOOLEAN,
           Sets(p, b, hs, cap, offset, block, entries, size, sure)
    PROVE  Becomes(p, b, hs, cap, offset, block, entries, size, sure)
<1>1. PickleTypeOK'
  BY DEF PickleTypeOK, Sets, SetMembers, Holding, Block, Where, Heap
<1>2. OthersKeep(p)
  BY DEF PickleTypeOK, Sets, SetMembers, Holding, OthersKeep
<1> QED
  BY <1>1, <1>2 DEF Becomes, PickleTypeOK, Sets, SetMembers, Holding, Where, Heap

\* A pickle with a block of its own, which begins with words.
Own(words, hs, cap, offset, entries, size, sure) ==
    /\ hs \in Nat /\ cap \in Nat /\ offset \in Nat /\ words \in Seq(Words)
    /\ entries \in Seq(Entries) /\ size \in Nat /\ sure \in BOOLEAN
    /\ words # <<>> /\ words[1].kind = "number" /\ hs >= 4 /\ hs % 4 = 0
    /\ hs + words[1].n <= 4 * Len(words) /\ Len(words) <= WordsIn(hs + cap)
    /\ words[1].n <= cap /\ cap % Unit = 0 /\ offset \in {0, words[1].n} /\ offset % 4 = 0
    /\ sure => words[1].n = size /\ Contains(words, hs, entries, size)

\* A step that gives a pickle such a block keeps the invariant.
LEMMA OwnState ==
    ASSUME PickleAssumption, PickleInv, Quiet, UNCHANGED <<iter, last>>, NEW p \in Pickles,
           NEW hs, NEW cap, NEW offset, NEW words, NEW entries, NEW size, NEW sure,
           Own(words, hs, cap, offset, entries, size, sure),
           Sets(p, p, hs, cap, offset, [words |-> words, bytes |-> hs + cap], entries, size, sure)
    PROVE  PickleInv'
<1> DEFINE block == [words |-> words, bytes |-> hs + cap]
<1>0. /\ hs \in Nat /\ cap \in Nat /\ offset \in Nat /\ words \in Seq(Words)
      /\ entries \in Seq(Entries) /\ size \in Nat /\ sure \in BOOLEAN
      /\ words # <<>> /\ words[1].kind = "number" /\ hs >= 4 /\ hs % 4 = 0
      /\ hs + words[1].n <= 4 * Len(words) /\ Len(words) <= WordsIn(hs + cap)
      /\ words[1].n <= cap /\ cap % Unit = 0 /\ offset \in {0, words[1].n} /\ offset % 4 = 0
      /\ sure => words[1].n = size /\ Contains(words, hs, entries, size)
  BY Zenon DEF Own
<1>1. PickleTypeOK /\ p \in Where \cup {NULL} /\ p # NULL /\ block \in Block /\ cap # ReadOnly
      /\ block.words = words /\ block.bytes = hs + cap
  BY <1>0 DEF PickleInv, Where, Heap, Block, NULL, PickleAssumption, ReadOnly
<1> HIDE DEF block
<1>2. /\ PickleTypeOK' /\ OthersKeep(p)
      /\ header'[p] = p /\ headerSize'[p] = hs /\ capacity'[p] = cap /\ writeOffset'[p] = offset
      /\ log'[p] = entries /\ sizer'[p] = size /\ known'[p] = sure
      /\ mem'[p] = block
  <2>1. Sets(p, p, hs, cap, offset, block, entries, size, sure)
    BY Zenon DEF block
  <2>2. p \in Where \cup {NULL} /\ cap \in Nat \cup {ReadOnly}
    BY <1>0, <1>1
  <2>3. Becomes(p, p, hs, cap, offset, block, entries, size, sure)
    BY <1>0, <1>1, <2>1, <2>2, NewState, Zenon
  <2> QED
    BY <2>3, Zenon DEF Becomes
<1>3. HasHeader(p)' /\ Writable(p)' /\ PayloadSize(p)' = words[1].n
  BY <1>0, <1>1, <1>2 DEF HasHeader, Writable, PayloadSize, Field, NULL, ReadOnly
<1>4. block # NoBlock
  BY <1>0, <1>1 DEF NoBlock
<1>5. BlockKnown(p)'
  BY <1>0, <1>1, <1>2, <1>3 DEF BlockKnown
<1>6. PickleKnown(p)'
  BY <1>0, <1>1, <1>2, <1>3, <1>4 DEF PickleKnown, NoBlock
<1>7. ContentsKnown(p)'
  BY <1>0, <1>1, <1>2, <1>3 DEF ContentsKnown
<1> QED
  BY <1>2, <1>5, <1>6, <1>7, StepOfOne

\* Pickle() and Pickle(int header_size).
LEMMA Creates ==
    ASSUME PickleAssumption, PickleInv, NEW p \in Pickles, NEW size \in HeaderSizes, CreatePickle(p, size)
    PROVE  PickleInv'
<1> DEFINE hs == Align(size, 4)
           n == (hs - 4) \div 4
           words == <<Number(0)>> \o Raw(n)
<1>1. /\ ~Exists(p) /\ Quiet /\ SetMembers(p, FreshBlock(p), hs, Unit, 0)
      /\ mem' = [mem EXCEPT ![FreshBlock(p)] = [words |-> words, bytes |-> hs + Unit]]
      /\ Holding(p, <<>>, 0, TRUE) /\ UNCHANGED <<iter, last>>
  BY DEF CreatePickle
<1>2. FreshBlock(p) = p
  BY <1>1, OwnBlockIs
<1>3. size \in Nat /\ size >= 4 /\ Unit \in Nat \ {0} /\ Unit % Unit = 0
  <2>1. Unit \in Nat \ {0} /\ size \in Nat /\ size >= 4
    BY DEF PickleAssumption
  <2> QED
    BY <2>1, SMT
<1>4. hs \in Nat /\ hs >= 4 /\ hs % 4 = 0
  BY <1>3, WordSizes
<1> HIDE DEF hs
<1>5. n \in Nat /\ 4 * (n + 1) = hs
  BY <1>4, SMT
<1>6. Raw(n) \in Seq(Words) /\ Len(Raw(n)) = n
  BY <1>5, WordsAreWords DEF Raw
<1>7. <<Number(0)>> \in Seq(Words) /\ Len(<<Number(0)>>) = 1 /\ <<Number(0)>>[1] = Number(0)
  BY WordsAreWords
<1> HIDE DEF n
<1>8. /\ words \in Seq(Words) /\ Len(words) = 1 + n
      /\ \A i \in 1..1 + n : words[i] = IF i <= 1 THEN <<Number(0)>>[i] ELSE Raw(n)[i - 1]
  BY <1>6, <1>7, ConcatProperties
<1> HIDE DEF words
<1>9. words[1] = Number(0) /\ words # <<>>
  BY <1>5, <1>7, <1>8
<1>10. Number(0).kind = "number" /\ Number(0).n = 0
  BY DEF Number
<1>11. WordsIn(hs) = n + 1 /\ WordsIn(hs) <= WordsIn(hs + Unit)
  <2>1. WordsIn(hs) = n + 1
    BY <1>4, <1>5, SMT DEF WordsIn, Align
  <2> QED
    BY <1>3, <1>4, <2>1, WordSizesGrow
<1>12. <<>> \in Seq(Entries) /\ Contains(words, hs, <<>>, 0)
  <2>1. hs + 0 <= 4 * Len(words)
    BY <1>4, <1>5, <1>8
  <2> QED
    BY <2>1 DEF Contains
<1>13. hs + words[1].n <= 4 * Len(words) /\ Len(words) <= WordsIn(hs + Unit) /\ words[1].n <= Unit
  BY <1>3, <1>4, <1>5, <1>8, <1>9, <1>10, <1>11
<1>14. /\ SetMembers(p, p, hs, Unit, 0)
       /\ mem' = [mem EXCEPT ![p] = [words |-> words, bytes |-> hs + Unit]]
  BY <1>1, <1>2
<1>15. /\ 0 \in {0, words[1].n} /\ 0 % 4 = 0 /\ 0 \in Nat /\ TRUE \in BOOLEAN
       /\ words[1].kind = "number" /\ words[1].n = 0 /\ Unit \in Nat
  BY <1>3, <1>9, <1>10
<1>16. Own(words, hs, Unit, 0, <<>>, 0, TRUE)
  BY <1>3, <1>4, <1>8, <1>9, <1>12, <1>13, <1>15 DEF Own
<1>17. Sets(p, p, hs, Unit, 0, [words |-> words, bytes |-> hs + Unit], <<>>, 0, TRUE)
  BY <1>1, <1>14, Zenon DEF Sets
<1>18. Quiet /\ UNCHANGED <<iter, last>>
  BY <1>1
<1> QED
  BY <1>16, <1>17, <1>18, OwnState, Zenon

\* The copy that a constructor or an assignment makes.
LEMMA Copies ==
    ASSUME PickleAssumption, PickleInv, Quiet, NEW p \in Pickles, NEW q \in Pickles, HasHeader(q),
           CopyInto(p, p, q, writeOffset[q])
    PROVE  PickleInv'
<1> DEFINE n == PayloadSize(q)
           hs == headerSize[q]
           cap == Align(n, Unit)
           t == DataOf(q)
           offset == writeOffset[q]
<1>1. /\ SetMembers(p, p, hs, cap, offset)
      /\ mem' = [mem EXCEPT ![p] = [words |-> t, bytes |-> hs + cap]]
      /\ Holding(p, log[q], sizer[q], known[q]) /\ UNCHANGED <<iter, last>>
  BY DEF CopyInto
<1>2. PickleTypeOK /\ PickleKnown(q) /\ ContentsKnown(q)
  BY DEF PickleInv
<1>3. log[q] \in Seq(Entries) /\ sizer[q] \in Nat /\ known[q] \in BOOLEAN /\ offset \in Nat
  BY <1>2, TypesAre
<1>4. /\ n \in Nat /\ hs \in Nat /\ hs >= 4 /\ hs % 4 = 0
      /\ mem[header[q]].words[1].kind = "number" /\ mem[header[q]].words[1].n = n
  BY HeaderIs
<1>5. /\ t \in Seq(Words) /\ t # <<>> /\ t[1] = mem[header[q]].words[1] /\ Len(t) = WordsIn(hs + n)
      /\ known[q] => Contains(t, hs, log[q], sizer[q])
  BY DataIs
<1>6. cap \in Nat /\ cap >= n /\ cap % Unit = 0
  BY <1>4, UnitSizes
<1>7. offset \in {0, n} /\ offset % 4 = 0
  <2>1. CASE Writable(q)
    BY <1>2, <2>1 DEF PickleKnown
  <2>2. CASE ~Writable(q)
    BY <1>2, <2>2 DEF PickleKnown
  <2> QED
    BY <2>1, <2>2
<1>8. known[q] => n = sizer[q]
  BY <1>2 DEF ContentsKnown
<1> HIDE DEF n, hs, cap, t, offset
<1>9. hs + n <= 4 * Len(t) /\ Len(t) <= WordsIn(hs + cap)
  <2>1. hs + n \in Nat /\ hs + cap \in Nat /\ hs + n <= hs + cap
    BY <1>4, <1>6
  <2>2. WordsIn(hs + n) \in Nat /\ 4 * WordsIn(hs + n) >= hs + n
    BY <2>1, WordSizes, Zenon
  <2>3. WordsIn(hs + n) <= WordsIn(hs + cap)
    BY <2>1, WordSizesGrow
  <2> QED
    BY <1>5, <2>1, <2>2, <2>3
<1>10. t[1].kind = "number" /\ t[1].n = n
  BY <1>4, <1>5
<1>11. Own(t, hs, cap, offset, log[q], sizer[q], known[q])
  BY <1>3, <1>4, <1>5, <1>6, <1>7, <1>8, <1>9, <1>10 DEF Own
<1>12. Sets(p, p, hs, cap, offset, [words |-> t, bytes |-> hs + cap], log[q], sizer[q], known[q])
  BY <1>1, Zenon DEF Sets
<1>13. Quiet /\ UNCHANGED <<iter, last>>
  BY <1>1
<1> QED
  BY <1>11, <1>12, <1>13, OwnState, Zenon

\* Pickle(const Pickle&) and operator=: the block is new or the one it had.
LEMMA CopiesAndAssigns ==
    ASSUME PickleAssumption, PickleInv, NEW p \in Pickles, NEW q \in Pickles,
           CopyPickle(p, q) \/ AssignPickle(p, q)
    PROVE  PickleInv'
<1>1. CASE CopyPickle(p, q)
  BY <1>1, OwnBlockIs, Copies DEF CopyPickle
<1>2. CASE AssignPickle(p, q)
  <2>1. /\ HasHeader(q) /\ Quiet
        /\ CopyInto(p, IF Writable(p) THEN header[p] ELSE FreshBlock(p), q, writeOffset[q])
    BY <1>2 DEF AssignPickle
  <2>2. CopyInto(p, p, q, writeOffset[q])
    BY <2>1, OwnBlockIs
  <2> QED
    BY <2>1, <2>2, Copies
<1> QED
  BY <1>1, <1>2

\* Data that arrived begins with a number and is as long as its words.
LEMMA BufferIs ==
    ASSUME PickleInv, NEW f \in Buffers, mem[f] # NoBlock
    PROVE  LET w == mem[f].words IN
           /\ w \in Seq(Words) /\ mem[f].bytes \in Nat /\ Field(f) \in Nat
           /\ w # <<>> /\ w[1].kind = "number" /\ Len(w) = WordsIn(mem[f].bytes)
           /\ mem[f].bytes <= 4 * Len(w)
           /\ log[f] \in Seq(Entries) /\ sizer[f] \in Nat /\ known[f] \in BOOLEAN
<1> DEFINE w == mem[f].words
           n == mem[f].bytes
<1>1. PickleTypeOK /\ BlocksKnown /\ f \in Where
  BY DEF PickleInv, Where
<1>2. w \in Seq(Words) /\ n \in Nat
  BY <1>1 DEF PickleTypeOK
<1>3. w # <<>> /\ w[1].kind = "number" /\ Len(w) = WordsIn(n)
  BY <1>1 DEF BlocksKnown
<1>4. Field(f) = w[1].n
  BY DEF Field
<1>5. log[f] \in Seq(Entries) /\ sizer[f] \in Nat /\ known[f] \in BOOLEAN
  BY <1>1 DEF PickleTypeOK
<1> HIDE DEF w, n
<1>6. w[1] \in Words
  BY <1>2, <1>3
<1>7. w[1].n \in Nat
  BY <1>6 DEF Words
<1>8. WordsIn(n) \in Nat /\ 4 * WordsIn(n) >= n
  BY <1>2, WordSizes, Zenon
<1>9. n <= 4 * Len(w)
  BY <1>2, <1>3, <1>8
<1> QED
  BY <1>2, <1>3, <1>4, <1>5, <1>7, <1>9, Zenon DEF w, n

\* Pickle(data, data_len): a header only if the sizes fit the length of the data.
LEMMA Views ==
    ASSUME PickleAssumption, PickleInv, NEW p \in Pickles, NEW f \in Buffers, View(p, f)
    PROVE  PickleInv'
<1> DEFINE n == mem[f].bytes
           w == mem[f].words
           hs == IF n < 4 THEN 0 ELSE HeaderOver(n, Field(f))
           b == IF hs = 0 THEN NULL ELSE f
<1>1. /\ ~Exists(p) /\ Quiet /\ mem[f] # NoBlock /\ SetMembers(p, b, hs, ReadOnly, 0)
      /\ Holding(p, log[f], sizer[f], known[f]) /\ mem' = mem /\ UNCHANGED <<iter, last>>
  BY DEF View
<1>2. PickleTypeOK /\ BlocksKnown /\ ArrivalKnown(f) /\ f \in Where
  BY DEF PickleInv, Where
<1>3. /\ w \in Seq(Words) /\ n \in Nat /\ Field(f) \in Nat /\ n <= 4 * Len(w)
      /\ log[f] \in Seq(Entries) /\ sizer[f] \in Nat /\ known[f] \in BOOLEAN
  BY <1>1, BufferIs
<1>4. hs # 0 => hs \in Nat /\ hs >= 4 /\ hs % 4 = 0 /\ hs + Field(f) = n
  <2> HIDE DEF n
  <2> QED
    BY <1>3, SMT DEF HeaderOver
<1>5. hs \in Nat
  BY <1>4
<1>6. n \in Nat /\ n - Field(f) >= 4 /\ (n - Field(f)) % 4 = 0 => hs = n - Field(f)
  <2> HIDE DEF n
  <2> QED
    BY <1>3, SMT DEF HeaderOver
<1> HIDE DEF n, w, hs
<1>7. /\ p # f /\ f # NULL /\ b \in Where \cup {NULL} /\ mem[p] \in Block /\ mem[p] = NoBlock
      /\ ReadOnly \in Nat \cup {ReadOnly} /\ 0 \in Nat
  BY <1>1, <1>2, TypesAre, OwnBlockIs DEF PickleAssumption, NULL
<1>8. Sets(p, b, hs, ReadOnly, 0, mem[p], log[f], sizer[f], known[f])
  <2>1. mem' = [mem EXCEPT ![p] = mem[p]]
    BY <1>1, <1>2 DEF PickleTypeOK, Where, Heap
  <2> QED
    BY <1>1, <2>1 DEF Sets
<1>9. Becomes(p, b, hs, ReadOnly, 0, mem[p], log[f], sizer[f], known[f])
  <2> HIDE DEF b
  <2> QED
    BY <1>2, <1>3, <1>5, <1>7, <1>8, NewState, ZenonT(60)
<1>10. /\ PickleTypeOK' /\ OthersKeep(p)
       /\ header'[p] = b /\ headerSize'[p] = hs /\ capacity'[p] = ReadOnly /\ writeOffset'[p] = 0
       /\ log'[p] = log[f] /\ sizer'[p] = sizer[f] /\ known'[p] = known[f] /\ mem'[p] = NoBlock
       /\ mem'[f] = mem[f]
  BY <1>1, <1>7, <1>9, Zenon DEF Becomes
<1>11. ~Writable(p)' /\ (HasHeader(p)' <=> hs # 0) /\ (hs # 0 => PayloadSize(p)' = Field(f))
  BY <1>7, <1>10 DEF Writable, HasHeader, PayloadSize, Field, ReadOnly, NULL
<1>12. BlockKnown(p)'
  BY <1>10 DEF BlockKnown, NoBlock
<1>13. PickleKnown(p)'
  <2>1. CASE hs = 0
    BY <1>11, <2>1 DEF PickleKnown, Writable
  <2>2. CASE hs # 0
    <3>1. /\ headerSize'[p] >= 4 /\ headerSize'[p] % 4 = 0 /\ mem'[header'[p]] # NoBlock'
          /\ headerSize'[p] + PayloadSize(p)' <= 4 * Len(mem'[header'[p]].words)
          /\ header'[p] \in Buffers /\ writeOffset'[p] = 0
          /\ headerSize'[p] + PayloadSize(p)' = mem'[header'[p]].bytes
      BY <1>1, <1>3, <1>4, <1>10, <1>11, <2>2 DEF NoBlock, n, w
    <3> QED
      BY <1>11, <3>1 DEF PickleKnown
  <2> QED
    BY <2>1, <2>2
<1>14. ContentsKnown(p)'
  <2> SUFFICES ASSUME known'[p]
               PROVE  /\ HasHeader(p)' /\ PayloadSize(p)' = sizer'[p]
                      /\ Contains(mem'[header'[p]].words, headerSize'[p], log'[p], sizer'[p])
    BY DEF ContentsKnown
  <2>1. /\ Field(f) = sizer[f] /\ n - sizer[f] >= 4 /\ (n - sizer[f]) % 4 = 0
        /\ Contains(w, n - sizer[f], log[f], sizer[f])
    BY <1>2, <1>10 DEF ArrivalKnown, n, w
  <2>2. hs = n - sizer[f] /\ hs # 0
    BY <1>3, <1>6, <2>1
  <2> QED
    BY <1>10, <1>11, <2>1, <2>2 DEF w
<1> QED
  BY <1>1, <1>10, <1>12, <1>13, <1>14, StepOfOne, Zenon

\* ~Pickle: a block of its own is freed.
LEMMA Destroys ==
    ASSUME PickleAssumption, PickleInv, NEW p \in Pickles, DestroyPickle(p)
    PROVE  PickleInv'
<1>1. /\ Quiet /\ SetMembers(p, NULL, 0, 0, 0) /\ Holding(p, <<>>, 0, FALSE) /\ UNCHANGED <<iter, last>>
      /\ mem' = IF Writable(p) THEN [mem EXCEPT ![header[p]] = NoBlock] ELSE mem
  BY DEF DestroyPickle
<1>2. PickleTypeOK
  BY DEF PickleInv
<1>3. mem' = [mem EXCEPT ![p] = NoBlock]
  <2>1. CASE Writable(p)
    BY <1>1, <2>1, OwnBlockIs
  <2>2. CASE ~Writable(p)
    <3>1. mem[p] = NoBlock
      BY <2>2, OwnBlockIs
    <3> QED
      BY <1>1, <1>2, <2>2, <3>1 DEF PickleTypeOK, Where, Heap
  <2> QED
    BY <2>1, <2>2
<1>4. /\ NULL \in Where \cup {NULL} /\ 0 \in Nat /\ 0 \in Nat \cup {ReadOnly} /\ NoBlock \in Block
      /\ <<>> \in Seq(Entries) /\ FALSE \in BOOLEAN
  BY DEF NoBlock, Block
<1>5. Sets(p, NULL, 0, 0, 0, NoBlock, <<>>, 0, FALSE)
  BY <1>1, <1>3 DEF Sets
<1>6. Becomes(p, NULL, 0, 0, 0, NoBlock, <<>>, 0, FALSE)
  BY <1>2, <1>4, <1>5, NewState, Zenon
<1>7. PickleTypeOK' /\ OthersKeep(p) /\ header'[p] = NULL /\ ~known'[p] /\ mem'[p] = NoBlock
  BY <1>6, Zenon DEF Becomes
<1>8. BlockKnown(p)' /\ PickleKnown(p)' /\ ContentsKnown(p)'
  BY <1>7 DEF BlockKnown, PickleKnown, ContentsKnown, HasHeader, Writable, NoBlock, NULL
<1> QED
  BY <1>1, <1>7, <1>8, StepOfOne, Zenon

\* What is known of a pickle that is written to.
LEMMA WritableIs ==
    ASSUME PickleAssumption, PickleInv, NEW p \in Pickles, Writable(p)
    PROVE  LET w == mem[p].words IN
           /\ HasHeader(p) /\ header[p] = p
           /\ w \in Seq(Words) /\ w # <<>> /\ Len(w) >= 1
           /\ w[1].kind = "number" /\ w[1].n = PayloadSize(p)
           /\ PayloadSize(p) \in Nat /\ headerSize[p] \in Nat
           /\ headerSize[p] >= 4 /\ headerSize[p] % 4 = 0
           /\ headerSize[p] + PayloadSize(p) <= 4 * Len(w)
           /\ capacity[p] \in Nat /\ capacity[p] % Unit = 0 /\ PayloadSize(p) <= capacity[p]
           /\ writeOffset[p] \in Nat /\ writeOffset[p] % 4 = 0
           /\ writeOffset[p] \in {0, PayloadSize(p)}
           /\ Len(w) <= WordsIn(headerSize[p] + capacity[p])
           /\ mem[p] = [words |-> w, bytes |-> headerSize[p] + capacity[p]]
           /\ log[p] \in Seq(Entries) /\ sizer[p] \in Nat /\ known[p] \in BOOLEAN
           /\ known[p] => /\ PayloadSize(p) = sizer[p]
                          /\ Contains(w, headerSize[p], log[p], sizer[p])
<1>1. PickleTypeOK /\ PickleKnown(p) /\ BlocksKnown /\ ContentsKnown(p)
  BY DEF PickleInv
<1>2. HasHeader(p) /\ header[p] = p
  BY OwnBlockIs DEF Writable
<1>3. /\ headerSize[p] \in Nat /\ capacity[p] \in Nat \cup {ReadOnly} /\ writeOffset[p] \in Nat
      /\ log[p] \in Seq(Entries) /\ sizer[p] \in Nat /\ known[p] \in BOOLEAN
      /\ mem[p] \in Block /\ p \in Where
  BY <1>1, TypesAre
<1>4. capacity[p] \in Nat
  BY <1>3 DEF Writable
<1>5. /\ PayloadSize(p) <= capacity[p] /\ capacity[p] % Unit = 0
      /\ writeOffset[p] \in {0, PayloadSize(p)} /\ writeOffset[p] % 4 = 0
      /\ headerSize[p] + capacity[p] = mem[p].bytes /\ mem[p] # NoBlock
  BY <1>1, <1>2 DEF PickleKnown
<1>6. mem[p] = [words |-> mem[p].words, bytes |-> headerSize[p] + capacity[p]]
  BY <1>3, <1>5 DEF Block
<1>7. Len(mem[p].words) <= WordsIn(headerSize[p] + capacity[p])
  BY <1>1, <1>3, <1>5 DEF BlocksKnown
<1>8. known[p] => PayloadSize(p) = sizer[p] /\ Contains(mem[p].words, headerSize[p], log[p], sizer[p])
  BY <1>1, <1>2 DEF ContentsKnown
<1>9. LET w == mem[p].words IN
      /\ w \in Seq(Words) /\ w # <<>> /\ Len(w) >= 1
      /\ w[1].kind = "number" /\ w[1].n = PayloadSize(p)
      /\ PayloadSize(p) \in Nat
      /\ headerSize[p] >= 4 /\ headerSize[p] % 4 = 0
      /\ headerSize[p] + PayloadSize(p) <= 4 * Len(w)
  BY <1>2, HeaderIs, Zenon
<1> QED
  BY <1>2, <1>3, <1>4, <1>5, <1>6, <1>7, <1>8, <1>9, Zenon

\* Reserve: the block grows, its words stay.
LEMMA Reserves ==
    ASSUME PickleAssumption, PickleInv, NEW p \in Pickles, NEW n \in Lengths, Reserve(p, n)
    PROVE  PickleInv'
<1> DEFINE hs == headerSize[p]
           offset == writeOffset[p]
           old == capacity[p]
           need == offset + Align(n, 4)
           cap == Align(2 * old + need, Unit)
           w == mem[p].words
<1>1. /\ Writable(p) /\ Quiet /\ SetMembers(p, header[p], hs, cap, offset)
      /\ mem' = [mem EXCEPT ![header[p]].bytes = hs + cap]
      /\ UNCHANGED <<iter, items, last>>
  BY DEF Reserve
<1>2. n \in Nat /\ PickleTypeOK
  BY DEF PickleAssumption, PickleInv
<1>3. /\ header[p] = p /\ w \in Seq(Words) /\ w # <<>> /\ Len(w) >= 1
      /\ w[1].kind = "number" /\ w[1].n = PayloadSize(p) /\ PayloadSize(p) \in Nat
      /\ hs \in Nat /\ hs >= 4 /\ hs % 4 = 0 /\ hs + PayloadSize(p) <= 4 * Len(w)
      /\ old \in Nat /\ PayloadSize(p) <= old
      /\ offset \in Nat /\ offset % 4 = 0 /\ offset \in {0, PayloadSize(p)}
      /\ Len(w) <= WordsIn(hs + old)
      /\ mem[p] = [words |-> w, bytes |-> hs + old]
      /\ log[p] \in Seq(Entries) /\ sizer[p] \in Nat /\ known[p] \in BOOLEAN
      /\ known[p] => PayloadSize(p) = sizer[p] /\ Contains(w, hs, log[p], sizer[p])
  BY <1>1, WritableIs, Zenon
<1>4. /\ need \in Nat /\ cap \in Nat /\ cap >= old /\ cap % Unit = 0
  <2>1. Align(n, 4) \in Nat
    BY <1>2, WordSizes
  <2> HIDE DEF old, offset
  <2>2. need \in Nat /\ 2 * old + need \in Nat /\ 2 * old + need >= old
    BY <1>3, <2>1
  <2> HIDE DEF need
  <2>3. cap \in Nat /\ cap >= 2 * old + need /\ cap % Unit = 0
    BY <2>2, UnitSizes
  <2> HIDE DEF cap
  <2> QED
    BY <1>3, <2>2, <2>3
<1> HIDE DEF need, cap, w, hs, old, offset
<1>5. mem' = [mem EXCEPT ![p] = [words |-> w, bytes |-> hs + cap]]
  <2>1. mem' = [mem EXCEPT ![p].bytes = hs + cap]
    BY <1>1, <1>3
  <2>2. mem' = [mem EXCEPT ![p] = [mem[p] EXCEPT !.bytes = hs + cap]]
    BY <2>1
  <2>3. [mem[p] EXCEPT !.bytes = hs + cap] = [words |-> w, bytes |-> hs + cap]
    BY <1>3
  <2> QED
    BY <2>2, <2>3
<1>6. Holding(p, log[p], sizer[p], known[p])
  BY <1>1, <1>2 DEF Holding, items, PickleTypeOK
<1>7. Len(w) <= WordsIn(hs + cap) /\ PayloadSize(p) <= cap
  <2>1. hs + old \in Nat /\ hs + cap \in Nat /\ hs + old <= hs + cap
    BY <1>3, <1>4
  <2>2. WordsIn(hs + old) <= WordsIn(hs + cap) /\ WordsIn(hs + old) \in Nat /\ WordsIn(hs + cap) \in Nat
    BY <2>1, WordSizes, WordSizesGrow, Zenon
  <2> QED
    BY <1>3, <1>4, <2>2
<1>8. SetMembers(p, p, hs, cap, offset) /\ UNCHANGED <<iter, last>>
  BY <1>1, <1>3
<1>9. /\ hs + w[1].n <= 4 * Len(w) /\ w[1].n <= cap /\ offset \in {0, w[1].n}
      /\ known[p] => w[1].n = sizer[p] /\ Contains(w, hs, log[p], sizer[p])
  BY <1>3, <1>7
<1>10. /\ Quiet /\ w \in Seq(Words) /\ w # <<>> /\ w[1].kind = "number"
       /\ hs \in Nat /\ hs >= 4 /\ hs % 4 = 0 /\ offset \in Nat /\ offset % 4 = 0
       /\ log[p] \in Seq(Entries) /\ sizer[p] \in Nat /\ known[p] \in BOOLEAN
  BY <1>1, <1>3
<1>11. Own(w, hs, cap, offset, log[p], sizer[p], known[p])
  BY <1>4, <1>7, <1>9, <1>10 DEF Own
<1>12. Sets(p, p, hs, cap, offset, [words |-> w, bytes |-> hs + cap], log[p], sizer[p], known[p])
  BY <1>5, <1>6, <1>8, Zenon DEF Sets
<1>13. Quiet /\ UNCHANGED <<iter, last>>
  BY <1>8, <1>10
<1> QED
  BY <1>11, <1>12, <1>13, OwnState, Zenon

\* Words that take 4 bytes and more.
LEMMA NotEmpty ==
    ASSUME NEW s \in Seq(Words), NEW a \in Nat, NEW b \in Nat, a >= 4, 4 * Len(s) = a + b
    PROVE  Len(s) \in Nat /\ Len(s) >= 1
OBVIOUS

\* Two offsets, counted from elsewhere.
LEMMA BothMoved ==
    ASSUME NEW a \in Nat, NEW b \in Nat, NEW c \in Nat, b <= c
    PROVE  a + b \in Nat /\ a + c \in Nat /\ a + b <= a + c
OBVIOUS

\* The WriteXxx functions: behind what there is, or from the beginning in the copy of data
\* that arrived.
LEMMA Writes ==
    ASSUME PickleAssumption, PickleInv, NEW p \in Pickles, NEW it \in Items, WriteItem(p, it)
    PROVE  PickleInv'
<1> DEFINE hs == headerSize[p]
           at == writeOffset[p]
           cap == capacity[p]
           w == mem[p].words
           name == <<p, Len(log[p]) + 1>>
           r == Written([at |-> at, cap |-> cap, words |-> w], hs, it, name)
           t == [r.words EXCEPT ![1] = Number(r.at)]
           entries == Append(log[p], [it |-> it, name |-> name, at |-> at])
           size == sizer[p] + SizerAdd(it)
           sure == known[p] /\ (at = 0 => PayloadSize(p) = 0)
           m == (hs + at) \div 4
           image == Image(it, name)
<1>1. Writable(p) /\ Quiet /\ UNCHANGED <<iter, last>>
  BY DEF WriteItem
<1>2. /\ header[p] = p /\ w \in Seq(Words) /\ w # <<>> /\ Len(w) >= 1
      /\ PayloadSize(p) \in Nat
      /\ hs \in Nat /\ hs >= 4 /\ hs % 4 = 0 /\ hs + PayloadSize(p) <= 4 * Len(w)
      /\ cap \in Nat /\ cap % Unit = 0
      /\ at \in Nat /\ at % 4 = 0 /\ at \in {0, PayloadSize(p)}
      /\ log[p] \in Seq(Entries) /\ sizer[p] \in Nat /\ known[p] \in BOOLEAN
      /\ known[p] => PayloadSize(p) = sizer[p] /\ Contains(w, hs, log[p], sizer[p])
  BY <1>1, WritableIs, Zenon
<1>3. /\ SetMembers(p, p, hs, r.cap, r.at)
      /\ mem' = [mem EXCEPT ![p] = [words |-> t, bytes |-> hs + r.cap]]
      /\ Holding(p, entries, size, sure)
  BY <1>2 DEF WriteItem
<1>4. name \in Pickles \X Nat
  BY <1>2
<1> HIDE DEF name, w, at, cap, hs
<1>5. /\ r.at \in Nat /\ r.at = at + SizerAdd(it) /\ r.at % 4 = 0
      /\ r.cap \in Nat /\ r.cap >= r.at /\ r.cap % Unit = 0
      /\ r.words \in Seq(Words) /\ 4 * Len(r.words) = hs + r.at
      /\ \A i \in 1..m : i <= Len(w) => r.words[i] = w[i]
      /\ \A j \in 1..Len(image) : r.words[m + j] = image[j]
  <2>1. ItemWritten(r, at, w, hs, it, name)
    BY <1>2, <1>4, WrittenIs, Zenon
  <2> HIDE DEF r
  <2> QED
    BY <2>1, Zenon DEF ItemWritten
<1> HIDE DEF r
<1>6. image \in Seq(Words) /\ SizerAdd(it) \in Nat /\ SizerAdd(it) = 4 * Len(image)
  BY <1>4, ImageSizes, Zenon
<1> HIDE DEF image
<1>7. /\ t \in Seq(Words) /\ Len(t) = Len(r.words) /\ Len(t) >= 1 /\ t # <<>> /\ t[1] = Number(r.at)
      /\ \A i \in 1..Len(t) : i # 1 => t[i] = r.words[i]
  <2>1. r.words \in Seq(Words) /\ r.at \in Nat
    BY <1>5, Zenon
  <2>2. Len(r.words) \in Nat /\ Len(r.words) >= 1
    BY <1>2, <1>5, NotEmpty, Zenon
  <2>3. Number(r.at) \in Words
    BY <2>1, WordsAreWords, Zenon
  <2>4. BeginsWith(t, r.words, Number(r.at))
    BY <2>1, <2>2, <2>3, FirstReplaced, Zenon
  <2> HIDE DEF t
  <2> QED
    BY <2>4, Zenon DEF BeginsWith
<1> HIDE DEF t
<1>8. t[1].kind = "number" /\ t[1].n = r.at
  BY <1>7 DEF Number
<1>9. Len(t) <= WordsIn(hs + r.cap)
  <2>0. r.at <= r.cap
    BY <1>5
  <2>1. hs + r.at \in Nat /\ hs + r.cap \in Nat /\ hs + r.at <= hs + r.cap
    BY <1>2, <1>5, <2>0, BothMoved, Zenon
  <2>2. WordsIn(hs + r.at) <= WordsIn(hs + r.cap) /\ WordsIn(hs + r.at) \in Nat /\ WordsIn(hs + r.cap) \in Nat
        /\ 4 * WordsIn(hs + r.at) >= hs + r.at
    BY <2>1, WordSizes, WordSizesGrow, Zenon
  <2> QED
    BY <1>5, <1>7, <2>2
<1>10. m \in Nat /\ m >= 1 /\ 4 * m = hs + at
  <2>1. hs \in Nat /\ hs >= 4 /\ hs % 4 = 0 /\ at \in Nat /\ at % 4 = 0
    BY <1>2
  <2> HIDE DEF entries, size, sure
  <2> QED
    BY <2>1, SMT
<1>11. sure => t[1].n = size /\ Contains(t, hs, entries, size)
  <2> SUFFICES ASSUME sure
               PROVE  t[1].n = size /\ Contains(t, hs, entries, size)
    OBVIOUS
  <2>1. at = sizer[p] /\ Contains(w, hs, log[p], sizer[p])
    BY <1>2
  <2>2. sizer[p] % 4 = 0 /\ hs + sizer[p] <= 4 * Len(w)
    BY <2>1 DEF Contains
  <2>3. m <= Len(w) /\ Len(w) \in Nat
    BY <1>2, <1>10, <2>1, <2>2
  <2> HIDE DEF m
  <2>4. Len(t) = m + Len(image) /\ Len(image) \in Nat
    <3>1. Len(image) \in Nat /\ Len(t) \in Nat /\ hs \in Nat /\ at \in Nat
      BY <1>2, <1>6, <1>7
    <3>2. 4 * Len(t) = hs + (at + 4 * Len(image))
      BY <1>5, <1>6, <1>7
    <3> QED
      BY <1>10, <3>1, <3>2
  <2>5. \A i \in 2..m : t[i] = w[i]
    <3> TAKE i \in 2..m
    <3>1. i \in 1..m /\ i \in 1..Len(t) /\ i # 1 /\ i <= Len(w)
      BY <1>10, <2>3, <2>4
    <3> QED
      BY <1>5, <1>7, <3>1
  <2>6. \A j \in 1..Len(image) : t[m + j] = image[j]
    <3> TAKE j \in 1..Len(image)
    <3>1. m + j \in 1..Len(t) /\ m + j # 1
      BY <1>10, <2>4
    <3> QED
      BY <1>5, <1>7, <3>1, Zenon
  <2>7. hs + sizer[p] + SizerAdd(it) <= 4 * Len(t)
    <3> DEFINE z == SizerAdd(it)
    <3>1. hs \in Nat /\ sizer[p] \in Nat /\ z \in Nat
      BY <1>2, <1>6
    <3>2. 4 * Len(t) = hs + (sizer[p] + z)
      BY <1>5, <1>7, <2>1, Zenon
    <3>3. Len(t) \in Nat
      BY <1>7
    <3> HIDE DEF entries, size, sure, z
    <3>4. hs + sizer[p] + z <= 4 * Len(t)
      BY <3>1, <3>2, <3>3, SMT
    <3> QED
      BY <3>4 DEF z
  <2>8. /\ \A i \in 2..(hs + sizer[p]) \div 4 : t[i] = w[i]
        /\ \A j \in 1..Len(Image(it, name)) : t[(hs + sizer[p]) \div 4 + j] = Image(it, name)[j]
    BY <2>1, <2>5, <2>6 DEF m, image
  <2>9. Contains(t, hs, Append(log[p], [it |-> it, name |-> name, at |-> sizer[p]]), sizer[p] + SizerAdd(it))
    BY <1>2, <1>4, <1>7, <2>1, <2>7, <2>8, ContentsGrow, Zenon
  <2> QED
    BY <1>5, <1>8, <2>1, <2>9
<1>12. entries \in Seq(Entries) /\ size \in Nat /\ sure \in BOOLEAN
  <2>1. [it |-> it, name |-> name, at |-> at] \in Entries
    BY <1>2, <1>4 DEF Entries
  <2> QED
    BY <1>2, <1>6, <2>1
<1> HIDE DEF entries, size, sure
<1>13. /\ hs + t[1].n <= 4 * Len(t) /\ t[1].n <= r.cap /\ r.at \in {0, t[1].n}
  BY <1>2, <1>5, <1>7, <1>8
<1>14. /\ Quiet /\ UNCHANGED <<iter, last>> /\ t \in Seq(Words) /\ t # <<>> /\ t[1].kind = "number"
       /\ hs \in Nat /\ hs >= 4 /\ hs % 4 = 0 /\ r.at \in Nat /\ r.at % 4 = 0
       /\ r.cap \in Nat /\ r.cap % Unit = 0
  BY <1>1, <1>2, <1>5, <1>7, <1>8
<1> HIDE DEF m
<1>15. Own(t, hs, r.cap, r.at, entries, size, sure)
  BY <1>9, <1>11, <1>12, <1>13, <1>14 DEF Own
<1>16. Sets(p, p, hs, r.cap, r.at, [words |-> t, bytes |-> hs + r.cap], entries, size, sure)
  BY <1>3, <1>14, Zenon DEF Sets
<1>17. Quiet /\ UNCHANGED <<iter, last>>
  BY <1>14
<1> QED
  BY <1>15, <1>16, <1>17, OwnState, Zenon

\* Bytes that fit into n words begin no more than n of them.
LEMMA WordsWithin ==
    ASSUME NEW a \in Nat, NEW b \in Nat, NEW n \in Nat, a + b <= 4 * n
    PROVE  (a + b) \div 4 <= n /\ (a + b) \div 4 \in Int
BY SMT

\* data() arrives elsewhere, complete or not.
LEMMA Receives ==
    ASSUME PickleAssumption, PickleInv, NEW p \in Pickles, NEW f \in Buffers, NEW n,
           NEW field \in Nat, Receive(f, p, n, field)
    PROVE  PickleInv'
<1> DEFINE hs == headerSize[p]
           payload == PayloadSize(p)
           s == DataOf(p)
           u == Bytes(s, 0, n)
           t == [u EXCEPT ![1] = Number(field)]
           sure == known[p] /\ n = hs + payload /\ field = payload
<1>1. /\ HasHeader(p) /\ mem[f] = NoBlock /\ Quiet /\ n \in 1..hs + payload
      /\ mem' = [mem EXCEPT ![f] = [words |-> t, bytes |-> n]]
      /\ Holding(f, log[p], sizer[p], sure)
      /\ UNCHANGED <<members, iter, last>>
  BY DEF Receive
<1>2. PickleTypeOK /\ BlocksKnown /\ f \in Where /\ f \notin Pickles /\ f \notin Heap /\ ContentsKnown(p)
  BY DEF PickleInv, Where, PickleAssumption, Heap
<1>3. payload \in Nat /\ hs \in Nat /\ hs >= 4 /\ hs % 4 = 0
  BY <1>1, HeaderIs
<1>4. /\ s \in Seq(Words) /\ s # <<>> /\ Len(s) = WordsIn(hs + payload)
      /\ known[p] => Contains(s, hs, log[p], sizer[p])
  BY <1>1, DataIs
<1>5. log[p] \in Seq(Entries) /\ sizer[p] \in Nat /\ known[p] \in BOOLEAN
  BY <1>2, TypesAre
<1> HIDE DEF hs, payload, s
<1>6. n \in Nat /\ n >= 1 /\ n <= hs + payload
  BY <1>1, <1>3
<1>7. u \in Seq(Words) /\ Len(u) = WordsIn(n) /\ WordsIn(n) \in Nat /\ WordsIn(n) >= 1
      /\ 4 * WordsIn(n) >= n /\ \A i \in 1..Len(u) : u[i] = s[i]
  <2>1. WordsIn(n) <= WordsIn(hs + payload)
    BY <1>3, <1>6, WordSizesGrow
  <2>2. WordsIn(n) \in Nat /\ 4 * WordsIn(n) >= n
    BY <1>6, WordSizes, Zenon
  <2>3. /\ Len(u) = Len(s) \/ Len(u) = WordsIn(n)
        /\ \A i \in 1..Len(u) : u[i] = s[i]
    BY <1>4, <1>6, FirstBytesAre, Zenon
  <2>4. u \in Seq(Words) /\ Len(u) <= WordsIn(n) /\ Len(u) <= Len(s)
    BY <1>4, <1>6, FirstBytesAre, Zenon
  <2> HIDE DEF u
  <2>5. Len(u) = WordsIn(n)
    BY <1>4, <2>1, <2>2, <2>3, <2>4
  <2> QED
    BY <1>6, <2>2, <2>3, <2>4, <2>5
<1> HIDE DEF u
<1>8. /\ t \in Seq(Words) /\ Len(t) = WordsIn(n) /\ t # <<>> /\ t[1] = Number(field)
      /\ \A i \in 1..Len(t) : i # 1 => t[i] = u[i]
  <2>1. Number(field) \in Words /\ Len(u) >= 1
    BY <1>7, WordsAreWords
  <2>2. BeginsWith(t, u, Number(field))
    BY <1>7, <2>1, FirstReplaced, Zenon
  <2> HIDE DEF t
  <2> QED
    BY <1>7, <2>2, Zenon DEF BeginsWith
<1> HIDE DEF t
<1>9. t[1].kind = "number" /\ t[1].n = field
  BY <1>8 DEF Number
<1>10. /\ mem'[f] = [words |-> t, bytes |-> n] /\ \A b \in Where \ {f} : mem'[b] = mem[b]
       /\ log'[f] = log[p] /\ sizer'[f] = sizer[p] /\ known'[f] = sure
       /\ \A b \in (Pickles \cup Buffers) \ {f} : log'[b] = log[b] /\ sizer'[b] = sizer[b] /\ known'[b] = known[b]
       /\ header' = header /\ headerSize' = headerSize /\ capacity' = capacity /\ writeOffset' = writeOffset
  BY <1>1, <1>2 DEF PickleTypeOK, Holding, members
<1>11. PickleTypeOK'
  <2>1. [words |-> t, bytes |-> n] \in [words : Seq(Words), bytes : Nat] /\ sure \in BOOLEAN
    BY <1>5, <1>6, <1>8
  <2> HIDE DEF sure
  <2> QED
    BY <1>1, <1>2, <1>5, <2>1 DEF PickleTypeOK, Holding, members
<1>12. BlocksKnown'
  <2>1. ASSUME NEW b \in Heap, mem'[b] # NoBlock
        PROVE  b \in Pickles /\ header'[b] = b /\ Writable(b)'
    <3>1. mem'[b] = mem[b]
      BY <1>2, <1>10 DEF Where
    <3>2. b \in Pickles /\ header[b] = b /\ Writable(b)
      BY <1>2, <2>1, <3>1 DEF BlocksKnown
    <3> QED
      BY <1>10, <3>2 DEF Writable, HasHeader
  <2>2. ASSUME NEW b \in Where, mem'[b] # NoBlock
        PROVE  /\ mem'[b].words # <<>> /\ mem'[b].words[1].kind = "number"
               /\ Len(mem'[b].words) <= WordsIn(mem'[b].bytes)
    <3>1. CASE b = f
      BY <1>7, <1>8, <1>9, <1>10, <3>1
    <3>2. CASE b # f
      <4>1. mem'[b] = mem[b]
        BY <1>10, <3>2
      <4> QED
        BY <1>2, <2>2, <4>1 DEF BlocksKnown
    <3> QED
      BY <3>1, <3>2
  <2>3. ASSUME NEW g \in Buffers
        PROVE  Len(mem'[g].words) = WordsIn(mem'[g].bytes)
    <3>1. CASE g = f
      BY <1>8, <1>10, <3>1
    <3>2. CASE g # f
      <4>1. mem'[g] = mem[g]
        BY <1>10, <3>2 DEF Where
      <4> QED
        BY <1>2, <4>1 DEF BlocksKnown
    <3> QED
      BY <3>1, <3>2
  <2>4. NoBlock' = NoBlock /\ Heap' = Heap
    BY DEF NoBlock, Heap
  <2> QED
    BY <2>1, <2>2, <2>3, <2>4 DEF BlocksKnown
<1>13. ASSUME NEW q \in Pickles
       PROVE  PickleKnown(q)' /\ ContentsKnown(q)'
  <2>1. PickleKnown(q) /\ ContentsKnown(q)
    BY DEF PickleInv
  <2>2. HasHeader(q) => mem'[header[q]] = mem[header[q]]
    <3>1. HasHeader(q) => header[q] \in Where /\ mem[header[q]] # NoBlock
      BY <2>1, HeaderIs DEF PickleKnown
    <3> QED
      BY <1>1, <1>10, <3>1
  <2>3. q # f /\ q \in (Pickles \cup Buffers) \ {f}
    BY <1>2
  <2>4. /\ header'[q] = header[q] /\ headerSize'[q] = headerSize[q]
        /\ capacity'[q] = capacity[q] /\ writeOffset'[q] = writeOffset[q]
        /\ log'[q] = log[q] /\ sizer'[q] = sizer[q] /\ known'[q] = known[q]
    BY <1>10, <2>3
  <2> QED
    BY <2>1, <2>2, <2>4, PickleKeeps
<1>14. ArrivalKnown(f)'
  <2> SUFFICES ASSUME known'[f]
               PROVE  LET h == mem'[f].bytes - sizer'[f] IN
                      /\ mem'[f] # NoBlock' /\ Field(f)' = sizer'[f] /\ h >= 4 /\ h % 4 = 0
                      /\ Contains(mem'[f].words, h, log'[f], sizer'[f])
    BY DEF ArrivalKnown
  <2>1. known[p] /\ n = hs + payload /\ field = payload
    BY <1>10
  <2>2. payload = sizer[p] /\ Contains(s, hs, log[p], sizer[p])
    BY <1>2, <1>4, <2>1 DEF ContentsKnown, payload
  <2>3. hs + sizer[p] <= 4 * Len(t)
    BY <1>7, <1>8, <2>1, <2>2
  <2>4. \A i \in 2..(hs + sizer[p]) \div 4 : t[i] = s[i]
    <3> DEFINE m == (hs + sizer[p]) \div 4
    <3>1. hs \in Nat /\ sizer[p] \in Nat /\ Len(t) \in Nat
      BY <1>3, <1>5, <1>8
    <3>2. m <= Len(t) /\ m \in Int
      BY <2>3, <3>1, WordsWithin, Zenon
    <3> HIDE DEF m
    <3>3. \A i \in 2..m : i \in 1..Len(t) /\ i \in 1..Len(u) /\ i # 1
      BY <1>7, <1>8, <3>1, <3>2
    <3>4. \A i \in 2..m : t[i] = s[i]
      BY <1>7, <1>8, <3>3, Zenon
    <3> QED
      BY <3>4 DEF m
  <2>5. Contains(t, hs, log[p], sizer[p])
    BY <1>3, <1>4, <1>5, <1>8, <2>2, <2>3, <2>4, ContentsCarry
  <2>6. n - sizer[p] = hs
    BY <1>3, <2>1, <2>2
  <2>7. mem'[f] # NoBlock'
    BY <1>8, <1>10 DEF NoBlock
  <2>8. Field(f)' = field
    BY <1>9, <1>10 DEF Field
  <2> QED
    BY <1>3, <1>10, <2>1, <2>2, <2>5, <2>6, <2>7, <2>8
<1>15. ASSUME NEW g \in Buffers
       PROVE  ArrivalKnown(g)'
  <2>1. CASE g = f
    BY <1>14, <2>1
  <2>2. CASE g # f
    <3>1. ArrivalKnown(g)
      BY DEF PickleInv
    <3>2. log'[g] = log[g] /\ sizer'[g] = sizer[g] /\ known'[g] = known[g] /\ mem'[g] = mem[g]
      BY <1>10, <2>2 DEF Where
    <3> QED
      BY <3>1, <3>2, BufferKeeps
  <2> QED
    BY <2>1, <2>2
<1>16. (IteratorKnown /\ ReadsStayInside /\ RoundTrip)'
  BY <1>1, QuietKeeps
<1> QED
  BY <1>11, <1>12, <1>13, <1>15, <1>16 DEF PickleInv

-----------------------------------------------------------------------------
(* Reading.                                                                *)

\* An iterator that was asked for item k is where it begins, and it is all there.
LEMMA NextIsHere ==
    ASSUME PickleAssumption, PickleInv, NEW p \in Pickles, iter.of = p,
           known[p], iter.next > 0, iter.next <= Len(log[p])
    PROVE  LET k == iter.next
               e == log[p][k]
               w == mem[header[p]].words
               m == (headerSize[p] + iter.index) \div 4
           IN  /\ HasHeader(p) /\ e \in Entries /\ e.at = iter.index /\ e.at % 4 = 0
               /\ e.at + SizerAdd(e.it) <= iter.end
               /\ e.at + SizerAdd(e.it) = Begins(p, k + 1)
               /\ \A j \in 1..Len(Image(e.it, e.name)) : w[m + j] = Image(e.it, e.name)[j]
<1> DEFINE k == iter.next
           l == log[p]
           e == l[k]
           w == mem[header[p]].words
           size == sizer[p]
           hs == headerSize[p]
<1>1. PickleTypeOK /\ IteratorKnown /\ ContentsKnown(p)
  BY DEF PickleInv
<1>2. l \in Seq(Entries) /\ k \in Nat /\ size \in Nat
  BY <1>1, TypesAre DEF PickleTypeOK
<1>3. HasHeader(p) /\ PayloadSize(p) = size /\ Contains(w, hs, l, size)
  BY <1>1 DEF ContentsKnown
<1>4. iter.end = size /\ iter.index = Begins(p, k)
  <2>1. iter.of # NULL
    BY DEF PickleAssumption, NULL
  <2> QED
    BY <1>1, <1>3, <2>1 DEF IteratorKnown
<1>5. k \in 1..Len(l) /\ e \in Entries
  BY <1>2
<1>6. e.at = iter.index
  BY <1>4, <1>5 DEF Begins
<1> HIDE DEF k, l, w, size, hs
<1>7. /\ e.at % 4 = 0 /\ e.at + SizerAdd(e.it) <= size
      /\ e.at + SizerAdd(e.it) = (IF k = Len(l) THEN size ELSE l[k + 1].at)
      /\ \A j \in 1..Len(Image(e.it, e.name)) : w[(hs + e.at) \div 4 + j] = Image(e.it, e.name)[j]
  BY <1>3, <1>5, Zenon DEF Contains
<1>8. Begins(p, k + 1) = IF k = Len(l) THEN size ELSE l[k + 1].at
  <2>1. Len(l) \in Nat /\ k \in Nat /\ k <= Len(l)
    BY <1>2, <1>5
  <2>2. (k + 1 <= Len(l)) <=> k # Len(l)
    BY <2>1
  <2> QED
    BY <2>2 DEF Begins, l, size
<1>9. e.at + SizerAdd(e.it) <= iter.end /\ e.at + SizerAdd(e.it) = Begins(p, k + 1)
  BY <1>4, <1>7, <1>8, Zenon
<1>10. \A j \in 1..Len(Image(e.it, e.name)) : w[(hs + iter.index) \div 4 + j] = Image(e.it, e.name)[j]
  BY <1>6, <1>7, Zenon
<1>11. HasHeader(p) /\ e \in Entries /\ e.at = iter.index /\ e.at % 4 = 0
  BY <1>3, <1>5, <1>6, <1>7, Zenon
<1> QED
  BY <1>9, <1>10, <1>11, Zenon DEF k, l, w, hs

\* Behind the last item there is nothing.
LEMMA NothingIsLeft ==
    ASSUME PickleAssumption, PickleInv, NEW p \in Pickles, iter.of = p,
           known[p], iter.next > Len(log[p])
    PROVE  iter.index = iter.end
<1>1. PickleTypeOK /\ IteratorKnown /\ ContentsKnown(p)
  BY DEF PickleInv
<1>2. log[p] \in Seq(Entries) /\ iter.next \in Nat
  BY <1>1, TypesAre DEF PickleTypeOK
<1>3. PayloadSize(p) = sizer[p] /\ iter.of # NULL
  BY <1>1 DEF ContentsKnown, PickleAssumption, NULL
<1>4. iter.end = sizer[p] /\ iter.next <= Len(log[p]) + 1 /\ iter.index = Begins(p, iter.next)
  BY <1>1, <1>2, <1>3 DEF IteratorKnown
<1> QED
  BY <1>2, <1>4 DEF Begins

\* A payload is within the block that holds it.
LEMMA PayloadInBlock ==
    ASSUME PickleAssumption, PickleInv, NEW p \in Pickles, HasHeader(p)
    PROVE  headerSize[p] + PayloadSize(p) <= mem[header[p]].bytes
<1>1. PickleKnown(p)
  BY DEF PickleInv
<1>2. CASE Writable(p)
  <2>1. /\ PayloadSize(p) \in Nat /\ headerSize[p] \in Nat /\ capacity[p] \in Nat
        /\ PayloadSize(p) <= capacity[p]
    BY <1>2, WritableIs, Zenon
  <2>2. headerSize[p] + capacity[p] = mem[header[p]].bytes
    BY <1>1, <1>2 DEF PickleKnown
  <2> QED
    BY <2>1, <2>2
<1>3. CASE ~Writable(p)
  <2>1. headerSize[p] + PayloadSize(p) = mem[header[p]].bytes
    BY <1>1, <1>3 DEF PickleKnown
  <2>2. PayloadSize(p) \in Nat /\ headerSize[p] \in Nat
    BY HeaderIs
  <2> QED
    BY <2>1, <2>2
<1> QED
  BY <1>2, <1>3

\* A cursor that was at i and is asked for n bytes.
Advanced(d, i, end, n) ==
    /\ d = [index |-> d.index, end |-> end, ok |-> d.ok, from |-> d.from, size |-> d.size]
    /\ d.index \in Nat /\ d.index <= end /\ d.ok \in BOOLEAN
    /\ d.ok <=> n >= 0 /\ end - i >= n
    /\ d.ok => d.from = i /\ d.size = n
    /\ n >= 0 /\ i + Align(n, 4) <= end => d.ok /\ d.index = i + Align(n, 4)

\* GetReadPointerAndAdvance and Advance: the cursor stays within its range.
LEMMA Advances ==
    ASSUME NEW i \in Nat, NEW end \in Nat, NEW from, NEW size, NEW n \in Int, i <= end
    PROVE  Advanced(Advance([index |-> i, end |-> end, ok |-> TRUE, from |-> from, size |-> size], n),
                    i, end, n)
<1> DEFINE c == [index |-> i, end |-> end, ok |-> TRUE, from |-> from, size |-> size]
           d == Advance(c, n)
<1> SUFFICES Advanced(d, i, end, n)
  OBVIOUS
<1>1. CASE n < 0 \/ end - i < n
  <2>1. d = [index |-> end, end |-> end, ok |-> FALSE, from |-> from, size |-> size]
    BY <1>1 DEF Advance
  <2>2. ~(n >= 0 /\ i + Align(n, 4) <= end)
    BY <1>1, WordSizes
  <2> HIDE DEF d
  <2>3. /\ d.index = end /\ d.ok = FALSE
        /\ d = [index |-> d.index, end |-> end, ok |-> d.ok, from |-> d.from, size |-> d.size]
    BY <2>1
  <2>4. ~(n >= 0 /\ end - i >= n)
    BY <1>1
  <2>5. ~d.ok /\ d.ok \in BOOLEAN
    BY <2>3
  <2>6. d.index \in Nat /\ d.index <= end
    BY <2>3
  <2> QED
    BY <2>2, <2>3, <2>4, <2>5, <2>6, Zenon DEF Advanced
<1>2. CASE ~(n < 0 \/ end - i < n)
  <2> DEFINE j == IF end - i < Align(n, 4) THEN end ELSE i + Align(n, 4)
  <2>1. d = [index |-> j, end |-> end, ok |-> TRUE, from |-> i, size |-> n]
    BY <1>2 DEF Advance
  <2>2. Align(n, 4) \in Nat
    BY <1>2, WordSizes
  <2>3. j \in Nat /\ j <= end /\ (i + Align(n, 4) <= end => j = i + Align(n, 4))
    BY <2>2
  <2> HIDE DEF d, j
  <2>4. /\ d.index = j /\ d.ok = TRUE /\ d.from = i /\ d.size = n
        /\ d = [index |-> d.index, end |-> end, ok |-> d.ok, from |-> d.from, size |-> d.size]
    BY <2>1
  <2>5. n >= 0 /\ end - i >= n
    BY <1>2
  <2> QED
    BY <2>3, <2>4, <2>5 DEF Advanced
<1> QED
  BY <1>1, <1>2

\* What is passed over is read: its words are those of the payload.
LEMMA PassedAre ==
    ASSUME PickleAssumption, PickleInv, NEW p \in Pickles, HasHeader(p), NEW c,
           c.from \in Nat, c.size \in Nat, c.from + c.size <= PayloadSize(p)
    PROVE  LET t == Passed(p, c)
               from == headerSize[p] + c.from
               w == mem[header[p]].words
           IN  /\ t \in Seq(Words)
               /\ c.size > 0 => Len(t) >= 1
               /\ from % 4 = 0 => /\ Len(t) = WordsIn(c.size)
                                  /\ \A i \in 1..WordsIn(c.size) : t[i] = w[from \div 4 + i]
<1> DEFINE t == Passed(p, c)
           hs == headerSize[p]
           from == hs + c.from
           to == hs + c.from + c.size
           w == mem[header[p]].words
           size == c.size
<1>1. /\ w \in Seq(Words) /\ Len(w) \in Nat /\ PayloadSize(p) \in Nat
      /\ hs \in Nat /\ hs >= 4 /\ hs % 4 = 0
      /\ hs + PayloadSize(p) <= 4 * Len(w)
  BY HeaderIs
<1>2. t = Bytes(w, from, to) /\ to = from + size /\ from \in Nat /\ to \in Nat /\ to <= 4 * Len(w)
  <2>1. t = Bytes(w, from, to)
    BY DEF Passed
  <2> HIDE DEF t, w, hs
  <2> QED
    BY <1>1, <2>1
<1>3. size \in Nat
  OBVIOUS
<1> HIDE DEF t, w, hs, from, to, size
<1>4. WordsIn(to) <= Len(w) /\ WordsIn(to) \in Nat /\ WordsIn(size) \in Nat
  <2>1. WordsIn(to) <= Len(w)
    <3> DEFINE n == Len(w)
    <3>1. n \in Nat /\ to <= 4 * n
      BY <1>1, <1>2
    <3> HIDE DEF n
    <3>2. WordsIn(to) <= n
      BY <1>2, <3>1, SMT DEF WordsIn, Align
    <3> QED
      BY <3>2 DEF n
  <2> QED
    BY <1>2, <1>3, <2>1, WordSizes, Zenon
<1> DEFINE u == Bytes(w, from, to)
           n == WordsIn(to) - from \div 4
<1>5. /\ u \in Seq(Words) /\ Len(u) = (IF n > 0 THEN n ELSE 0)
      /\ \A i \in 1..n : u[i] = w[from \div 4 + i]
  <2>1. IsPart(u, w, from \div 4, n)
    BY <1>1, <1>2, <1>4, BytesAre, Zenon
  <2> HIDE DEF u, n
  <2> QED
    BY <2>1, Zenon DEF IsPart
<1> HIDE DEF u
<1>6. size > 0 => n >= 1
  BY <1>2, <1>3, SMT DEF WordsIn, Align
<1>7. from % 4 = 0 => n = WordsIn(size)
  <2>1. from % 4 = 0 => WordsIn(from + size) = from \div 4 + WordsIn(size)
    BY <1>2, <1>3, WordSizesAdd
  <2> QED
    BY <1>2, <1>3, <1>4, <2>1
<1>8. n \in Int
  BY <1>2, <1>4
<1> HIDE DEF n
<1>9. /\ size > 0 => Len(u) >= 1
      /\ from % 4 = 0 => /\ Len(u) = WordsIn(size)
                         /\ \A i \in 1..WordsIn(size) : u[i] = w[from \div 4 + i]
  BY <1>4, <1>5, <1>6, <1>7, <1>8
<1>10. t = u
  BY <1>2 DEF u
<1> QED
  BY <1>5, <1>9, <1>10, Zenon DEF t, w, from, hs, size

\* What reading does to the invariant: only the iterator and the last read are new.
LEMMA IteratorSteps ==
    ASSUME PickleAssumption, PickleInv, UNCHANGED <<members, mem, items>>,
           iter' \in [of : Pickles \cup {NULL}, index : Nat, end : Nat, next : Nat],
           (IteratorKnown /\ ReadsStayInside /\ RoundTrip)'
    PROVE  PickleInv'
<1>1. PickleTypeOK' /\ BlocksKnown'
  BY DEF PickleInv, PickleTypeOK, BlocksKnown, members, items, NoBlock, Heap, Where, Writable, HasHeader,
         Words, Entries, Items
<1>2. ASSUME NEW q \in Pickles
      PROVE  PickleKnown(q)' /\ ContentsKnown(q)'
  BY PickleKeeps DEF PickleInv, members, items
<1>3. ASSUME NEW f \in Buffers
      PROVE  ArrivalKnown(f)'
  BY BufferKeeps DEF PickleInv, items
<1> QED
  BY <1>1, <1>2, <1>3 DEF PickleInv

\* PickleIterator(pickle).
LEMMA BeginsReading ==
    ASSUME PickleAssumption, PickleInv, NEW p \in Pickles, BeginReading(p)
    PROVE  PickleInv'
<1>1. /\ Quiet /\ iter' = [of |-> p, index |-> 0, end |-> PayloadSize(p), next |-> 1]
      /\ UNCHANGED <<members, mem, items, last>>
  BY DEF BeginReading
<1>2. PickleTypeOK /\ last = NoRead /\ ContentsKnown(p)
  BY <1>1 DEF PickleInv, IteratorKnown, Quiet, NoIter
<1>3. PayloadSize(p) \in Nat
  BY PayloadSizes
<1>4. iter' \in [of : Pickles \cup {NULL}, index : Nat, end : Nat, next : Nat]
  BY <1>1, <1>3
<1>5. known[p] => 1 <= Len(log[p]) + 1 /\ 0 = Begins(p, 1)
  <2>1. log[p] \in Seq(Entries)
    BY <1>2, TypesAre
  <2>2. CASE log[p] = <<>>
    BY <1>2, <2>1, <2>2 DEF ContentsKnown, Contains, Begins
  <2>3. CASE log[p] # <<>>
    <3>1. 1 <= Len(log[p])
      BY <2>1, <2>3
    <3> QED
      BY <1>2, <2>1, <2>3, <3>1 DEF ContentsKnown, Contains, Begins
  <2> QED
    BY <2>2, <2>3
<1>6. PayloadSize(p)' = PayloadSize(p) /\ Begins(p, 1)' = Begins(p, 1)
  BY <1>1 DEF PayloadSize, Field, members, items, Begins
<1>7. IteratorKnown'
  BY <1>1, <1>2, <1>3, <1>5, <1>6 DEF IteratorKnown, items, NULL, PickleAssumption, NoRead
<1>8. ReadsStayInside' /\ RoundTrip'
  BY <1>1, <1>2, <1>3 DEF ReadsStayInside, RoundTrip, NoRead
<1> QED
  BY <1>1, <1>4, <1>7, <1>8, IteratorSteps

\* An iterator is gone.
LEMMA EndsReading ==
    ASSUME PickleAssumption, PickleInv, EndReading
    PROVE  PickleInv'
<1>1. iter' = NoIter /\ last' = NoRead /\ UNCHANGED <<members, mem, items>>
  BY DEF EndReading
<1>2. iter' \in [of : Pickles \cup {NULL}, index : Nat, end : Nat, next : Nat]
  BY <1>1 DEF NoIter
<1>3. (IteratorKnown /\ ReadsStayInside /\ RoundTrip)'
  BY <1>1 DEF IteratorKnown, ReadsStayInside, RoundTrip, NoIter, NoRead
<1> QED
  BY <1>1, <1>2, <1>3, IteratorSteps

\* What a read must be for the invariant: within the payload, what was written, and nothing
\* behind the last item.
Reads(p, c, it, words) ==
    /\ c.index \in Nat /\ c.index <= iter.end
    /\ c.ok => /\ HasHeader(p) /\ c.from \in Nat /\ c.size \in Nat /\ c.from + c.size <= iter.end
    /\ known[p] /\ iter.next > 0 /\ iter.next <= Len(log[p]) =>
         LET e == log[p][iter.next] IN
         e.it = it => c.ok /\ c.index = Begins(p, iter.next + 1) /\ words = ValueWords(e.name, it.size)
    /\ known[p] /\ iter.next > Len(log[p]) => ~c.ok

\* A read that is one of these keeps the invariant.
LEMMA Records ==
    ASSUME PickleAssumption, PickleInv, NEW p \in Pickles, iter.of = p, NEW c, NEW it, NEW words,
           Reads(p, c, it, words), Record(p, c, it, words)
    PROVE  PickleInv'
<1> DEFINE k == iter.next
           l == log[p]
           next == IF k > 0 /\ k <= Len(l) /\ l[k].it = it THEN k + 1 ELSE 0
<1>1. /\ iter' = [iter EXCEPT !.index = c.index, !.next = next]
      /\ last' = [of |-> p, it |-> it, asked |-> k, ok |-> c.ok, words |-> words,
                  from |-> c.from, to |-> c.from + c.size]
      /\ UNCHANGED <<members, mem, items>>
  BY DEF Record
<1>2. PickleTypeOK /\ IteratorKnown /\ p # NULL
  BY DEF PickleInv, PickleAssumption, NULL
<1>3. l \in Seq(Entries) /\ k \in Nat
  BY <1>2, TypesAre DEF PickleTypeOK
<1>4. /\ iter.end = PayloadSize(p) /\ iter.end \in Nat
      /\ known[p] /\ k > 0 => k <= Len(l) + 1
  BY <1>2 DEF IteratorKnown, PickleTypeOK
<1>5. /\ c.index \in Nat /\ c.index <= iter.end
      /\ c.ok => HasHeader(p) /\ c.from \in Nat /\ c.size \in Nat /\ c.from + c.size <= iter.end
      /\ known[p] /\ k > Len(l) => ~c.ok
  BY DEF Reads
<1>6. ASSUME known[p], k > 0, k <= Len(l), l[k].it = it
      PROVE  c.ok /\ c.index = Begins(p, k + 1) /\ words = ValueWords(l[k].name, it.size)
  BY <1>6 DEF Reads
<1> HIDE DEF k, l, next
<1>7. next \in Nat /\ (next = 0 \/ (next = k + 1 /\ k > 0 /\ k <= Len(l) /\ l[k].it = it))
  BY <1>3 DEF next
<1>8. /\ iter' = [of |-> p, index |-> c.index, end |-> iter.end, next |-> next]
      /\ iter' \in [of : Pickles \cup {NULL}, index : Nat, end : Nat, next : Nat]
  BY <1>1, <1>2, <1>5, <1>7 DEF PickleTypeOK
<1>9. /\ known' = known /\ log' = log /\ sizer' = sizer /\ PayloadSize(p)' = PayloadSize(p)
      /\ headerSize' = headerSize /\ mem' = mem /\ header' = header
  BY <1>1 DEF items, members, PayloadSize, Field
<1>10. known[p] /\ next > 0 => next <= Len(l) + 1 /\ c.index = Begins(p, next)
  BY <1>3, <1>6, <1>7
<1>11. IteratorKnown'
  <2>1. /\ iter'.of = p /\ iter'.index = c.index /\ iter'.end = iter.end /\ iter'.next = next
    BY <1>8
  <2>2. last'.of = p
    BY <1>1
  <2>3. Begins(iter.of, iter.next)' = Begins(p, next)
    BY <1>9, <2>1 DEF Begins
  <2>4. PayloadSize(iter.of)' = iter.end
    BY <1>4, <1>9, <2>1 DEF PayloadSize, Field
  <2>5. /\ iter'.index <= iter'.end /\ iter'.end = PayloadSize(iter.of)'
        /\ known'[iter'.of] /\ iter'.next > 0 => /\ iter'.next <= Len(log'[iter'.of]) + 1
                                                /\ iter'.index = Begins(iter.of, iter.next)'
    BY <1>5, <1>9, <1>10, <2>1, <2>3, <2>4 DEF l
  <2> QED
    BY <1>2, <2>1, <2>2, <2>5, Zenon DEF IteratorKnown, NULL
<1>12. /\ last'.of = p /\ last'.ok = c.ok /\ last'.asked = k /\ last'.it = it /\ last'.words = words
       /\ last'.from = c.from /\ last'.to = c.from + c.size
  BY <1>1
<1>13. ReadsStayInside'
  <2>1. iter'.index = c.index /\ iter'.end = iter.end
    BY <1>8
  <2>2. ASSUME c.ok
        PROVE  c.from >= 0 /\ c.from + c.size <= iter.end /\ headerSize[p] + (c.from + c.size) <= mem[header[p]].bytes
    <3>1. /\ headerSize[p] + PayloadSize(p) <= mem[header[p]].bytes
          /\ headerSize[p] \in Nat /\ mem[header[p]].bytes \in Nat
      BY <1>5, <2>2, PayloadInBlock, HeaderIs
    <3> QED
      BY <1>4, <1>5, <2>2, <3>1
  <2> QED
    BY <1>5, <1>9, <1>12, <2>1, <2>2 DEF ReadsStayInside
<1>14. RoundTrip'
  <2> SUFFICES ASSUME known[p], k > 0
               PROVE  IF k > Len(l) THEN ~c.ok
                      ELSE l[k].it = it => c.ok /\ words = ValueWords(l[k].name, l[k].it.size)
    BY <1>2, <1>9, <1>12 DEF RoundTrip, NULL, l
  <2> QED
    BY <1>3, <1>5, <1>6
<1> QED
  BY <1>1, <1>8, <1>11, <1>13, <1>14, IteratorSteps

\* Where an iterator is, and that there is something to read only in a pickle with a header.
LEMMA CursorIs ==
    ASSUME PickleAssumption, PickleInv, NEW p \in Pickles, iter.of = p
    PROVE  /\ iter.index \in Nat /\ iter.end \in Nat /\ iter.next \in Nat /\ iter.index <= iter.end
           /\ iter.end = PayloadSize(p) /\ (iter.end > 0 => HasHeader(p))
           /\ HasHeader(p) => headerSize[p] \in Nat /\ headerSize[p] % 4 = 0
           /\ log[p] \in Seq(Entries)
<1>1. PickleTypeOK /\ IteratorKnown /\ p # NULL
  BY DEF PickleInv, PickleAssumption, NULL
<1>2. iter.index \in Nat /\ iter.end \in Nat /\ iter.next \in Nat
  BY <1>1 DEF PickleTypeOK
<1>3. iter.index <= iter.end /\ iter.end = PayloadSize(p)
  BY <1>1 DEF IteratorKnown
<1>4. iter.end > 0 => HasHeader(p)
  BY <1>3 DEF PayloadSize, HasHeader
<1>5. HasHeader(p) => headerSize[p] \in Nat /\ headerSize[p] % 4 = 0
  BY HeaderIs
<1> QED
  BY <1>1, <1>2, <1>3, <1>4, <1>5, TypesAre

\* The words of a value, read as far as it goes.
LEMMA ValueIsRead ==
    ASSUME NEW t \in Seq(Words), NEW name \in Pickles \X Nat, NEW n \in Nat,
           Len(t) = WordsIn(n), \A i \in 1..WordsIn(n) : t[i] = Word(name, i)
    PROVE  t = ValueWords(name, n)
<1>1. /\ ValueWords(name, n) \in Seq(Words) /\ Len(ValueWords(name, n)) = WordsIn(n)
      /\ \A i \in 1..WordsIn(n) : ValueWords(name, n)[i] = Word(name, i)
  BY ValueWordsAre
<1> HIDE DEF ValueWords
<1> QED
  BY <1>1, SeqEqual

\* ReadInt, ReadUInt64 and their like.
LEMMA ReadsPods ==
    ASSUME PickleAssumption, PickleInv, NEW p \in Pickles, NEW n \in PodSizes, ReadPod(p, n)
    PROVE  PickleInv'
<1> DEFINE c == Advance(Cursor(p), n)
           it == [kind |-> "pod", size |-> n]
           words == IF c.ok THEN Passed(p, c) ELSE <<>>
           k == iter.next
           e == log[p][k]
           hs == headerSize[p]
<1>1. iter.of = p /\ Record(p, c, it, words)
  BY DEF ReadPod
<1>2. /\ iter.index \in Nat /\ iter.end \in Nat /\ k \in Nat /\ iter.index <= iter.end
      /\ iter.end = PayloadSize(p) /\ (iter.end > 0 => HasHeader(p))
      /\ HasHeader(p) => hs \in Nat /\ hs % 4 = 0
      /\ log[p] \in Seq(Entries)
  BY <1>1, CursorIs
<1>3. n \in Nat /\ n > 0 /\ it \in Items /\ it.kind = "pod" /\ it.size = n
  <2>1. it \in Items /\ it.kind = "pod" /\ it.size = n
    BY DEF Items
  <2> HIDE DEF it
  <2> QED
    BY <2>1, ItemSizes
<1>4. Advanced(c, iter.index, iter.end, n)
  <2>1. n \in Int
    BY <1>3
  <2>2. c = Advance([index |-> iter.index, end |-> iter.end, ok |-> TRUE, from |-> 0, size |-> 0], n)
    BY DEF Cursor
  <2> HIDE DEF c
  <2> QED
    BY <1>2, <2>1, <2>2, Advances, Zenon
<1> HIDE DEF c, it, k, e, hs
<1>5. /\ c.index \in Nat /\ c.index <= iter.end /\ c.ok \in BOOLEAN
      /\ c.ok <=> n >= 0 /\ iter.end - iter.index >= n
      /\ c.ok => c.from = iter.index /\ c.size = n
      /\ n >= 0 /\ iter.index + Align(n, 4) <= iter.end => c.ok /\ c.index = iter.index + Align(n, 4)
  BY <1>4, Zenon DEF Advanced
<1>6. c.ok => /\ HasHeader(p) /\ c.from \in Nat /\ c.size \in Nat /\ c.from + c.size <= iter.end
  BY <1>2, <1>3, <1>5
<1>7. ASSUME known[p], k > 0, k <= Len(log[p]), e.it = it
      PROVE  c.ok /\ c.index = Begins(p, k + 1) /\ words = ValueWords(e.name, n)
  <2> DEFINE w == mem[header[p]].words
             m == (hs + iter.index) \div 4
  <2>1. /\ HasHeader(p) /\ e \in Entries /\ e.at = iter.index /\ e.at % 4 = 0
        /\ e.at + SizerAdd(e.it) <= iter.end
        /\ e.at + SizerAdd(e.it) = Begins(p, k + 1)
        /\ \A j \in 1..Len(Image(e.it, e.name)) : w[m + j] = Image(e.it, e.name)[j]
    BY <1>1, <1>7, NextIsHere, Zenon DEF k, e, hs
  <2>2. e.name \in Pickles \X Nat
    BY <2>1 DEF Entries
  <2>3. SizerAdd(it) = Align(n, 4)
    BY <1>3 DEF SizerAdd, AddBytes
  <2>4. c.ok /\ c.index = Begins(p, k + 1)
    BY <1>3, <1>5, <1>7, <2>1, <2>3
  <2>5. Image(it, e.name) = ValueWords(e.name, n)
    BY <1>3, <2>2, ImageIs
  <2>6. WordsIn(n) \in Nat /\ Len(ValueWords(e.name, n)) = WordsIn(n)
        /\ \A i \in 1..WordsIn(n) : ValueWords(e.name, n)[i] = Word(e.name, i)
    BY <1>3, <2>2, WordSizes, ValueWordsAre, Zenon
  <2> DEFINE t == Passed(p, c)
  <2>7. c.from \in Nat /\ c.size \in Nat /\ c.from + c.size <= PayloadSize(p) /\ c.size = n /\ c.from = iter.index
    BY <1>2, <1>5, <1>6, <2>4
  <2>8. (hs + c.from) % 4 = 0
    <3>1. hs \in Nat /\ hs % 4 = 0 /\ c.from \in Nat /\ c.from % 4 = 0
      BY <1>2, <2>1, <2>7
    <3> QED
      BY <3>1, FoursAdd, Zenon
  <2> HIDE DEF t, w, m
  <2>9. /\ t \in Seq(Words) /\ Len(t) = WordsIn(n)
        /\ \A i \in 1..WordsIn(n) : t[i] = w[m + i]
    <3>1. /\ t \in Seq(Words) /\ Len(t) = WordsIn(c.size)
          /\ \A i \in 1..WordsIn(c.size) : t[i] = w[(hs + c.from) \div 4 + i]
      BY <2>1, <2>7, <2>8, PassedAre, Zenon DEF hs, t, w
    <3> QED
      BY <2>7, <3>1, Zenon DEF m
  <2>10. \A i \in 1..WordsIn(n) : t[i] = Word(e.name, i)
    BY <1>7, <2>1, <2>5, <2>6, <2>9
  <2>11. t = ValueWords(e.name, n)
    BY <1>3, <2>2, <2>9, <2>10, ValueIsRead
  <2> QED
    BY <2>4, <2>11 DEF t
<1>8. known[p] /\ k > Len(log[p]) => ~c.ok
  BY <1>1, <1>2, <1>3, <1>5, NothingIsLeft DEF k
<1>9. Reads(p, c, it, words)
  BY <1>3, <1>5, <1>6, <1>7, <1>8, Zenon DEF Reads, k, e
<1> QED
  BY <1>1, <1>9, Records, Zenon

\* ReadString, ReadStringPiece, ReadData: whatever the length says that is found there.
LEMMA ReadsData ==
    ASSUME PickleAssumption, PickleInv, NEW p \in Pickles, NEW it \in Items, it.kind = "data", ReadData(p, it)
    PROVE  PickleInv'
<1> DEFINE c == Advance(Cursor(p), 4)
           k == iter.next
           e == log[p][k]
           hs == headerSize[p]
           w == mem[header[p]].words
           m == (hs + iter.index) \div 4
           here == known[p] /\ k > 0 /\ k <= Len(log[p]) /\ e.it = it
<1>1. /\ iter.of = p
      /\ \E n \in IF c.ok THEN Numbers(Passed(p, c)[1]) ELSE {0} :
           LET d == IF c.ok THEN Advance(c, n) ELSE c
           IN  Record(p, d, it, IF d.ok THEN Passed(p, d) ELSE <<>>)
  BY DEF ReadData
<1>2. /\ iter.index \in Nat /\ iter.end \in Nat /\ k \in Nat /\ iter.index <= iter.end
      /\ iter.end = PayloadSize(p) /\ (iter.end > 0 => HasHeader(p))
      /\ HasHeader(p) => hs \in Nat /\ hs % 4 = 0
      /\ log[p] \in Seq(Entries)
  BY <1>1, CursorIs
<1>3. it.size \in Nat
  BY ItemSizes
<1>4. Advanced(c, iter.index, iter.end, 4)
  <2>1. 4 \in Int
    OBVIOUS
  <2>2. c = Advance([index |-> iter.index, end |-> iter.end, ok |-> TRUE, from |-> 0, size |-> 0], 4)
    BY DEF Cursor
  <2> HIDE DEF c
  <2> QED
    BY <1>2, <2>1, <2>2, Advances, Zenon
<1> HIDE DEF c
<1>5. /\ c = [index |-> c.index, end |-> iter.end, ok |-> c.ok, from |-> c.from, size |-> c.size]
      /\ c.index \in Nat /\ c.index <= iter.end /\ c.ok \in BOOLEAN
      /\ c.ok <=> 4 >= 0 /\ iter.end - iter.index >= 4
      /\ c.ok => c.from = iter.index /\ c.size = 4
      /\ 4 >= 0 /\ iter.index + Align(4, 4) <= iter.end => c.ok /\ c.index = iter.index + Align(4, 4)
  BY <1>4, Zenon DEF Advanced
<1>6. Align(4, 4) = 4 /\ Align(it.size, 4) \in Nat /\ WordsIn(4) = 1 /\ WordsIn(it.size) \in Nat
  <2>1. Align(4, 4) = 4 /\ WordsIn(4) = 1
    BY SMT DEF Align, WordsIn
  <2> QED
    BY <1>3, <2>1, WordSizes, Zenon
<1>7. SizerAdd(it) = 4 + Align(it.size, 4)
  BY <1>6 DEF SizerAdd, AddBytes
<1> HIDE DEF k, e, hs, w, m
\* The next item is there, with its length and its bytes.
<1>8. ASSUME here
      PROVE  /\ c.ok /\ c.index = iter.index + 4 /\ HasHeader(p)
             /\ e.name \in Pickles \X Nat /\ (hs + iter.index) % 4 = 0
             /\ iter.index + 4 + Align(it.size, 4) <= iter.end
             /\ iter.index + 4 + Align(it.size, 4) = Begins(p, k + 1)
             /\ w[m + 1] = Number(it.size)
             /\ \A i \in 1..WordsIn(it.size) : w[m + (i + 1)] = Word(e.name, i)
  <2>1. /\ HasHeader(p) /\ e \in Entries /\ e.at = iter.index /\ e.at % 4 = 0
        /\ e.at + SizerAdd(e.it) <= iter.end
        /\ e.at + SizerAdd(e.it) = Begins(p, k + 1)
        /\ \A j \in 1..Len(Image(e.it, e.name)) : w[m + j] = Image(e.it, e.name)[j]
    BY <1>1, <1>8, NextIsHere, Zenon DEF k, e, hs, w, m
  <2>2. e.name \in Pickles \X Nat
    BY <2>1 DEF Entries
  <2>3. /\ Len(Image(it, e.name)) = 1 + WordsIn(it.size)
        /\ Image(it, e.name)[1] = Number(it.size)
        /\ \A i \in 1..WordsIn(it.size) : Image(it, e.name)[i + 1] = Word(e.name, i)
    BY <2>2, ImageIs, Zenon
  <2>4. e.it = it
    BY <1>8
  <2>5. /\ iter.index + 4 + Align(it.size, 4) <= iter.end
        /\ iter.index + 4 + Align(it.size, 4) = Begins(p, k + 1)
    BY <1>2, <1>6, <1>7, <2>1, <2>4
  <2>6. c.ok /\ c.index = iter.index + 4
    BY <1>2, <1>5, <1>6, <2>5
  <2>7. (hs + iter.index) % 4 = 0
    <3>1. hs \in Nat /\ hs % 4 = 0 /\ iter.index % 4 = 0
      BY <1>2, <2>1
    <3> QED
      BY <1>2, <3>1, FoursAdd, Zenon
  <2>8. \A j \in 1..1 + WordsIn(it.size) : w[m + j] = Image(it, e.name)[j]
    BY <2>1, <2>3, <2>4
  <2>9. w[m + 1] = Number(it.size)
    <3>1. 1 \in 1..1 + WordsIn(it.size)
      BY <1>6
    <3> QED
      BY <2>3, <2>8, <3>1, Zenon
  <2>10. ASSUME NEW i \in 1..WordsIn(it.size)
         PROVE  w[m + (i + 1)] = Word(e.name, i)
    <3>1. i + 1 \in 1..1 + WordsIn(it.size)
      BY <1>6
    <3> QED
      BY <2>3, <2>8, <3>1, Zenon
  <2> QED
    BY <2>1, <2>2, <2>5, <2>6, <2>7, <2>9, <2>10, Zenon
\* Behind the last item there is not even a length.
<1>9. known[p] /\ k > Len(log[p]) => ~c.ok
  BY <1>1, <1>2, <1>5, NothingIsLeft DEF k
<1>10. CASE ~c.ok
  <2>1. Record(p, c, it, <<>>)
    BY <1>1, <1>10
  <2>2. ~here
    BY <1>8, <1>10
  <2>3. Reads(p, c, it, <<>>)
    BY <1>5, <1>10, <2>2, Zenon DEF Reads, k, e
  <2> QED
    BY <1>1, <2>1, <2>3, Records, Zenon
<1>11. CASE c.ok
  <2> DEFINE t == Passed(p, c)
  <2>1. /\ HasHeader(p) /\ c.from = iter.index /\ c.size = 4 /\ c.from \in Nat /\ c.size \in Nat
        /\ c.from + c.size <= PayloadSize(p) /\ c.size > 0
    BY <1>2, <1>5, <1>11
  <2>2. /\ t \in Seq(Words) /\ Len(t) >= 1
        /\ (hs + c.from) % 4 = 0 => \A i \in 1..WordsIn(c.size) : t[i] = w[(hs + c.from) \div 4 + i]
    BY <2>1, PassedAre, Zenon DEF hs, w
  <2> HIDE DEF t
  <2>3. t[1] \in Words
    BY <2>2
  <2> DEFINE number == t[1]
  <2>4. Numbers(number) \subseteq Int
    <3>1. number.n \in Int
      BY <2>3 DEF Words
    <3> HIDE DEF number
    <3> QED
      BY <3>1 DEF Numbers
  <2>5. PICK n \in Numbers(number) :
           LET d == Advance(c, n) IN Record(p, d, it, IF d.ok THEN Passed(p, d) ELSE <<>>)
    BY <1>1, <1>11 DEF t
  <2> DEFINE d == Advance(c, n)
             words == IF d.ok THEN Passed(p, d) ELSE <<>>
  <2>6. Advanced(d, c.index, iter.end, n)
    <3>1. c = [index |-> c.index, end |-> iter.end, ok |-> TRUE, from |-> c.from, size |-> c.size]
      BY <1>5, <1>11
    <3>2. n \in Int
      BY <2>4
    <3> QED
      BY <1>2, <1>5, <3>1, <3>2, Advances, Zenon
  <2> HIDE DEF d
  <2>7. /\ d.index \in Nat /\ d.index <= iter.end /\ d.ok \in BOOLEAN
        /\ d.ok <=> n >= 0 /\ iter.end - c.index >= n
        /\ d.ok => d.from = c.index /\ d.size = n
        /\ n >= 0 /\ c.index + Align(n, 4) <= iter.end => d.ok /\ d.index = c.index + Align(n, 4)
    BY <2>6, Zenon DEF Advanced
  <2>8. d.ok => HasHeader(p) /\ d.from \in Nat /\ d.size \in Nat /\ d.from + d.size <= iter.end
    BY <1>2, <1>5, <2>1, <2>4, <2>7
  <2>9. ASSUME here
        PROVE  d.ok /\ d.index = Begins(p, k + 1) /\ words = ValueWords(e.name, it.size)
    <3>1. n = it.size
      <4>1. 1 \in 1..WordsIn(c.size) /\ (hs + c.from) \div 4 = m
        BY <1>6, <2>1 DEF m
      <4>2. number = w[m + 1]
        BY <1>8, <2>1, <2>2, <2>9, <4>1
      <4>3. number = Number(it.size)
        BY <1>8, <2>9, <4>2
      <4> HIDE DEF number
      <4>4. Numbers(number) = {it.size}
        BY <4>3 DEF Numbers, Number
      <4> QED
        BY <2>5, <4>4
    <3>2. c.index = iter.index + 4 /\ d.ok /\ d.index = Begins(p, k + 1)
      <4> DEFINE z == Align(it.size, 4)
      <4>1. /\ c.index = iter.index + 4 /\ iter.index + 4 + z <= iter.end
            /\ iter.index + 4 + z = Begins(p, k + 1) /\ z \in Nat
        BY <1>6, <1>8, <2>9, Zenon
      <4>2. n >= 0
        BY <1>3, <3>1
      <4>3. c.index + z <= iter.end /\ c.index + z = Begins(p, k + 1)
        BY <4>1, Zenon
      <4> QED
        BY <2>7, <3>1, <4>1, <4>2, <4>3, Zenon
    <3> DEFINE u == Passed(p, d)
    <3>3. d.from \in Nat /\ d.size = it.size /\ d.from + d.size <= PayloadSize(p) /\ d.from = iter.index + 4
      BY <1>2, <2>7, <2>8, <3>1, <3>2
    <3>4. (hs + d.from) % 4 = 0 /\ (hs + d.from) \div 4 = m + 1
      <4>1. hs \in Nat /\ iter.index \in Nat /\ (hs + iter.index) % 4 = 0 /\ d.from = iter.index + 4
        BY <1>2, <1>8, <2>9, <3>3
      <4> QED
        BY <4>1, SMT DEF m
    <3> HIDE DEF u
    <3>5. /\ u \in Seq(Words) /\ Len(u) = WordsIn(d.size)
          /\ \A i \in 1..WordsIn(d.size) : u[i] = w[(hs + d.from) \div 4 + i]
      BY <1>3, <2>1, <3>3, <3>4, PassedAre, Zenon DEF hs, w, u
    <3>6. \A i \in 1..WordsIn(it.size) : u[i] = w[(m + 1) + i]
      BY <3>3, <3>4, <3>5, Zenon
    <3>7. m \in Int /\ \A i \in 1..WordsIn(it.size) : (m + 1) + i = m + (i + 1)
      <4>1. m \in Int
        BY <1>2, <1>8, <2>9 DEF m
      <4> QED
        BY <1>6, <4>1
    <3>8. \A i \in 1..WordsIn(it.size) : u[i] = Word(e.name, i)
      BY <1>8, <2>9, <3>6, <3>7
    <3>9. u = ValueWords(e.name, it.size)
      BY <1>3, <1>8, <2>9, <3>3, <3>5, <3>8, ValueIsRead
    <3> QED
      BY <3>2, <3>9 DEF u
  <2>10. ~(known[p] /\ k > Len(log[p]))
    BY <1>9, <1>11
  <2>11. Reads(p, d, it, words)
    <3> HIDE DEF words
    <3> QED
      BY <2>7, <2>8, <2>9, <2>10, Zenon DEF Reads, k, e
  <2>12. Record(p, d, it, words)
    BY <2>5 DEF d
  <2> QED
    BY <1>1, <2>11, <2>12, Records, Zenon
<1> QED
  BY <1>5, <1>10, <1>11

-----------------------------------------------------------------------------
(* The theorems.                                                           *)

\* At the beginning there are no pickles and no blocks.
LEMMA PicklesBegin ==
    ASSUME PickleAssumption, PickleInit
    PROVE  PickleInv
<1>1. PickleTypeOK
  BY DEF PickleInit, PickleTypeOK, NoBlock, NoIter
<1>2. BlocksKnown
  <2>1. \A b \in Where : mem[b] = NoBlock
    BY DEF PickleInit
  <2>2. \A b \in Heap \cup Buffers : b \in Where
    BY DEF Where
  <2>3. WordsIn(0) = 0
    BY SMT DEF WordsIn, Align
  <2>4. NoBlock.words = <<>> /\ NoBlock.bytes = 0 /\ Len(<<>>) = 0
    BY DEF NoBlock
  <2> QED
    BY <2>1, <2>2, <2>3, <2>4 DEF BlocksKnown
<1>3. IteratorKnown /\ ReadsStayInside /\ RoundTrip
  BY DEF PickleInit, IteratorKnown, ReadsStayInside, RoundTrip, NoIter, NoRead
<1>4. \A p \in Pickles : PickleKnown(p) /\ ContentsKnown(p)
  BY DEF PickleInit, PickleKnown, ContentsKnown, HasHeader, Writable
<1>5. \A f \in Buffers : ArrivalKnown(f)
  BY DEF PickleInit, ArrivalKnown
<1> QED
  BY <1>1, <1>2, <1>3, <1>4, <1>5 DEF PickleInv

\* Every action keeps the invariant.
LEMMA PicklesContinue ==
    ASSUME PickleAssumption, PickleInv, [PickleNext]_pickleVars
    PROVE  PickleInv'
<1>1. CASE UNCHANGED pickleVars
  <2>1. UNCHANGED <<members, mem, items>> /\ iter' = iter /\ last' = last
    BY <1>1 DEF pickleVars, members, items
  <2>2. iter' \in [of : Pickles \cup {NULL}, index : Nat, end : Nat, next : Nat]
    BY <2>1 DEF PickleInv, PickleTypeOK
  <2>3. (IteratorKnown /\ ReadsStayInside /\ RoundTrip)'
    BY <2>1 DEF PickleInv, IteratorKnown, ReadsStayInside, RoundTrip, members, items,
                NoIter, NoRead, PayloadSize, Field, Begins
  <2> QED
    BY <2>1, <2>2, <2>3, IteratorSteps
<1>2. ASSUME NEW p \in Pickles, NEW size \in HeaderSizes, CreatePickle(p, size)
      PROVE  PickleInv'
  BY <1>2, Creates
<1>3. ASSUME NEW p \in Pickles, NEW f \in Buffers, View(p, f)
      PROVE  PickleInv'
  BY <1>3, Views
<1>4. ASSUME NEW p \in Pickles, NEW q \in Pickles, CopyPickle(p, q) \/ AssignPickle(p, q)
      PROVE  PickleInv'
  BY <1>4, CopiesAndAssigns
<1>5. ASSUME NEW p \in Pickles, DestroyPickle(p)
      PROVE  PickleInv'
  BY <1>5, Destroys
<1>6. ASSUME NEW p \in Pickles, NEW it \in Items, WriteItem(p, it)
      PROVE  PickleInv'
  BY <1>6, Writes
<1>7. ASSUME NEW p \in Pickles, NEW n \in Lengths, Reserve(p, n)
      PROVE  PickleInv'
  BY <1>7, Reserves
<1>8. ASSUME NEW p \in Pickles, NEW f \in Buffers, NEW cut \in Cuts,
             NEW field \in WrongSizes \cup {PayloadSize(p)},
             Receive(f, p, headerSize[p] + PayloadSize(p) - cut, field)
      PROVE  PickleInv'
  <2>1. field \in Nat
    BY PayloadSizes DEF PickleAssumption
  <2> QED
    BY <1>8, <2>1, Receives
<1>9. ASSUME NEW p \in Pickles, BeginReading(p)
      PROVE  PickleInv'
  BY <1>9, BeginsReading
<1>10. ASSUME EndReading
       PROVE  PickleInv'
  BY <1>10, EndsReading
<1>11. ASSUME NEW p \in Pickles, NEW n \in PodSizes, ReadPod(p, n)
       PROVE  PickleInv'
  BY <1>11, ReadsPods
<1>12. ASSUME NEW p \in Pickles, NEW it \in {i \in Items : i.kind = "data"}, ReadData(p, it)
       PROVE  PickleInv'
  BY <1>12, ReadsData
<1> QED
  BY <1>1, <1>2, <1>3, <1>4, <1>5, <1>6, <1>7, <1>8, <1>9, <1>10, <1>11, <1>12 DEF PickleNext

\* Every variable of Pickle keeps its type; a pickle that writes has the block it was given
\* to itself, with its payload within the capacity, and another is on a buffer of just its
\* size; what a pickle or a buffer should hold is where the log says, and an iterator that was
\* asked for the items so far is where the next one begins.
THEOREM PickleInvariantHolds ==
    ASSUME PickleAssumption
    PROVE  PickleSpec => []PickleInv
<1>1. PickleInit => PickleInv
  BY PicklesBegin
<1>2. PickleInv /\ [PickleNext]_pickleVars => PickleInv'
  BY PicklesContinue
<1> QED
  BY <1>1, <1>2, PTL DEF PickleSpec

\* The invariant says what is promised.
LEMMA InvariantIsEnough ==
    ASSUME PickleAssumption, PickleInv
    PROVE  PicklesAreSafe
<1>1. BlocksAreOwned
  <2>1. ASSUME NEW b \in Heap, mem[b] # NoBlock
        PROVE  \E p \in Pickles : header[p] = b /\ Writable(p)
    BY <2>1 DEF PickleInv, BlocksKnown
  <2>2. ASSUME NEW p \in Pickles, Writable(p)
        PROVE  /\ header[p] \in Heap /\ mem[header[p]] # NoBlock
               /\ \A q \in Pickles \ {p} : header[q] # header[p]
    <3>1. header[p] = p /\ HasHeader(p)
      BY <2>2, WritableIs, Zenon
    <3>2. mem[header[p]] # NoBlock
      BY <3>1 DEF PickleInv, PickleKnown
    <3>3. ASSUME NEW q \in Pickles \ {p}, header[q] = p
          PROVE  FALSE
      <4>1. HasHeader(q)
        BY <3>3 DEF HasHeader, NULL, PickleAssumption
      <4>2. header[q] \in {q} \cup Buffers
        BY <4>1, HeadersApart
      <4> QED
        BY <3>3, <4>2 DEF PickleAssumption
    <3> QED
      BY <3>1, <3>2, <3>3 DEF Heap
  <2> QED
    BY <2>1, <2>2 DEF BlocksAreOwned
<1>2. BlocksAreLargeEnough
  <2>1. ASSUME NEW p \in Pickles, HasHeader(p)
        PROVE  headerSize[p] + PayloadSize(p) <= mem[header[p]].bytes
    BY <2>1, PayloadInBlock
  <2>2. ASSUME NEW p \in Pickles, Writable(p)
        PROVE  /\ PayloadSize(p) <= capacity[p] /\ capacity[p] % Unit = 0
               /\ writeOffset[p] <= PayloadSize(p)
               /\ headerSize[p] + capacity[p] = mem[header[p]].bytes
    <3>1. /\ PayloadSize(p) <= capacity[p] /\ capacity[p] % Unit = 0
          /\ writeOffset[p] \in {0, PayloadSize(p)}
          /\ headerSize[p] + capacity[p] = mem[header[p]].bytes
      BY <2>2 DEF PickleInv, PickleKnown
    <3> QED
      BY <3>1, PayloadSizes
  <2> QED
    BY <2>1, <2>2 DEF BlocksAreLargeEnough
<1>3. SizerAgrees
  BY DEF SizerAgrees, PickleInv, ContentsKnown
<1>4. FindNextSplits
  <2>1. ASSUME NEW p \in Pickles, Writable(p), NEW n \in 0..headerSize[p] + PayloadSize(p) + 8
        PROVE  FindNext(headerSize[p], PayloadSize(p), n) =
                  IF n >= headerSize[p] + PayloadSize(p) THEN headerSize[p] + PayloadSize(p) ELSE -1
    <3>1. headerSize[p] \in Nat /\ headerSize[p] >= 4 /\ PayloadSize(p) \in Nat
      BY <2>1, WritableIs, Zenon
    <3> QED
      BY <3>1 DEF FindNext
  <2> QED
    BY <2>1 DEF FindNextSplits
<1> QED
  BY <1>1, <1>2, <1>3, <1>4 DEF PickleInv, PicklesAreSafe

\* Any number of pickles may be written, copied, assigned, sent, cut short, damaged and read,
\* in any order (pickle.cc): every block has one owner and holds what the pickle says it does,
\* no read leaves the payload whatever length it finds there, what was written is read back in
\* order with nothing behind it, and PickleSizer and FindNext agree with what was written.
THEOREM PicklesAlwaysSafe ==
    ASSUME PickleAssumption
    PROVE  PickleSpec => []PicklesAreSafe
<1>1. PickleInv => PicklesAreSafe
  BY InvariantIsEnough
<1> QED
  BY <1>1, PickleInvariantHolds, PTL
=============================================================================

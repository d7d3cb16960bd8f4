----------------------------- MODULE BigInteger -----------------------------
(***************************************************************************)
(* The unbounded integers of include/Numerics/BigInteger.h: a sign and the *)
(* words of the magnitude, the lowest first.                               *)
(*                                                                         *)
(* A word has four bits here and a byte two: UInt32 is WordValues wide,    *)
(* Int32 half a word's values, Int64 two words. PHANTASMA_EXCEPTION        *)
(* throws: Refused. A character of a text is its digit, or one of the      *)
(* marks below. Products of two words wrap to the right words in every     *)
(* build although the code forms them as signed; `word >> n` with n above  *)
(* the word's bits, in ShiftRight, is the shift by the rest, as the        *)
(* processors of the supported builds do it.                               *)
(***************************************************************************)
EXTENDS Integers, Sequences, SequencesExt

UInt32Bits   == 4
ByteBits   == 2
WordValues == 2 ^ UInt32Bits
ByteValues == 2 ^ ByteBits
WordBytes  == UInt32Bits \div ByteBits

Refused == [sign |-> 2, data |-> <<>>]

-----------------------------------------------------------------------------
(* Words.                                                                  *)

\* What is left of a buffer without the zero words at its end.
Used(data) ==
    CHOOSE n \in 0 .. Len(data) : (n = 0 \/ data[n] # 0) /\ \A i \in n + 1 .. Len(data) : data[i] = 0
WordAt(data, i) == IF i \in DOMAIN data THEN data[i] ELSE 0
Longest(X, Y) == IF Len(X) > Len(Y) THEN Len(X) ELSE Len(Y)

Zero == [sign |-> 0, data |-> <<0>>]
InitFromArray(data, sign) ==
    LET n == Used(data) IN IF n = 0 THEN Zero ELSE [sign |-> sign, data |-> SubSeq(data, 1, n)]
\* An empty buffer stays empty.
Trim(x) ==
    LET n == Used(x.data)
    IN  [sign |-> IF n = 0 THEN 0 ELSE x.sign,
         data |-> IF x.data = <<>> THEN <<>> ELSE SubSeq(x.data, 1, IF n = 0 THEN 1 ELSE n)]

RECURSIVE WordsOf(_)
WordsOf(n) == IF n = 0 THEN <<>> ELSE <<n % WordValues>> \o WordsOf(n \div WordValues)
Sign(n) == IF n > 0 THEN 1 ELSE IF n < 0 THEN -1 ELSE 0
Magnitude(n) == IF n < 0 THEN -n ELSE n
\* TBigInteger(Int64), for a number of any size.
Of(n) == InitFromArray(WordsOf(Magnitude(n)), Sign(n))
One == Of(1)
Abs(x) == InitFromArray(x.data, 1)
Negated(x) == [x EXCEPT !.sign = -x.sign]

RECURSIVE AddFrom(_, _, _, _), SubtractFrom(_, _, _, _), MultiplyWord(_, _, _, _, _), MultiplyFrom(_, _, _, _)
AddFrom(X, Y, i, overflow) ==
    IF i > Longest(X, Y) THEN <<overflow>>
    ELSE LET sum == overflow + WordAt(X, i) + WordAt(Y, i)
         IN  <<sum % WordValues>> \o AddFrom(X, Y, i + 1, sum \div WordValues)
Add(X, Y) == IF Longest(X, Y) = 0 THEN <<>> ELSE AddFrom(X, Y, 1, 0)

SubtractFrom(X, Y, i, carry) ==
    IF i > Longest(X, Y) THEN <<>>
    ELSE LET difference == WordAt(X, i) - WordAt(Y, i) - carry
         IN  <<difference % WordValues>>
             \o SubtractFrom(X, Y, i + 1, IF difference >= 0 THEN 0 ELSE 1)
Subtract(X, Y) == SubtractFrom(X, Y, 1, 0)

\* One word of X times Y, added to the words of the output from the k-th on.
MultiplyWord(x, Y, j, carry, output) ==
    IF j > Len(Y) THEN <<carry>> \o SubSeq(output, 2, Len(output))
    ELSE LET product == x * Y[j] + output[1] + carry
         IN  <<product % WordValues>> \o MultiplyWord(x, Y, j + 1, product \div WordValues, Tail(output))
MultiplyFrom(X, Y, i, output) ==
    IF i > Len(X) THEN output
    ELSE MultiplyFrom(X, Y, i + 1,
            IF X[i] = 0 THEN output
            ELSE SubSeq(output, 1, i - 1) \o MultiplyWord(X[i], Y, 1, 0, SubSeq(output, i, Len(output))))
Multiply(X, Y) ==
    IF X = <<>> \/ Y = <<>> THEN <<>> ELSE MultiplyFrom(X, Y, 1, [i \in 1 .. Len(X) + Len(Y) + 1 |-> 0])

\* Both shifts move whole words and then bits within pairs of words.
ShiftLeft(buffer, bits) ==
    LET zeros == bits \div UInt32Bits
        quick == 2 ^ (bits % UInt32Bits)
        extra == IF buffer[Len(buffer)] * quick >= WordValues THEN 1 ELSE 0
    IN  IF buffer = <<>> THEN <<>>
        ELSE [k \in 1 .. Len(buffer) + zeros + extra |->
                ((WordAt(buffer, k - zeros) * quick) % WordValues) + ((WordAt(buffer, k - 1 - zeros) * quick) \div WordValues)]
ShiftRight(buffer, bits) ==
    LET shrinkage == bits \div UInt32Bits
        quick == 2 ^ (bits % UInt32Bits)
        extra == IF buffer[Len(buffer)] \div quick = 0 THEN 1 ELSE 0
    IN  IF buffer = <<>> THEN <<>>
        ELSE [k \in 1 .. Len(buffer) - shrinkage - extra |->
                (buffer[k + shrinkage] \div quick)
                + ((WordAt(buffer, k + shrinkage + 1) * (WordValues \div quick)) % WordValues)]

-----------------------------------------------------------------------------
(* Comparison: by sign, by the number of words, by the words from the top. *)

Equals(a, b) == a = b
\* `op` is what the caller answers if a is below b.
LogicalCompare(a, b, op) ==
    LET below == IF a.sign < 0 THEN ~op ELSE op
        differ == {i \in DOMAIN a.data : a.data[i] # b.data[i]}
        top == CHOOSE i \in differ : \A j \in differ : j <= i
    IN  CASE a.sign < b.sign -> op
          [] a.sign > b.sign -> ~op
          [] a.sign = b.sign /\ Len(a.data) < Len(b.data) -> below
          [] a.sign = b.sign /\ Len(a.data) > Len(b.data) -> ~below
          [] OTHER -> IF differ = {} THEN FALSE ELSE IF a.data[top] < b.data[top] THEN below ELSE ~below
Less(a, b)    == LogicalCompare(a, b, TRUE)
Greater(a, b) == LogicalCompare(a, b, FALSE)
CompareTo(a, b) == IF Equals(a, b) THEN 0 ELSE IF Less(a, b) THEN -1 ELSE 1
IsZero(x) == x.sign = 0

-----------------------------------------------------------------------------
(* Sums, differences, products.                                            *)

WithSign(x, sign) == [x EXCEPT !.sign = IF x = Zero THEN 0 ELSE sign]
Difference(X, Y, sign) == WithSign(InitFromArray(Subtract(X, Y), 1), sign)
Plus(a, b) ==
    Trim(CASE a.sign < 0 /\ b.sign < 0 -> [sign |-> -1, data |-> Add(a.data, b.data)]
           [] a.sign < 0 /\ b.sign >= 0 ->
                IF Less(Abs(a), b) THEN Difference(b.data, a.data, 1) ELSE Difference(a.data, b.data, -1)
           [] a.sign >= 0 /\ b.sign < 0 ->
                IF Less(a, Abs(b)) THEN Difference(b.data, a.data, -1) ELSE Difference(a.data, b.data, 1)
           [] OTHER -> WithSign(InitFromArray(Add(b.data, a.data), 1), 1))
Minus(a, b) ==
    CASE a.sign < 0 /\ b.sign < 0 ->
           IF Less(Abs(a), Abs(b)) THEN Difference(b.data, a.data, 1) ELSE Difference(a.data, b.data, -1)
      [] a.sign < 0 /\ b.sign >= 0 -> WithSign(InitFromArray(Add(a.data, b.data), 1), -1)
      [] a.sign >= 0 /\ b.sign < 0 -> WithSign(InitFromArray(Add(a.data, b.data), 1), 1)
      [] OTHER -> IF Less(a, b) THEN Difference(b.data, a.data, -1) ELSE Difference(a.data, b.data, 1)
Times(a, b) == Trim([sign |-> a.sign * b.sign, data |-> Multiply(a.data, b.data)])

-----------------------------------------------------------------------------
(* Division: by one word, and by more (Knuth's algorithm D).               *)

RECURSIVE DivideWords(_, _, _, _)
\* The digits of the quotient from the i-th word down, the highest first.
DivideWords(data, word, i, rem) ==
    IF i = 0 THEN [digits |-> <<>>, rem |-> rem]
    ELSE LET part == rem * WordValues + data[i]
             rest == DivideWords(data, word, i - 1, part % word)
         IN  [rest EXCEPT !.digits = <<part \div word>> \o @]
\* The highest word has a digit only if it is not below the divisor: the
\* quotient of one word by a higher one has none at all, and its buffer is empty.
FirstUsed(all) ==
    [quot |-> Trim([sign |-> 1, data |-> Reverse(IF all.digits[1] = 0 THEN Tail(all.digits) ELSE all.digits)]),
     rem |-> Trim([sign |-> 1, data |-> <<all.rem>>])]
SingleDigitDivMod(a, b) ==
    FirstUsed(DivideWords(a.data, b.data[1], Len(a.data), 0))

RECURSIVE Estimate(_, _, _, _, _), Corrected(_, _, _, _), DivideFrom(_, _, _, _, _)
\* The guess at a digit from two words of each side, lowered at most twice.
Estimate(quot, rem, high, second, next) ==
    IF quot = WordValues \/ quot * second > rem * WordValues + next
    THEN IF rem + high < WordValues THEN Estimate(quot - 1, rem + high, high, second, next) ELSE quot - 1
    ELSE quot
\* Mutant: the guess is taken as it is.
Uncorrected(quot, product, part, den) == [quot |-> quot, rem |-> Minus(part, product)]
Corrected(quot, product, part, den) ==
    IF Greater(product, part) THEN Corrected(quot - 1, Minus(product, den), part, den)
    ELSE [quot |-> quot, rem |-> Minus(part, product)]
\* The j-th digit of the quotient: the guess, corrected, and the words of the
\* remainder it leaves in place of those it was made from.
StepAt(words, den, at, size, pair) ==
    LET quot == Estimate(pair \div den.data[size], pair % den.data[size], den.data[size], den.data[size - 1], words[at - 2])
    IN  Corrected(quot, Times(den, Of(quot)), InitFromArray(SubSeq(words, at - size, at), 1), den)
AfterStep(words, den, at, j, digits, step) ==
    DivideFrom([i \in DOMAIN words |-> IF i \in at - Len(den.data) .. at
                                       THEN WordAt(step.rem.data, i - (at - Len(den.data)) + 1) ELSE words[i]],
               den, at - 1, j - 1, <<step.quot>> \o digits)
DivideFrom(words, den, at, j, digits) ==
    IF j = 0 THEN [digits |-> digits, words |-> words]
    ELSE AfterStep(words, den, at, j, digits,
                   StepAt(words, den, at, Len(den.data), words[at] * WordValues + words[at - 1]))

ShiftToTop(word) == CHOOSE n \in 0 .. UInt32Bits - 1 : word * 2 ^ n \in WordValues \div 2 .. WordValues - 1
ShiftedBack(done, shift) ==
    [quot |-> InitFromArray(done.digits, 1), rem |-> InitFromArray(ShiftRight(done.words, shift), 1)]
ShiftedUp(words, den, size, shift) ==
    ShiftedBack(DivideFrom(ShiftLeft(words, shift), den, size + 1, size - Len(den.data) + 1, <<>>), shift)
MultiDigitDivMod(a, b) ==
    LET shift == ShiftToTop(b.data[Len(b.data)])
    IN  ShiftedUp(Append(a.data, 0), [b EXCEPT !.data = ShiftLeft(b.data, shift)], Len(a.data), shift)

\* The remainder of a negative number is added to the divisor, zero as well.
WithSigns(a, b, quot, rem) ==
    [quot |-> [quot EXCEPT !.sign = IF Used(quot.data) = 0 THEN 0 ELSE a.sign * b.sign],
     rem  |-> [rem EXCEPT !.sign = IF Used(rem.data) = 0 THEN 0 ELSE rem.sign]]
AddedBack(a, b, both) ==
    WithSigns(a, b, both.quot,
        IF a.sign >= 0 THEN [both.rem EXCEPT !.sign = a.sign] ELSE Plus(b, [both.rem EXCEPT !.sign = a.sign]))
DivideAndModulus(a, b) ==
    CASE b.sign = 0 -> [quot |-> Refused, rem |-> Refused]
      [] b.sign # 0 /\ Len(a.data) < Len(b.data) -> [quot |-> Zero, rem |-> a]
      [] OTHER -> AddedBack(a, b, IF Len(b.data) = 1 THEN SingleDigitDivMod(a, b) ELSE MultiDigitDivMod(a, b))

QuotientSigned(quot, sign) == IF quot = Refused THEN quot ELSE [quot EXCEPT !.sign = IF @ = 0 THEN 0 ELSE sign]
DividedBy(a, b) == QuotientSigned(DivideAndModulus(Abs(a), Abs(b)).quot, a.sign * b.sign)
RemainderSigned(rem, sign) == IF rem = Refused THEN rem ELSE [rem EXCEPT !.sign = IF Used(rem.data) = 0 THEN 0 ELSE sign]
Modulo(a, b) == RemainderSigned(DivideAndModulus(Abs(a), Abs(b)).rem, a.sign)
DivideAndRoundToClosest(a, b) == DividedBy(Plus(a, DividedBy(b, Of(2))), b)

-----------------------------------------------------------------------------
(* Shifts of numbers: a negative one is shifted as the floor.              *)

ShiftedLeft(x, bits) == [x EXCEPT !.data = ShiftLeft(x.data, bits)]
ShiftedRight(x, bits) ==
    LET adjusted == Plus(Abs(x), Minus(ShiftedLeft(One, bits), One))
        shifted  == Trim([x EXCEPT !.data = ShiftRight(IF x.sign < 0 THEN adjusted.data ELSE x.data, bits)])
    IN  IF shifted.data = <<>> THEN Zero ELSE shifted
Shift(x, bits) == CASE x.data = <<>> -> x
                    [] x.data # <<>> /\ bits < 0 -> ShiftedRight(x, -bits)
                    [] OTHER -> ShiftedLeft(x, bits)

-----------------------------------------------------------------------------
(* Bytes: two's complement, the lowest first, with its guards; and bits.   *)

RECURSIVE BitsIn(_)
BitsIn(word) == IF word = 0 THEN 0 ELSE 1 + BitsIn(word \div 2)
GetBitLength(x) == IF Used(x.data) = 0 THEN 0 ELSE (Len(x.data) - 1) * UInt32Bits + BitsIn(x.data[Len(x.data)])

ToUnsignedByteArray(x) ==
    [i \in 1 .. (GetBitLength(x) + ByteBits - 1) \div ByteBits |->
        (x.data[(i - 1) \div WordBytes + 1] \div ByteValues ^ ((i - 1) % WordBytes)) % ByteValues]

RECURSIVE Increment(_)
\* One more, with its carry beyond the end.
Increment(bytes) ==
    IF bytes = <<>> THEN <<1>>
    ELSE IF Head(bytes) = ByteValues - 1 THEN <<0>> \o Increment(Tail(bytes))
    ELSE <<Head(bytes) + 1>> \o Tail(bytes)
Complement(bytes) == [i \in DOMAIN bytes |-> ByteValues - 1 - bytes[i]]
IsHigh(byte) == byte >= ByteValues \div 2
Last0(bytes) == bytes[Len(bytes)]
Guarded(bytes, guard, needed) == IF needed THEN Append(bytes, guard) ELSE bytes

PositiveBytes(bytes) == Guarded(bytes, 0, Last0(bytes) # 0)
NegativeBytes(signed) ==
    IF Len(signed) = 1 THEN signed \o <<ByteValues - 1, ByteValues - 1>>
    ELSE Guarded(signed, ByteValues - 1, Last0(signed) = ByteValues - 1)
Signed(bytes) == Guarded(bytes, ByteValues - 1, ~IsHigh(Last0(bytes)))
ToSignedByteArray(x) ==
    CASE x.sign = 0 -> <<0>>
      [] x.sign > 0 -> PositiveBytes(ToUnsignedByteArray(x))
      [] x.sign < 0 -> NegativeBytes(Signed(Increment(Complement(ToUnsignedByteArray(x)))))

\* A magnitude of bytes, in words.
FromUnsignedArray(bytes, sign) ==
    InitFromArray([i \in 1 .. (Len(bytes) + WordBytes - 1) \div WordBytes |->
                      WordAt(bytes, 2 * i - 1) + ByteValues * WordAt(bytes, 2 * i)], sign)
ApplyTwosComplement(bytes) == ToSignedByteArray(Plus(FromUnsignedArray(Complement(bytes), 1), One))
FromSignedArray(bytes) ==
    CASE bytes = <<>> -> Zero
      [] bytes # <<>> /\ IsHigh(Last0(bytes)) -> FromUnsignedArray(ApplyTwosComplement(bytes), -1)
      [] OTHER -> FromUnsignedArray(bytes, 1)

\* PrepareBitwiseOperands: both with the sign of the shorter one repeated.
ByteOf(bytes, i) ==
    IF i \in DOMAIN bytes THEN bytes[i] ELSE IF IsHigh(Last0(bytes)) THEN ByteValues - 1 ELSE 0
Bit(byte, k) == (byte \div 2 ^ k) % 2
\* The three operators: of two bits, by how many of them are set.
BitOf(op, count) == CASE op = "and" -> count \div 2 [] op = "xor" -> count % 2 [] op = "or" -> (count + 1) \div 2
BytesOp(op, a, b) ==
    [i \in 1 .. Longest(a, b) |->
        BitOf(op, Bit(ByteOf(a, i), 0) + Bit(ByteOf(b, i), 0)) + 2 * BitOf(op, Bit(ByteOf(a, i), 1) + Bit(ByteOf(b, i), 1))]
Bitwise(op, a, b) == FromSignedArray(BytesOp(op, ToSignedByteArray(a), ToSignedByteArray(b)))
BitwiseNot(x) == Negated(Plus(x, One))
TestBit(x, index) == Greater(Bitwise("and", x, ShiftedLeft(One, index)), Zero)
FlipBit(x, index) == Bitwise("xor", x, ShiftedLeft(One, index))
GetLowestSetBit(x) ==
    LET bytes == ToSignedByteArray(x)
        set   == {n \in 0 .. Len(bytes) * ByteBits - 1 : Bit(bytes[n \div ByteBits + 1], n % ByteBits) = 1}
    IN  IF x.sign = 0 THEN -1 ELSE CHOOSE n \in set : \A m \in set : n <= m

-----------------------------------------------------------------------------
(* Narrowing, powers, inverses, roots.                                     *)

Int32Max == WordValues \div 2 - 1
Int64Values == WordValues ^ 2
\* operator int: <<the number>> if an Int32 holds it.
ToInt32(x) ==
    CASE x.sign = 0 -> <<0>>
      [] x.sign > 0 -> IF Greater(x, Of(Int32Max)) THEN <<>> ELSE <<x.data[1]>>
      [] x.sign < 0 -> IF Greater(Abs(x), Of(Int32Max + 1)) THEN <<>> ELSE <<-x.data[1]>>
\* operator Int64 takes the two lowest words whatever is above them.
Wrapped(n) == ((n + Int64Values \div 2) % Int64Values) - Int64Values \div 2
ToInt64(x) == Wrapped((IF x.sign < 0 THEN -1 ELSE 1) * (WordAt(x.data, 1) + WordValues * WordAt(x.data, 2)))

RECURSIVE PowFrom(_, _)
PowFrom(x, exponent) == IF exponent = 0 THEN One ELSE Times(PowFrom(x, exponent - 1), x)
Pow(x, exponent) ==
    IF ToInt32(exponent) = <<>> \/ exponent.sign < 0 THEN Refused ELSE PowFrom(x, ToInt32(exponent)[1])

RECURSIVE Euclid(_, _, _)
\* Two rows of coefficients, of quotients and of remainders.
NextCoefficient(e, modulus) ==
    Modulo(Minus(e.coefficients[1], Times(e.coefficients[2], e.quotients[1])), modulus)
EuclidStep(e, x, modulus, both) ==
    Euclid([of |-> x, steps |-> e.steps + 1,
            coefficients |-> IF e.steps > 1 THEN <<e.coefficients[2], NextCoefficient(e, modulus)>> ELSE e.coefficients,
            quotients |-> <<e.quotients[2], both.quot>>, remainders |-> <<e.remainders[2], both.rem>>],
           both.rem, modulus)
Euclid(e, x, modulus) ==
    IF x.data = <<>> \/ x.data = <<0>> THEN e ELSE EuclidStep(e, x, modulus, DivideAndModulus(e.of, x))
InRange(x, modulus) == IF x.sign < 0 THEN Plus(x, modulus) ELSE x
\* The remainder before the last is the divisor common to both; of a number that
\* leaves one by the modulus there is none before the last, and it is refused.
InverseFrom(e, modulus) ==
    IF e.remainders[1].data # <<1>> THEN Refused ELSE InRange(NextCoefficient(e, modulus), modulus)
ModInverse(x, modulus) ==
    InverseFrom(Euclid([of |-> modulus, steps |-> 0, coefficients |-> <<Zero, One>>, quotients |-> <<Zero, Zero>>,
                        remainders |-> <<Zero, Zero>>], InRange(Modulo(x, modulus), modulus), modulus), modulus)

RECURSIVE ModPowFrom(_, _, _, _)
ModPowFrom(s, t, exponent, modulus) ==
    IF exponent = Zero THEN s
    ELSE ModPowFrom(IF Bitwise("and", exponent, One) = One THEN Modulo(Times(s, t), modulus) ELSE s,
                    Modulo(Times(t, t), modulus), ShiftedRight(exponent, 1), modulus)
ModPowOf(base, exponent, modulus) ==
    CASE modulus.sign <= 0 \/ base = Refused -> Refused
      [] modulus.sign > 0 /\ base # Refused /\ exponent = One -> Modulo(base, modulus)
      [] OTHER -> ModPowFrom(One, base, exponent, modulus)
ModPow(x, exponent, modulus) ==
    ModPowOf(IF exponent.sign < 0 /\ modulus.sign > 0 THEN ModInverse(x, modulus) ELSE x, Abs(exponent), modulus)

RECURSIVE SqrtFrom(_, _, _)
\* Bit by bit from the one at `at`: kept if the square is not above x.
SqrtFrom(x, root, at) ==
    LET with == [root EXCEPT ![at \div UInt32Bits + 1] = @ + 2 ^ (at % UInt32Bits)]
        number == InitFromArray(with, 1)
    IN  IF at < 0 THEN InitFromArray(root, 1)
        ELSE SqrtFrom(x, IF Greater(Times(number, number), x) THEN root ELSE with, at - 1)
Sqrt(x) ==
    LET half == (GetBitLength(x) + 1) \div 2
        start == IF half % UInt32Bits = 0 THEN half - 1 ELSE half
    IN  CASE x.sign < 0 -> Refused
          [] x.sign = 0 -> Zero
          [] x.sign > 0 -> SqrtFrom(x, [i \in 1 .. (half + UInt32Bits - 1) \div UInt32Bits |-> 0], start)

-----------------------------------------------------------------------------
(* Texts: digits, and the marks a text may have.                           *)

Hyphen == -1
PlusMark == -2
NewLine == -3
Point == -4
Comma == -5
Other == 99

FirstNot(text, mark) == SelectInSeq(text, LAMBDA c : c # mark)
\* Without the line ends before and after it.
Stripped(text) ==
    LET inner == IF FirstNot(text, NewLine) = 0 THEN <<>> ELSE SubSeq(text, FirstNot(text, NewLine), Len(text))
    IN  SubSeq(inner, 1, SelectLastInSeq(inner, LAMBDA c : c # NewLine))

RECURSIVE ParseFrom(_, _, _, _)
ParseFrom(digits, radix, unit, sum) ==
    IF digits = <<>> THEN sum
    ELSE ParseFrom(Front(digits), radix, Times(unit, Of(radix)), Plus(sum, Times(unit, Of(Last(digits)))))
Parse(text, radix) ==
    LET line == Stripped(text)
        marked == line # <<>> /\ line[1] \in {Hyphen, PlusMark}
        digits == IF marked THEN Tail(line) ELSE line
    IN  CASE text = <<>> \/ text = <<0>> -> Zero
          [] marked /\ digits = <<>> -> Refused
          [] \E i \in DOMAIN digits : digits[i] \notin 0 .. radix - 1 -> Refused
          [] OTHER -> InitFromArray(ParseFrom(digits, radix, One, Zero).data, IF marked /\ line[1] = Hyphen THEN -1 ELSE 1)

RECURSIVE DecimalDigits(_)
DigitBelow(both) == Append(DecimalDigits(both.quot), both.rem.data[1])
DecimalDigits(x) == IF Used(x.data) = 0 THEN <<>> ELSE DigitBelow(DivideAndModulus(x, Of(10)))
ToDecimal(x) ==
    IF Used(x.data) = 0 THEN <<0>>
    ELSE (IF x.sign < 1 THEN <<Hyphen>> ELSE <<>>) \o DecimalDigits([x EXCEPT !.sign = 1])

\* DecimalConversion of a number: its quotient by 10^decimals, and after the
\* point the remainder without the zeros at its end.
PartsOf(x, decimals) ==
    IF decimals = 0 THEN [quot |-> x, rem |-> Zero] ELSE DivideAndModulus(x, Pow(Of(10), Of(decimals)))
Fraction(text, decimals) ==
    [i \in 1 .. (IF Len(text) < decimals THEN decimals - Len(text) ELSE 0) |-> 0]
    \o SubSeq(text, 1, SelectLastInSeq(text, LAMBDA c : c # 0))
TextOfParts(quot, rem, decimals, pointed) == quot \o IF pointed THEN <<Point>> \o Fraction(rem, decimals) ELSE <<>>
TextOf(parts, decimals, always) ==
    TextOfParts(ToDecimal(parts.quot), ToDecimal(parts.rem), decimals, always \/ parts.rem # Zero)
DecimalText(x, decimals, always) == TextOf(PartsOf(x, decimals), decimals, always)

\* DecimalConversion of a text: the fraction is cut to the decimals there are,
\* or the number scaled up. The separator passes the first look and not Parse.
Points(text) == Len(SelectSeq(text, LAMBDA c : c = Point))
Scaled(parsed, scale) ==
    IF parsed = Refused \/ scale = 0 THEN parsed ELSE Times(parsed, Pow(Of(10), Of(scale)))
WithoutPoint(text, point, decimals, after) ==
    IF point = 0 THEN text
    ELSE SubSeq(text, 1, point - 1) \o SubSeq(text, point + 1, Len(text) - (IF after > decimals THEN after - decimals ELSE 0))
DecimalValue(text, decimals, separator) ==
    LET point == SelectInSeq(text, LAMBDA c : c = Point)
        after == Len(SelectSeq(SubSeq(text, point + 1, Len(text)), LAMBDA c : c \in 0 .. 9))
    IN  IF \/ Points(text) > 1
           \/ \E i \in DOMAIN text : text[i] \notin 0 .. 9 \cup {Point, separator, NewLine, Hyphen}
        THEN Refused
        ELSE Scaled(Parse(WithoutPoint(text, point, decimals, after), 10),
                    IF point = 0 THEN decimals ELSE IF after > decimals THEN 0 ELSE decimals - after)

-----------------------------------------------------------------------------
(* What they compute, on numbers as every operation but two leaves them:   *)
(* no zero words on top, and zero with a sign of 0 and one word. A left    *)
(* shift of zero by words keeps them all, and the quotient of one word by  *)
(* a higher one has none: both equal no other zero, and the second is      *)
(* below it.                                                               *)

ValueOf(x) == x.sign * FoldRight(LAMBDA word, n : word + WordValues * n, x.data, 0)
Is(x, n) == x = Of(n)
Has(x, n) == x # Refused /\ ValueOf(x) = n
Quotient(m, n)  == Sign(m) * Sign(n) * (Magnitude(m) \div Magnitude(n))
Remainder(m, n) == m - Quotient(m, n) * n
\* The quotient and the remainder of DivideAndModulus by a positive number: that
\* of a negative number is the one it documents with the divisor added.
IsDivided(both, m, n) ==
    /\ Has(both.quot, Quotient(m, n))
    /\ Is(both.rem, IF m < 0 /\ Len(WordsOf(-m)) >= Len(WordsOf(Magnitude(n))) THEN Remainder(m, n) + n ELSE Remainder(m, n))

QuotientIs(x, n) == IF x.data = <<>> THEN n = 0 /\ x.sign = 0 ELSE Is(x, n)
DivisionIsExact(quot, rem, both, rounded, m, n) ==
    IF n = 0 THEN quot = Refused /\ rem = Refused /\ both.quot = Refused
    ELSE /\ QuotientIs(quot, Quotient(m, n)) /\ Is(rem, Remainder(m, n))
         /\ n > 0 => IsDivided(both, m, n)
         /\ QuotientIs(rounded, Quotient(m + Quotient(n, 2), n))
PairIsExact(a, b, m, n) ==
    /\ Is(Plus(a, b), m + n) /\ Is(Minus(a, b), m - n) /\ Is(Times(a, b), m * n)
    /\ CompareTo(a, b) = Sign(m - n) /\ (Less(a, b) <=> m < n) /\ (Greater(a, b) <=> m > n)
    /\ DivisionIsExact(DividedBy(a, b), Modulo(a, b), DivideAndModulus(a, b), DivideAndRoundToClosest(a, b), m, n)
\* Bits of a number of any sign, in two's complement, and its bytes.
BitOfNumber(n, k) == (n \div 2 ^ k) % 2
BitwiseIsExact(a, b, m, n) ==
    \A op \in {"and", "or", "xor"} : LET result == Bitwise(op, a, b) IN
        /\ result = Of(ValueOf(result))
        /\ \A k \in 0 .. 15 : BitOfNumber(ValueOf(result), k) = BitOf(op, BitOfNumber(m, k) + BitOfNumber(n, k))

BytesAreExact(x, n, signed, unsigned) ==
    /\ FromSignedArray(signed) = x /\ FromUnsignedArray(unsigned, x.sign) = x
    /\ IsHigh(Last0(signed)) <=> n < 0
    /\ n > 0 => Last0(signed) = 0 /\ Len(signed) = Len(unsigned) + 1
    /\ GetBitLength(x) = CHOOSE k \in 0 .. 16 : 2 ^ k > Magnitude(n) /\ \A j \in 0 .. k - 1 : 2 ^ j <= Magnitude(n)
    /\ GetLowestSetBit(x) = IF n = 0 THEN -1 ELSE CHOOSE k \in 0 .. 16 : BitOfNumber(n, k) = 1 /\ \A j \in 0 .. k - 1 : BitOfNumber(n, j) = 0
    /\ \A k \in 0 .. 9 : /\ TestBit(x, k) <=> BitOfNumber(n, k) = 1
                         /\ Is(FlipBit(x, k), IF BitOfNumber(n, k) = 1 THEN n - 2 ^ k ELSE n + 2 ^ k)
\* A number from any bytes is the one they are in two's complement.
FromBytesIsExact(bytes, x) ==
    LET plain == FoldRight(LAMBDA byte, n : byte + ByteValues * n, bytes, 0)
    IN  x = Of(IF bytes # <<>> /\ IsHigh(Last0(bytes)) THEN plain - ByteValues ^ Len(bytes) ELSE plain)

SingleIsExact(x, n) ==
    /\ Is(BitwiseNot(x), -n - 1)
    /\ ToInt32(x) = IF n \in -Int32Max - 1 .. Int32Max THEN <<n>> ELSE <<>>
    /\ n \in -(Int64Values \div 2) .. Int64Values \div 2 - 1 => ToInt64(x) = n
    /\ IF n < 0 THEN Sqrt(x) = Refused
       ELSE LET root == ValueOf(Sqrt(x)) IN Is(Sqrt(x), root) /\ root * root <= n /\ (root + 1) * (root + 1) > n
    /\ \A bits \in -9 .. 9 :
         IF bits < 0 THEN Is(Shift(x, bits), n \div 2 ^ (-bits))
         ELSE Has(Shift(x, bits), n * 2 ^ bits) /\ (n # 0 => Is(Shift(x, bits), n * 2 ^ bits))
    /\ Parse(ToDecimal(x), 10) = x

\* An exponent beyond an Int32 and a negative one are refused; an inverse is one,
\* and is refused where there is none, and for a number that leaves one.
CongruentPower(n, e, m) == FoldLeft(LAMBDA power, i : (power * n) % m, 1, [i \in 1 .. e |-> i])
PowerIsExact(power, n, e) == IF e \in 0 .. 3 THEN Is(power, IF e = 0 THEN 1 ELSE n ^ e) ELSE e < 0 \/ e > Int32Max => power = Refused
ModPowIsExact(power, n, e, m) ==
    /\ m <= 0 => power = Refused
    /\ e >= 0 /\ m > 1 =>
         /\ Is(power, ValueOf(power)) /\ ValueOf(power) % m = CongruentPower(n % m, e, m)
         /\ ValueOf(power) \in (IF n < 0 THEN 1 - m ELSE 0) .. m - 1
    /\ m > 1 /\ e < 0 /\ power # Refused => (ValueOf(power) * CongruentPower(n % m, -e, m)) % m = 1
InverseIsExact(inverse, n, m) ==
    IF n % m # 1 /\ \E k \in 1 .. m - 1 : (n * k) % m = 1
    THEN ValueOf(inverse) \in 1 .. m - 1 /\ (n * ValueOf(inverse)) % m = 1
    ELSE inverse = Refused
PowersAreExact(x, n, e, m) ==
    /\ PowerIsExact(Pow(x, Of(e)), n, e)
    /\ ModPowIsExact(ModPow(x, Of(e), Of(m)), n, e, m)
    /\ m > 1 => InverseIsExact(ModInverse(x, Of(m)), n, m)

\* A number is written with its decimals and read with as many, or cut to fewer.
DecimalsAreExact(text, n, decimals, always) ==
    /\ Points(text) = 1 <=> always \/ n % (10 ^ decimals) # 0
    /\ \A read \in {decimals, decimals + 1} \cup (IF decimals = 0 THEN {} ELSE {decimals - 1}) :
         Has(DecimalValue(text, read, Comma),
             CASE read = decimals -> n [] read > decimals -> n * 10 [] read < decimals -> n \div 10)

\* A text is read for what it says, or refused: a sign alone, two points, a mark
\* inside; a separator is refused as well, whatever the caller tolerates.
TextIsRead(text, radix, parsed) ==
    LET line == Stripped(text)
        unsigned == IF line # <<>> /\ line[1] \in {Hyphen, PlusMark} THEN Tail(line) ELSE line
        value == FoldLeft(LAMBDA n, d : n * radix + d, 0, unsigned)
    IN  IF (\A i \in DOMAIN unsigned : unsigned[i] \in 0 .. radix - 1) /\ (unsigned # <<>> \/ line = <<>>)
        THEN Is(parsed, IF line # <<>> /\ line[1] = Hyphen THEN -value ELSE value)
        ELSE parsed = Refused
DecimalTextIsRead(text, decimals, value) ==
    LET point == SelectInSeq(text, LAMBDA c : c = Point)
        digits == SelectSeq(text, LAMBDA c : c # Point)
        after == IF point = 0 THEN 0 ELSE Len(text) - point
        whole == FoldLeft(LAMBDA n, d : n * 10 + d, 0, digits)
    IN  /\ Points(text) > 1 => value = Refused
        /\ (\A i \in DOMAIN digits : digits[i] \in 0 .. 9) /\ Points(text) <= 1
             => Is(value, IF after > decimals THEN whole \div 10 ^ (after - decimals) ELSE whole * 10 ^ (decimals - after))
        /\ after <= decimals /\ (\E i \in DOMAIN text : text[i] \in {Comma, PlusMark, Other}) => value = Refused

=============================================================================

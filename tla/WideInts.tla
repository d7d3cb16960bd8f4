------------------------------ MODULE WideInts ------------------------------
(***************************************************************************)
(* The 256-bit integers of src/include/Carbon (Int256.h, Int256Impl.h over *)
(* External/tiny-bignum-c/bn_impl.h), and intx, which holds an int64_t or  *)
(* one of them.                                                            *)
(*                                                                         *)
(* A number is an array of Size words, the lowest first, of four bits each *)
(* here; an int64_t has two of them, a byte half of one. An image is what  *)
(* Write puts on the wire: the fields of the header and the bytes. A       *)
(* failed CarbonAssert is Refused; text characters are digits, or one of   *)
(* the marks below.                                                        *)
(***************************************************************************)
EXTENDS Integers, Sequences, SequencesExt

Size       == 3                     \* BN_ARRAY_SIZE
WordValues == 16                    \* MAX_VAL + 1
Half       == WordValues \div 2
ByteValues == 4
WordBytes  == 2
Bytes      == Size * WordBytes      \* sizeof(uint256)
ShortBytes == 2 * WordBytes         \* sizeof(int64_t)
UInt64Max  == WordValues ^ 2 - 1
Int64Max   == UInt64Max \div 2
Int64Min   == -Int64Max - 1
Refused    == <<>>

Places == [k \in 1 .. Size |-> k]
Nil    == [k \in 1 .. Size |-> 0]   \* bignum_init
\* An array as the sequence of its words.
Array(f) == SubSeq(f, 1, Size)
Word(a, k) == IF k \in 1 .. Size THEN a[k] ELSE 0

-----------------------------------------------------------------------------
(* tiny-bignum-c.                                                          *)

FromInt(i) == Array([k \in 1 .. Size |-> IF k <= 2 THEN (i \div WordValues ^ (k - 1)) % WordValues ELSE 0])

\* Both go on to the next word while this one wraps.
Inc(a) == Array([k \in 1 .. Size |->
    IF \A j \in 1 .. k - 1 : a[j] = WordValues - 1 THEN (a[k] + 1) % WordValues ELSE a[k]])
Dec(a) == Array([k \in 1 .. Size |->
    IF \A j \in 1 .. k - 1 : a[j] = 0 THEN (a[k] - 1) % WordValues ELSE a[k]])

WithWord(s, sum) == [carry |-> sum \div WordValues, words |-> Append(s.words, sum % WordValues)]
Add(a, b) == FoldLeft(LAMBDA s, k : WithWord(s, a[k] + b[k] + s.carry), [carry |-> 0, words |-> <<>>], Places).words
\* Mutant: no borrow from the next word.
SubUnborrowed(a, b) == Array([k \in 1 .. Size |-> (a[k] - b[k]) % WordValues])
Sub(a, b) == FoldLeft(LAMBDA s, k : WithWord(s, a[k] - b[k] + s.carry), [carry |-> 0, words |-> <<>>], Places).words

LShiftWord(a, n) == Array([k \in 1 .. Size |-> Word(a, k - n)])
RShiftWord(a, n) == Array([k \in 1 .. Size |-> Word(a, k + n)])
LShiftBits(a, power) == Array([k \in 1 .. Size |-> ((a[k] * power) % WordValues) + ((Word(a, k - 1) * power) \div WordValues)])
RShiftBits(a, power) ==
    Array([k \in 1 .. Size |-> (a[k] \div power) + ((Word(a, k + 1) * (WordValues \div power)) % WordValues)])
LShift(a, nbits) == LShiftBits(LShiftWord(a, nbits \div 4), 2 ^ (nbits % 4))
RShift(a, nbits) == RShiftBits(RShiftWord(a, nbits \div 4), 2 ^ (nbits % 4))
Double(a) == LShiftBits(a, 2)
Halved(a) == RShiftBits(a, 2)

Row(a, b, i) ==
    FoldLeft(LAMBDA row, j : IF i + j - 1 <= Size THEN Add(LShiftWord(FromInt(a[i] * b[j]), i + j - 2), row) ELSE row,
             Nil, Places)
Mul(a, b) == FoldLeft(LAMBDA c, i : Add(c, Row(a, b, i)), Nil, Places)

\* SMALLER, EQUAL, LARGER.
Top(a, b) == SelectLastInSeq(Places, LAMBDA k : a[k] # b[k])
Cmp(a, b) == IF Top(a, b) = 0 THEN 0 ELSE IF a[Top(a, b)] > b[Top(a, b)] THEN 1 ELSE -1

Bit(word, k) == (word \div 2 ^ k) % 2
BitOf(op, count) == CASE op = "and" -> count \div 2 [] op = "xor" -> count % 2 [] op = "or" -> (count + 1) \div 2
WordOf(op, v, w) == FoldLeft(LAMBDA n, k : 2 * n + BitOf(op, Bit(v, k) + Bit(w, k)), 0, <<3, 2, 1, 0>>)
Bitwise(op, a, b) == Array([k \in 1 .. Size |-> WordOf(op, a[k], b[k])])
Not(a) == Array([k \in 1 .. Size |-> WordValues - 1 - a[k]])

\* The divisor and its power of two, doubled until it is above a or would lose
\* its highest bit; then back down, each taken away where it fits.
RECURSIVE Raised(_, _, _), Divided(_, _, _, _)
Raised(a, denom, current) ==
    IF Cmp(denom, a) = 1 THEN [denom |-> Halved(denom), current |-> Halved(current)]
    ELSE IF denom[Size] >= Half THEN [denom |-> denom, current |-> current]
    ELSE Raised(a, Double(denom), Double(current))
Divided(c, rest, denom, current) ==
    IF current = Nil THEN c
    ELSE IF Cmp(rest, denom) = -1 THEN Divided(c, rest, Halved(denom), Halved(current))
    ELSE Divided(Bitwise("or", c, current), Sub(rest, denom), Halved(denom), Halved(current))
DividedFrom(a, at) == Divided(Nil, a, at.denom, at.current)
\* By zero the doubling never ends.
Endless == <<>>
Div(a, b) == IF b = Nil THEN Endless ELSE DividedFrom(a, Raised(a, b, FromInt(1)))
Rest(a, b, quotient) == IF quotient = Endless THEN Endless ELSE Sub(a, Mul(quotient, b))
Mod(a, b) == Rest(a, b, Div(a, b))

MaxIterations == 7
RECURSIVE PowFrom(_, _, _), SqrtFrom(_, _, _, _)
PowFrom(a, product, left) == IF left = Nil THEN product ELSE PowFrom(a, Mul(product, a), Dec(left))
Pow(a, e) ==
    CASE e = Nil -> Inc(Nil)
      [] e # Nil /\ Cmp(e, FromInt(MaxIterations)) = 1 -> Refused
      [] OTHER -> PowFrom(a, a, Dec(e))

\* Bisection; the square of the middle is taken modulo the width.
Middle(low, high) == Inc(Add(low, Halved(Sub(high, low))))
SqrtFrom(a, low, high, mid) ==
    IF Cmp(high, low) # 1 THEN low
    ELSE IF Cmp(Mul(mid, mid), a) = 1 THEN SqrtFrom(a, low, Dec(mid), Middle(low, Dec(mid)))
    ELSE SqrtFrom(a, mid, high, Middle(mid, high))
Sqrt(a) == SqrtFrom(a, Nil, a, Inc(Halved(a)))

-----------------------------------------------------------------------------
(* uint256 and int256.                                                     *)

\* a *= b; a copy of a is kept, and b is the product's own words if it is a.
MulInPlace(a, b, aliased) == Mul(a, IF aliased THEN Nil ELSE b)

IsNegative(a) == a[Size] >= Half
TwosComplement(a) == Inc(Not(a))
Abs(a) == IF IsNegative(a) THEN TwosComplement(a) ELSE a
FromInt64(i) ==
    Array([k \in 1 .. Size |-> IF k <= 2 THEN (i \div WordValues ^ (k - 1)) % WordValues ELSE IF i < 0 THEN WordValues - 1 ELSE 0])

WithSign(a, negative) == IF a # Endless /\ negative THEN TwosComplement(a) ELSE a
SignedMul(a, b) == WithSign(Mul(Abs(a), Abs(b)), IsNegative(a) # IsNegative(b))
SignedDiv(a, b) == WithSign(Div(Abs(a), Abs(b)), IsNegative(a) # IsNegative(b))
Compare(a, b) ==
    CASE IsNegative(a) /\ ~IsNegative(b) -> -1
      [] ~IsNegative(a) /\ IsNegative(b) -> 1
      [] IsNegative(a) /\ IsNegative(b) -> -Cmp(TwosComplement(a), TwosComplement(b))
      [] OTHER -> Cmp(a, b)

\* The first eight bytes, unsigned and signed.
Low(a) == a[1] + WordValues * a[2]
AsInt64(low) == IF low > Int64Max THEN low - UInt64Max - 1 ELSE low
ToUInt64(a) == IF Cmp(a, FromInt(UInt64Max)) >= 0 THEN UInt64Max ELSE Low(a)
\* What is below INT64_MIN is first set to it, and then copied all the same.
ToInt64(a) == IF Compare(a, FromInt64(Int64Max)) >= 0 THEN Int64Max ELSE AsInt64(Low(a))

HighWordsAre(a, word) == \A k \in 3 .. Size : a[k] = word
Is8ByteSafe(a) == HighWordsAre(a, 0) /\ AsInt64(Low(a)) >= 0
SignedIs8ByteSafe(a) ==
    /\ HighWordsAre(a, IF IsNegative(a) THEN WordValues - 1 ELSE 0)
    /\ AsInt64(Low(a)) < 0 <=> IsNegative(a)

-----------------------------------------------------------------------------
(* Bytes and the wire.                                                     *)

HighBit(byte) == byte >= ByteValues \div 2
Fill(negative) == IF negative THEN ByteValues - 1 ELSE 0
BytesOf(a) == [i \in 1 .. Bytes |-> (a[(i + 1) \div 2] \div ByteValues ^ ((i + 1) % 2)) % ByteValues]
ByteAt(bytes, fill, i) == IF i <= Len(bytes) THEN bytes[i] ELSE fill
Filled(bytes, fill) ==
    Array([k \in 1 .. Size |-> ByteAt(bytes, fill, 2 * k - 1) + ByteValues * ByteAt(bytes, fill, 2 * k)])

\* One byte more is a guard, which has to repeat the sign.
FromBytes(bytes, signed) ==
    LET negative == bytes # <<>> /\ signed /\ HighBit(bytes[IF Len(bytes) > Bytes THEN Bytes ELSE Len(bytes)])
    IN  IF Len(bytes) <= Bytes \/ (Len(bytes) = Bytes + 1 /\ bytes[Bytes + 1] = Fill(negative))
        THEN Filled(bytes, Fill(negative)) ELSE Refused

Image(negative, bytes) == [negative |-> negative, reserved |-> FALSE, length |-> Len(bytes), bytes |-> bytes]
\* The high bytes that only repeat the sign are left out; none of zero's are left.
Write256(a) ==
    Image(IsNegative(a), SubSeq(BytesOf(a), 1, SelectLastInSeq(BytesOf(a), LAMBDA byte : byte # Fill(IsNegative(a)))))
Read256(image) ==
    LET value == Filled(SubSeq(image.bytes, 1, image.length), Fill(image.negative))
    IN  IF /\ image.length <= Bytes /\ ~image.reserved
           /\ Len(image.bytes) >= image.length
           /\ IsNegative(value) <=> image.negative
        THEN value ELSE Refused

-----------------------------------------------------------------------------
(* intx.                                                                   *)

Small(i) == [isBig |-> FALSE, normal |-> i]
Big(a)   == [isBig |-> TRUE, big |-> a]
Held(big) == IF big = Refused THEN Refused ELSE Big(big)
MakeBig(x) == IF x.isBig THEN x.big ELSE IF x.normal < 0 THEN FromInt64(x.normal) ELSE FromInt(x.normal)
Sum(x, y)  == Big(Add(MakeBig(x), MakeBig(y)))
Less(x, y) == Big(Sub(MakeBig(x), MakeBig(y)))
Above(x, y) == Compare(MakeBig(x), MakeBig(y)) > 0
Equal(x, y) ==
    IF ~x.isBig /\ ~y.isBig THEN x.normal = y.normal ELSE Compare(MakeBig(x), MakeBig(y)) = 0
Int64Of(x)  == IF x.isBig THEN ToInt64(x.big) ELSE x.normal
UInt64Of(x) == IF x.isBig THEN ToUInt64(x.big) ELSE x.normal % (UInt64Max + 1)
IntXFromBytes(bytes, signed) ==
    IF Len(bytes) <= ShortBytes THEN Small(AsInt64(Low(Filled(bytes, Fill(bytes # <<>> /\ signed /\ HighBit(Last(bytes)))))))
    ELSE Held(FromBytes(bytes, signed))

ShortImage(i) == Image(i < 0, SubSeq(BytesOf(FromInt64(i)), 1, ShortBytes))
WriteIntX(x) ==
    CASE x.isBig /\ ~SignedIs8ByteSafe(x.big) -> Write256(x.big)
      [] x.isBig /\ SignedIs8ByteSafe(x.big) -> ShortImage(ToInt64(x.big))
      [] OTHER -> ShortImage(x.normal)

\* Eight bytes of the header's own sign are an int64_t; a longer form of a number
\* that fits in one is left to the reader's mode.
ReadBig(big, strict) == IF big # Refused /\ Is8ByteSafe(big) /\ strict THEN Refused ELSE Held(big)
ReadIntX(image, strict) ==
    CASE image.length < ShortBytes -> Refused
      [] image.length = ShortBytes /\ Len(image.bytes) >= ShortBytes /\ HighBit(image.bytes[ShortBytes]) = image.negative
           -> Small(AsInt64(Low(Filled(SubSeq(image.bytes, 1, ShortBytes), 0))))
      [] OTHER -> ReadBig(Read256(image), strict)

-----------------------------------------------------------------------------
(* Texts.                                                                  *)

Hyphen  == -1
PlusMark == -2
NewLine == -3
Other   == 99

RECURSIVE Digits(_, _)
Digits(a, base) ==
    IF Cmp(a, base) = -1 THEN <<a[1]>> ELSE Append(Digits(Div(a, base), base), Mod(a, base)[1])
Text(a, base) == Digits(a, FromInt(base))
SignedText(a, base) ==
    IF IsNegative(a) THEN <<Hyphen>> \o Text(TwosComplement(a), base) ELSE Text(a, base)

\* From the last character back, each unit ten times the one before whatever the
\* radix is; a character that is no digit ends it with what there is.
RECURSIVE Spelled(_, _, _, _)
Spelled(text, radix, unit, sum) ==
    CASE text = <<>> -> [of |-> sum, error |-> FALSE]
      [] text # <<>> /\ Last(text) \notin 0 .. radix - 1 -> [of |-> sum, error |-> TRUE]
      [] OTHER -> Spelled(Front(text), radix, Mul(unit, FromInt(10)), Add(sum, Mul(unit, FromInt(Last(text)))))
Line(text) == SubSeq(text, SelectInSeq(Append(text, 0), LAMBDA c : c # NewLine), SelectLastInSeq(text, LAMBDA c : c # NewLine))
SignedLine(line, radix) ==
    IF line = <<>> \/ line[1] # Hyphen THEN Spelled(line, radix, FromInt(1), Nil)
    ELSE LET read == Spelled(Tail(line), radix, FromInt(1), Nil)
         IN  IF read.error THEN read ELSE [read EXCEPT !.of = TwosComplement(@)]
FromString(text, radix) == SignedLine(Line(text), radix)

\* strtoll: line ends, a sign, the digits there are, and the limit if they are
\* too many.
Leading(text) == SubSeq(text, SelectInSeq(Append(text, 0), LAMBDA c : c # NewLine), Len(text))
Prefix(text, radix) == SubSeq(text, 1, SelectInSeq(Append(text, Other), LAMBDA c : c \notin 0 .. radix - 1) - 1)
Limited(n) == IF n > Int64Max THEN Int64Max ELSE IF n < Int64Min THEN Int64Min ELSE n
ValueOfDigits(digits, radix) == FoldLeft(LAMBDA n, d : n * radix + d, 0, digits)
SignedStrtoll(line, radix) ==
    IF line # <<>> /\ line[1] = Hyphen THEN Limited(-ValueOfDigits(Prefix(Tail(line), radix), radix))
    ELSE Limited(ValueOfDigits(Prefix(IF line # <<>> /\ line[1] = PlusMark THEN Tail(line) ELSE line, radix), radix))
Strtoll(text, radix) == SignedStrtoll(Leading(text), radix)

ShortText == 4                      \* 20: no text below it is out of an int64_t's range but by a digit
\* The length is the caller's; strtoll reads the text to its own end.
IntXFromString(text, length, radix) ==
    IF length < ShortText /\ radix <= 10 /\ Strtoll(text, radix) \notin {Int64Min, Int64Max}
    THEN [of |-> Small(Strtoll(text, radix)), error |-> FALSE]
    ELSE LET read == FromString(SubSeq(text, 1, length), radix) IN [of |-> Big(read.of), error |-> read.error]

-----------------------------------------------------------------------------
(* What they compute, modulo the width, but for the answers that follow.   *)

Modulus == WordValues ^ Size
Number(a) == FoldRight(LAMBDA word, n : word + WordValues * n, a, 0)
OfInt(n) == Array([k \in 1 .. Size |-> (n \div WordValues ^ (k - 1)) % WordValues])
SignedOf(n) == IF n >= Modulus \div 2 THEN n - Modulus ELSE n
Is(a, n) == a = OfInt(n)
Sign(n) == IF n > 0 THEN 1 ELSE IF n < 0 THEN -1 ELSE 0
Size0(n) == Sign(n) * n
Quotient(s, t) == Sign(s) * Sign(t) * (Size0(s) \div Size0(t))

\* Division by zero does not end.
PairIsExact(a, b, m, n) ==
    LET s == SignedOf(m) t == SignedOf(n) IN
    /\ Is(Add(a, b), m + n) /\ Is(Sub(a, b), m - n) /\ Is(Mul(a, b), m * n) /\ Is(SignedMul(a, b), s * t)
    /\ Cmp(a, b) = Sign(m - n) /\ Compare(a, b) = Sign(s - t)
    /\ IF n = 0 THEN Div(a, b) = Endless /\ SignedDiv(a, b) = Endless
       ELSE Is(Div(a, b), m \div n) /\ Is(Mod(a, b), m % n) /\ Is(SignedDiv(a, b), Quotient(s, t))
    /\ \A op \in {"and", "or", "xor"}, k \in 0 .. 11 :
         (Number(Bitwise(op, a, b)) \div 2 ^ k) % 2 = BitOf(op, ((m \div 2 ^ k) % 2) + ((n \div 2 ^ k) % 2))
    /\ Above(Big(a), Big(b)) <=> s > t
    /\ Equal(Big(a), Big(b)) <=> s = t
    /\ Int64Of(Less(Sum(Big(a), Big(b)), Big(b))) = ToInt64(a)

\* A root is one while the middle's square fits, a power while it is asked for at
\* most MaxIterations times; a number times itself in place is zero; and an
\* int64_t of what is below INT64_MIN is its low bytes.
RootIsExact(root, n) ==
    n \div 2 + 1 < 2 ^ 6 => Number(root) ^ 2 <= n /\ (Number(root) + 1) ^ 2 > n
NumberIsExact(a, n, s) ==
    /\ Is(Inc(a), n + 1) /\ Is(Dec(a), n - 1) /\ Is(Not(a), -n - 1) /\ Is(TwosComplement(a), -n) /\ Is(Abs(a), Size0(s))
    /\ \A bits \in 0 .. 13 : Is(LShift(a, bits), n * 2 ^ bits) /\ Is(RShift(a, bits), n \div 2 ^ bits)
    /\ RootIsExact(Sqrt(a), n)
    /\ \A e \in 0 .. MaxIterations : Number(Pow(a, FromInt(e))) = FoldLeft(LAMBDA power, i : (power * n) % Modulus, 1, [i \in 1 .. e |-> i])
    /\ Pow(a, FromInt(MaxIterations + 1)) = Refused
    /\ Is(MulInPlace(a, a, FALSE), n * n) /\ MulInPlace(a, a, TRUE) = Nil
    /\ ToUInt64(a) = IF n > UInt64Max THEN UInt64Max ELSE n
    /\ ToInt64(a) = IF s > Int64Max THEN Int64Max ELSE IF s < Int64Min THEN AsInt64(s % (UInt64Max + 1)) ELSE s
    /\ Is8ByteSafe(a) <=> n <= Int64Max
    /\ SignedIs8ByteSafe(a) <=> s \in Int64Min .. Int64Max
    /\ \A base \in {2, 8, 10, 16} : ValueOfDigits(Text(a, base), base) = n
    /\ FromString(Text(a, 10), 10) = [of |-> a, error |-> FALSE]
    /\ FromString(SignedText(a, 10), 10) = [of |-> a, error |-> FALSE]

\* Number and image, the image cut short, and an intx in either form.
CodecIsExact(a, s, image, short) ==
    /\ Read256(image) = a
    /\ \A n \in 0 .. image.length - 1 : Read256([image EXCEPT !.bytes = SubSeq(@, 1, n)]) = Refused
    /\ FromBytes(BytesOf(a), TRUE) = a /\ FromBytes(BytesOf(a), FALSE) = a
    /\ \A guard \in {0, ByteValues - 1}, signed \in BOOLEAN :
         FromBytes(Append(BytesOf(a), guard), signed) =
            IF guard = Fill(signed /\ IsNegative(a)) THEN a ELSE Refused
    /\ \A strict \in BOOLEAN : ReadIntX(short, strict) # Refused /\ MakeBig(ReadIntX(short, strict)) = a
    /\ \A n \in 0 .. short.length - 1 : ReadIntX([short EXCEPT !.bytes = SubSeq(@, 1, n)], FALSE) = Refused
    /\ s \in Int64Min .. Int64Max =>
         /\ WriteIntX(Small(s)) = short /\ MakeBig(Small(s)) = a
         /\ Int64Of(Small(s)) = Int64Of(Big(a)) /\ Equal(Small(s), Big(a)) /\ Equal(Small(s), Small(s))
         /\ \A i \in {0, s - 1, s + 1} : Equal(Small(s), Small(i)) <=> i = s
         /\ UInt64Of(Small(s)) = UInt64Of(Big(a)) <=> s >= -1
         /\ IntXFromBytes(SubSeq(BytesOf(a), 1, ShortBytes), TRUE) = Small(s)
    /\ MakeBig(IntXFromBytes(BytesOf(a), TRUE)) = a

\* What a strict reader of an intx accepts is what is written of it, but for a
\* reserved bit in the short form, and a longer form than needed of a number
\* below zero: the test for one is the unsigned one.
ImageIsRead(image, wide, strict, relaxed) ==
    /\ wide # Refused =>
         /\ IsNegative(wide) <=> image.negative
         /\ SubSeq(BytesOf(wide), 1, image.length) = SubSeq(image.bytes, 1, image.length)
         /\ Write256(wide).length <= image.length
    /\ strict # Refused => relaxed = strict
    /\ relaxed # Refused => wide = MakeBig(relaxed) \/ image.reserved
    /\ strict # Refused /\ ~(strict.isBig /\ IsNegative(strict.big)) /\ Len(image.bytes) = image.length =>
         WriteIntX(strict) = [image EXCEPT !.reserved = FALSE, !.length = Len(WriteIntX(strict).bytes),
                                           !.bytes = SubSeq(@, 1, Len(WriteIntX(strict).bytes))]

\* A long text that is no number is an error; a short one is read up to what is
\* none in it, and with its characters beyond the caller's length.
IsNumeral(unsigned, radix) == \A i \in DOMAIN unsigned : unsigned[i] \in 0 .. radix - 1
UnsignedOf(line) == IF line # <<>> /\ line[1] = Hyphen THEN Tail(line) ELSE line
ValueOfLine(line) ==
    (IF line # <<>> /\ line[1] = Hyphen THEN -1 ELSE 1) * ValueOfDigits(UnsignedOf(line), 10)
TextIsRead(text, read, small) ==
    /\ read.error <=> ~IsNumeral(UnsignedOf(Line(text)), 10)
    /\ ~read.error => /\ Is(read.of, ValueOfLine(Line(text)))
                      /\ ~small.error /\ MakeBig(small.of) = read.of
    /\ small.error => read.error /\ (Len(text) >= ShortText \/ Strtoll(text, 10) \in {Int64Min, Int64Max})
RadixIsTen(text, read) == ~read.error => Is(read.of, ValueOfLine(Line(text)))

=============================================================================

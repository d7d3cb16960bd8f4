------------------------------ MODULE FeeMath ------------------------------
(***************************************************************************)
(* The fixed-width arithmetic the fee calculator and the readers of chain  *)
(* answers are built from: saturating sums and products, the fee scaling   *)
(* with its 128-bit intermediate and its portable form in half words, the  *)
(* row quanta, the shift a symbol length gives, and the decimal reader     *)
(* (include/Carbon/FeeEstimator.h, include/Carbon/FeeInfusions.h).         *)
(* WordBits stands for the 64 of uint64_t.                                 *)
(***************************************************************************)
EXTENDS Integers, Sequences, SequencesExt

CONSTANT WordBits

\* The powers of two up to the word's are positive numbers: arithmetic the
\* provers do not know, and TLC evaluates.
ASSUME WordAssumption ==
    /\ WordBits \in Nat \ {0}
    /\ \A n \in 0 .. WordBits : 2 ^ n \in Nat \ {0}

kU64Max == 2 ^ WordBits - 1
U64     == 0 .. kU64Max

Refused == -1      \* ok = false, or an answer of false

\* A stored value: what is left of an integer in one word.
Word(n) == n % (kU64Max + 1)

SaturatingAdd(a, b) == IF a > kU64Max - b THEN kU64Max ELSE a + b

SaturatingMul(a, b) ==
    IF a = 0 \/ b = 0 THEN 0 ELSE IF a > kU64Max \div b THEN kU64Max ELSE a * b

----------------------------------------------------------------------------
\* (value * multiplier) >> shift with a double-width intermediate.
MulShift(value, multiplier, shift) ==
    LET wide == (value * multiplier) \div 2 ^ shift
    IN  IF shift >= WordBits THEN 0 ELSE IF wide > kU64Max THEN kU64Max ELSE wide

\* The same without a double-width type: four products of half words, summed
\* with their carries into the words hi and lo of the product.
Half   == 2 ^ (WordBits \div 2)
Low(n)  == n % Half
High(n) == n \div Half

CarryDropped(a, b) == Word(High(Low(a) * Low(b)) + High(Low(a) * High(b) + High(a) * Low(b)))
Carry(a, b) ==
    Word(High(Low(a) * Low(b)) + Low(Low(a) * High(b)) + Low(High(a) * Low(b)))
HighWord(a, b) ==
    Word(High(a) * High(b) + High(Low(a) * High(b)) + High(High(a) * Low(b)) + High(Carry(a, b)))
LowWord(a, b) == Low(Low(a) * Low(b)) + Word(Carry(a, b) * Half)

MulShiftHalves(value, multiplier, shift) ==
    LET hi == HighWord(value, multiplier)
        lo == LowWord(value, multiplier)
    IN  CASE shift >= WordBits                            -> 0
          [] shift = 0                                    -> IF hi # 0 THEN kU64Max ELSE lo
          [] shift \in 1 .. WordBits - 1 /\ hi \div 2 ^ shift # 0 -> kU64Max
          [] OTHER -> Word(hi * 2 ^ (WordBits - shift)) + lo \div 2 ^ shift

----------------------------------------------------------------------------
CeilDiv(value, divisor) ==
    value \div divisor + (IF value % divisor # 0 THEN 1 ELSE 0)

\* The shift of a symbol or name of this length; maxLength 0 is no maximum.
\* Past kMaxPriceableLength a shift would be wider than the word.
kMaxPriceableLength == WordBits
SymbolShift(length, maxLength) ==
    CASE length = 0                                -> 0
      [] maxLength # 0 /\ length - 1 >= maxLength   -> Refused
      [] length > kMaxPriceableLength               -> Refused
      [] OTHER                                      -> length - 1

----------------------------------------------------------------------------
\* ParseDecimalU64: a text is its sequence of characters, a digit or NotADigit.
Digits    == 0 .. 9
NotADigit == 10

NextDigitUnguarded(value, c) ==
    IF value = Refused \/ c \notin Digits THEN Refused ELSE Word(value * 10 + c)
NextDigit(value, c) ==
    IF value = Refused \/ c \notin Digits \/ value > (kU64Max - c) \div 10
    THEN Refused ELSE value * 10 + c

ParseDecimalU64(text) == IF text = <<>> THEN Refused ELSE FoldLeft(NextDigit, 0, text)

============================================================================

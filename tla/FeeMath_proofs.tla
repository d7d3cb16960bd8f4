--------------------------- MODULE FeeMath_proofs ---------------------------
(***************************************************************************)
(* Proofs about the fee arithmetic, for every word width.  The hard part   *)
(* is MulShift without a double-width type: the two words it adds up from  *)
(* half-word products are the product, and shifting them by parts is       *)
(* shifting it.                                                            *)
(***************************************************************************)
EXTENDS FeeWords, TLAPS

\* The number of values of a word.
Size == 2 ^ WordBits

LEMMA WordFacts ==
    /\ Size \in Nat \ {0} /\ kU64Max \in Nat /\ kU64Max = Size - 1 /\ U64 = 0 .. kU64Max
    /\ WordBits \in Nat \ {0}
  BY WordAssumption DEF Size, kU64Max, U64

\* Quotient and remainder.
LEMMA DivisionFacts ==
    ASSUME NEW n \in Nat, NEW b \in Nat \ {0}
    PROVE  /\ n \div b \in Nat /\ n % b \in Nat /\ n % b < b
           /\ n = b * (n \div b) + (n % b)
           /\ b * (n \div b) \in Nat
  <1>1. n \div b \in Nat /\ n % b \in Nat /\ n % b < b
    OBVIOUS
  <1>2. n = b * (n \div b) + (n % b)
    OBVIOUS
  <1> QED BY <1>1, <1>2

LEMMA ProductGrows ==
    ASSUME NEW a \in Nat, NEW c \in Nat, a <= c, NEW b \in Nat
    PROVE  a * b \in Nat /\ c * b \in Nat /\ a * b <= c * b
  OBVIOUS

\* They are the only ones.
LEMMA DivisionIs ==
    ASSUME NEW n \in Nat, NEW b \in Nat \ {0}, NEW q \in Nat, NEW r \in Nat, r < b, n = b * q + r
    PROVE  n \div b = q /\ n % b = r
  <1> DEFINE Q == n \div b
             R == n % b
  <1>1. Q \in Nat /\ R \in Nat /\ R < b /\ n = b * Q + R
    BY DivisionFacts
  <1> HIDE DEF Q, R
  <1>2. b * q \in Nat /\ b * Q \in Nat
    BY <1>1
  <1>3. ~ (q < Q)
    <2> SUFFICES ASSUME q + 1 <= Q PROVE FALSE
      BY <1>1
    <2>1. (q + 1) * b <= Q * b
      BY <1>1, ProductGrows
    <2>2. (q + 1) * b = b * q + b /\ Q * b = b * Q
      BY <1>1
    <2> QED BY <1>1, <1>2, <2>1, <2>2
  <1>4. ~ (Q < q)
    <2> SUFFICES ASSUME Q + 1 <= q PROVE FALSE
      BY <1>1
    <2>1. (Q + 1) * b <= q * b
      BY <1>1, ProductGrows
    <2>2. (Q + 1) * b = b * Q + b /\ q * b = b * q
      BY <1>1
    <2> QED BY <1>1, <1>2, <2>1, <2>2
  <1>5. q = Q
    BY <1>1, <1>3, <1>4
  <1>6. r = R
    BY <1>1, <1>2, <1>5
  <1> QED BY <1>5, <1>6 DEF Q, R

LEMMA DivAtLeast ==
    ASSUME NEW n \in Nat, NEW a \in Nat, NEW b \in Nat \ {0}, b * a <= n
    PROVE  a <= n \div b
  <1>1. n \div b \in Nat /\ n < b * (n \div b) + b
    BY DivisionFacts
  <1>2. SUFFICES ASSUME n \div b + 1 <= a PROVE FALSE
    BY <1>1
  <1>3. (n \div b + 1) * b <= a * b
    BY <1>1, <1>2, ProductGrows
  <1>4. (n \div b + 1) * b = b * (n \div b) + b /\ a * b = b * a
    BY <1>1
  <1> QED BY <1>1, <1>3, <1>4

----------------------------------------------------------------------------
(* Saturation.                                                             *)

\* A sum of two words is clamped, not wrapped.
LEMMA SumSaturates ==
    ASSUME NEW a \in U64, NEW b \in U64
    PROVE  SaturatingAdd(a, b) = Clamp(a + b)
  BY WordFacts DEF SaturatingAdd, Clamp

\* A product of two numbers is clamped, and only when it does not fit.
LEMMA ProductSaturates ==
    ASSUME NEW a \in Nat, NEW b \in Nat
    PROVE  SaturatingMul(a, b) = Clamp(a * b)
  <1>1. CASE a = 0 \/ b = 0
    BY <1>1, WordFacts DEF SaturatingMul, Clamp
  <1>2. CASE a # 0 /\ b # 0
    <2> DEFINE most == kU64Max \div b
    <2>1. most \in Nat /\ b * most \in Nat /\ b * most <= kU64Max /\ kU64Max < b * most + b
      <3>1. b \in Nat \ {0} /\ kU64Max \in Nat
        BY <1>2, WordFacts
      <3>2. /\ most \in Nat /\ kU64Max % b \in Nat /\ kU64Max % b < b
            /\ kU64Max = b * most + (kU64Max % b) /\ b * most \in Nat
        BY <3>1, DivisionFacts
      <3> QED BY <3>1, <3>2
    <2>4. SaturatingMul(a, b) = IF a > most THEN kU64Max ELSE a * b
      BY <1>2 DEF SaturatingMul
    <2> HIDE DEF most
    <2>2. CASE a <= most
      <3>1. a * b <= most * b /\ most * b = b * most
        BY <2>1, <2>2, ProductGrows
      <3> QED BY <2>1, <2>2, <2>4, <3>1, WordFacts DEF Clamp
    <2>3. CASE a > most
      <3>1. (most + 1) * b <= a * b /\ (most + 1) * b = b * most + b
        BY <2>1, <2>3, ProductGrows
      <3> QED BY <2>1, <2>3, <2>4, <3>1, WordFacts DEF Clamp
    <2> QED BY <2>1, <2>2, <2>3
  <1> QED BY <1>1, <1>2

----------------------------------------------------------------------------
(* Scaling: together is at least apart.                                    *)

LEMMA QuotientsAdd ==
    ASSUME NEW m \in Nat, NEW n \in Nat, NEW b \in Nat \ {0}
    PROVE  (m \div b) + (n \div b) <= (m + n) \div b
  <1>1. /\ m \div b \in Nat /\ n \div b \in Nat
        /\ b * (m \div b) <= m /\ b * (n \div b) <= n
    BY DivisionFacts
  <1>2. b * ((m \div b) + (n \div b)) = b * (m \div b) + b * (n \div b)
    BY <1>1
  <1>3. b * (m \div b) \in Nat /\ b * (n \div b) \in Nat
    BY <1>1
  <1>4. b * ((m \div b) + (n \div b)) <= m + n
    BY <1>1, <1>2, <1>3
  <1> QED BY <1>1, <1>4, DivAtLeast

LEMMA ClampGrows ==
    ASSUME NEW m \in Nat, NEW n \in Nat, m <= n
    PROVE  Clamp(m) <= Clamp(n) /\ Clamp(n) \in Nat
  BY WordFacts DEF Clamp

LEMMA ScalingTogether ==
    ASSUME NEW a \in U64, NEW b \in U64, NEW shift \in 0 .. WordBits + 1, NEW x \in 0 .. a
    PROVE  MulShift(a, b, shift) >= Clamp(MulShift(x, b, shift) + MulShift(a - x, b, shift))
  <1>1. a \in Nat /\ b \in Nat /\ x \in Nat /\ a - x \in Nat /\ shift \in Nat
    BY WordFacts
  <1>2. CASE shift >= WordBits
    BY <1>2, WordFacts DEF MulShift, Clamp
  <1>3. CASE shift < WordBits
    <2> DEFINE power == 2 ^ shift
               whole == (a * b) \div power
               m     == (x * b) \div power
               n     == ((a - x) * b) \div power
    <2>1. power \in Nat \ {0}
      BY <1>1, <1>3, WordAssumption
    <2> HIDE DEF power
    <2>2. /\ a * b \in Nat /\ x * b \in Nat /\ (a - x) * b \in Nat
          /\ x * b + (a - x) * b = a * b
      BY <1>1
    <2>3. m \in Nat /\ n \in Nat /\ whole \in Nat /\ m + n <= whole
      BY <2>1, <2>2, DivisionFacts, QuotientsAdd
    <2>4. /\ MulShift(a, b, shift) = Clamp(whole) /\ MulShift(x, b, shift) = Clamp(m)
          /\ MulShift(a - x, b, shift) = Clamp(n)
      BY <1>1, <1>3, WordFacts DEF MulShift, Clamp, power
    <2> HIDE DEF whole, m, n
    <2>5. Clamp(m) + Clamp(n) \in Nat /\ Clamp(m) + Clamp(n) <= whole
      BY <2>3, WordFacts DEF Clamp
    <2>6. Clamp(Clamp(m) + Clamp(n)) <= Clamp(whole) /\ Clamp(whole) \in Nat
      BY <2>3, <2>5, ClampGrows
    <2> QED BY <2>4, <2>6
  <1> QED BY <1>1, <1>2, <1>3, WordFacts

----------------------------------------------------------------------------
(* Quanta and symbol lengths.                                              *)

LEMMA QuantaHold ==
    ASSUME NEW a \in Nat, NEW b \in Nat \ {0}
    PROVE  /\ CeilDiv(a, b) * b >= a
           /\ a > 0 => (CeilDiv(a, b) - 1) * b < a
  <1> DEFINE q == a \div b
             r == a % b
  <1>1. q \in Nat /\ r \in Nat /\ r < b /\ a = b * q + r
    BY DivisionFacts
  <1>2. CeilDiv(a, b) = q + (IF r # 0 THEN 1 ELSE 0)
    BY DEF CeilDiv
  <1> HIDE DEF q, r
  <1>3. q * b = b * q /\ (q + 1) * b = b * q + b /\ (q - 1) * b = b * q - b /\ b * q \in Nat
    BY <1>1
  <1>4. CASE r = 0
    BY <1>1, <1>2, <1>3, <1>4
  <1>5. CASE r # 0
    <2>1. CeilDiv(a, b) = q + 1 /\ CeilDiv(a, b) - 1 = q
      BY <1>1, <1>2, <1>5
    <2> QED BY <1>1, <1>3, <1>5, <2>1
  <1> QED BY <1>4, <1>5

LEMMA ShiftsAreNarrow ==
    ASSUME NEW a \in Nat, NEW maxLength \in Nat
    PROVE  /\ SymbolShift(a, maxLength) < WordBits
           /\ SymbolShift(a, maxLength) = Refused
                => a > WordBits \/ (maxLength # 0 /\ a > maxLength)
  BY WordFacts DEF SymbolShift, Refused, kMaxPriceableLength

----------------------------------------------------------------------------
(* The product in two words, from half words.                              *)

LEMMA HalfFacts ==
    /\ Half \in Nat \ {0} /\ Half * Half = Size
    /\ \A n \in Nat : /\ Low(n) \in 0 .. Half - 1 /\ High(n) \in Nat
                      /\ n = Half * High(n) + Low(n)
  <1> DEFINE half == WordBits \div 2
  <1>1. /\ half \in 0 .. WordBits /\ WordBits - half = half
    BY WordFacts, PowersAssumption
  <1>2. Half \in Nat \ {0}
    BY <1>1, WordAssumption DEF Half
  <1>3. Half * Half = Size
    BY <1>1, PowersAssumption DEF Half, Size
  <1>4. ASSUME NEW n \in Nat
        PROVE  /\ Low(n) \in 0 .. Half - 1 /\ High(n) \in Nat
               /\ n = Half * High(n) + Low(n)
    <2>1. Low(n) = n % Half /\ High(n) = n \div Half
      BY DEF Low, High
    <2>2. /\ n \div Half \in Nat /\ n % Half \in Nat /\ n % Half < Half
          /\ n = Half * (n \div Half) + (n % Half)
      BY <1>2, DivisionFacts
    <2> QED BY <1>2, <2>1, <2>2
  <1> QED BY <1>2, <1>3, <1>4

LEMMA HalfTimes ==
    ASSUME NEW n \in Nat
    PROVE  Half * n = Size * High(n) + Half * Low(n)
  <1> DEFINE h == High(n)
             l == Low(n)
  <1>1. /\ Half \in Nat /\ Half * Half = Size /\ h \in Nat /\ l \in 0 .. Half - 1
        /\ n = Half * h + l
    BY HalfFacts
  <1> HIDE DEF h, l
  <1>2. Half * (Half * h + l) = (Half * Half) * h + Half * l
    BY <1>1
  <1> QED BY <1>1, <1>2 DEF h, l

\* The four products of halves, and what they carry into each other.
LL(a, b) == Low(a) * Low(b)
LH(a, b) == Low(a) * High(b)
HL(a, b) == High(a) * Low(b)
HH(a, b) == High(a) * High(b)
Middle(a, b) == High(LL(a, b)) + Low(LH(a, b)) + Low(HL(a, b))

LEMMA HalvesFacts ==
    ASSUME NEW a \in Nat, NEW b \in Nat
    PROVE  /\ LL(a, b) \in Nat /\ LH(a, b) \in Nat /\ HL(a, b) \in Nat /\ HH(a, b) \in Nat
           /\ LL(a, b) <= (Half - 1) * (Half - 1)
           /\ a * b = Size * HH(a, b) + Half * LH(a, b) + Half * HL(a, b) + LL(a, b)
  <1> DEFINE al == Low(a)
             ah == High(a)
             bl == Low(b)
             bh == High(b)
  <1>1. /\ al \in 0 .. Half - 1 /\ ah \in Nat /\ a = Half * ah + al
        /\ bl \in 0 .. Half - 1 /\ bh \in Nat /\ b = Half * bh + bl
        /\ Half \in Nat /\ Half >= 1 /\ Half * Half = Size
    <2>1. al \in 0 .. Half - 1 /\ ah \in Nat /\ a = Half * ah + al
      BY HalfFacts
    <2>2. bl \in 0 .. Half - 1 /\ bh \in Nat /\ b = Half * bh + bl
      BY HalfFacts
    <2> HIDE DEF al, ah, bl, bh
    <2> QED BY <2>1, <2>2, HalfFacts
  <1>2. /\ LL(a, b) = al * bl /\ LH(a, b) = al * bh /\ HL(a, b) = ah * bl /\ HH(a, b) = ah * bh
    BY DEF LL, LH, HL, HH
  <1> HIDE DEF al, ah, bl, bh
  <1>3. al * bl \in Nat /\ al * bh \in Nat /\ ah * bl \in Nat /\ ah * bh \in Nat
    BY <1>1
  <1>4. al * bl <= (Half - 1) * (Half - 1)
    <2>1. al * bl <= (Half - 1) * bl /\ bl * (Half - 1) <= (Half - 1) * (Half - 1)
      BY <1>1, ProductGrows
    <2>2. (Half - 1) * bl = bl * (Half - 1) /\ (Half - 1) * (Half - 1) \in Nat
          /\ bl * (Half - 1) \in Nat
      BY <1>1
    <2> QED BY <1>3, <2>1, <2>2
  <1>5. a * b = (Half * ah + al) * (Half * bh + bl)
    BY <1>1
  <1>6. (Half * ah + al) * (Half * bh + bl)
          = (Half * Half) * (ah * bh) + Half * (al * bh) + Half * (ah * bl) + al * bl
    BY <1>1
  <1> QED BY <1>1, <1>2, <1>3, <1>4, <1>5, <1>6

\* What fits a word is kept whole.
LEMMA WordKeeps ==
    ASSUME NEW n \in Nat, n < Size
    PROVE  Word(n) = n
  <1>1. Size \in Nat \ {0} /\ kU64Max + 1 = Size /\ n = Size * 0 + n
    BY WordFacts
  <1>2. n % Size = n
    BY <1>1, DivisionIs
  <1> QED BY <1>1, <1>2 DEF Word

\* The sum of the carries fits a word: what Carry keeps is all of it.
LEMMA CarryIsMiddle ==
    ASSUME NEW a \in Nat, NEW b \in Nat
    PROVE  Middle(a, b) \in Nat /\ Carry(a, b) = Middle(a, b)
  <1> DEFINE l == High(LL(a, b))
             m == Low(LH(a, b))
             n == Low(HL(a, b))
  <1>1. /\ Half \in Nat /\ Half >= 1 /\ Half * Half = Size /\ Size \in Nat \ {0}
    BY HalfFacts, WordFacts
  <1>2. /\ LL(a, b) \in Nat /\ LH(a, b) \in Nat /\ HL(a, b) \in Nat
        /\ LL(a, b) <= (Half - 1) * (Half - 1)
    BY HalvesFacts
  <1>3. /\ l \in Nat /\ Half * l <= LL(a, b)
        /\ m \in 0 .. Half - 1 /\ n \in 0 .. Half - 1
    <2>1. /\ l \in Nat /\ Low(LL(a, b)) \in Nat /\ LL(a, b) = Half * l + Low(LL(a, b))
          /\ m \in 0 .. Half - 1 /\ n \in 0 .. Half - 1
      BY <1>2, HalfFacts
    <2> HIDE DEF l, m, n
    <2> QED BY <1>1, <2>1
  <1> HIDE DEF l, m, n
  <1>4. l <= Half - 1
    <2> SUFFICES ASSUME Half <= l PROVE FALSE
      BY <1>1, <1>3
    <2>1. Half * Half <= l * Half /\ l * Half = Half * l
      BY <1>1, <1>3, ProductGrows
    <2>2. (Half - 1) * (Half - 1) = Half * Half - Half - Half + 1 /\ Half * Half \in Nat
      BY <1>1
    <2>3. Half * l \in Nat
      BY <1>1, <1>3
    <2> QED BY <1>1, <1>2, <1>3, <2>1, <2>2, <2>3
  <1>5. 3 * (Half - 1) < Half * Half
    <2>1. CASE Half = 1
      BY <2>1
    <2>2. CASE Half = 2
      BY <2>2
    <2>3. CASE Half >= 3
      <3>1. 3 * Half <= Half * Half
        BY <1>1, <2>3, ProductGrows
      <3> QED BY <1>1, <3>1
    <2> QED BY <1>1, <2>1, <2>2, <2>3
  <1>6. l + m + n \in Nat /\ l + m + n < Size
    BY <1>1, <1>3, <1>4, <1>5
  <1>7. Middle(a, b) = l + m + n
    BY DEF Middle, l, m, n
  <1>8. Carry(a, b) = Word(Middle(a, b))
    BY DEF Carry, Middle, LL, LH, HL
  <1>9. Word(Middle(a, b)) = Middle(a, b)
    BY <1>6, <1>7, WordKeeps
  <1> QED BY <1>6, <1>7, <1>8, <1>9

\* The two words are the product's.
LEMMA WordsAreTheProduct ==
    ASSUME NEW a \in U64, NEW b \in U64
    PROVE  /\ HighWord(a, b) \in 0 .. kU64Max /\ LowWord(a, b) \in 0 .. kU64Max
           /\ a * b = Size * HighWord(a, b) + LowWord(a, b)
  <1> DEFINE ll == LL(a, b)
             lh == LH(a, b)
             hl == HL(a, b)
             hh == HH(a, b)
             c  == Middle(a, b)
             hi == hh + High(lh) + High(hl) + High(c)
             lo == Low(ll) + Half * Low(c)
  <1>1. /\ a \in Nat /\ b \in Nat /\ a <= kU64Max /\ b <= kU64Max /\ kU64Max \in Nat
        /\ kU64Max = Size - 1 /\ Size \in Nat \ {0}
        /\ Half \in Nat /\ Half >= 1 /\ Half * Half = Size
    BY WordFacts, HalfFacts
  <1>2. /\ ll \in Nat /\ lh \in Nat /\ hl \in Nat /\ hh \in Nat
        /\ a * b = Size * hh + Half * lh + Half * hl + ll
    BY <1>1, HalvesFacts
  <1>3. c \in Nat /\ Carry(a, b) = c /\ c = High(ll) + Low(lh) + Low(hl)
    BY <1>1, CarryIsMiddle DEF Middle
  <1>4. /\ High(ll) \in Nat /\ Low(ll) \in 0 .. Half - 1 /\ ll = Half * High(ll) + Low(ll)
        /\ High(lh) \in Nat /\ Low(lh) \in 0 .. Half - 1 /\ lh = Half * High(lh) + Low(lh)
        /\ High(hl) \in Nat /\ Low(hl) \in 0 .. Half - 1 /\ hl = Half * High(hl) + Low(hl)
        /\ High(c) \in Nat /\ Low(c) \in 0 .. Half - 1 /\ c = Half * High(c) + Low(c)
    BY <1>2, <1>3, HalfFacts
  <1>5. /\ HighWord(a, b) = Word(hh + High(lh) + High(hl) + High(Carry(a, b)))
        /\ LowWord(a, b) = Low(ll) + Word(Carry(a, b) * Half)
    BY DEF HighWord, LowWord, HH, LH, HL, LL
  <1>6. HighWord(a, b) = Word(hi) /\ LowWord(a, b) = Low(ll) + Word(c * Half)
    BY <1>3, <1>5
  <1> HIDE DEF ll, lh, hl, hh, c
  <1>7. hi \in Nat
    BY <1>2, <1>4
  <1>8. lo \in Nat /\ lo <= Size - 1 /\ Half * Low(c) \in Nat /\ Half * Low(c) < Size
    <2>1. Low(c) * Half <= (Half - 1) * Half /\ Low(c) * Half = Half * Low(c)
      BY <1>1, <1>4, ProductGrows
    <2>2. (Half - 1) * Half = Half * Half - Half /\ Half * Low(c) \in Nat
      BY <1>1, <1>4
    <2> QED BY <1>1, <1>4, <2>1, <2>2
  <1>9. a * b = Size * hi + lo
    <2>1. /\ Half * lh = Size * High(lh) + Half * Low(lh)
          /\ Half * hl = Size * High(hl) + Half * Low(hl)
          /\ Half * c = Size * High(c) + Half * Low(c)
      BY <1>2, <1>3, HalfTimes
    <2>2. Half * c = Half * High(ll) + Half * Low(lh) + Half * Low(hl)
      BY <1>1, <1>3, <1>4
    <2>3. Size * hi = Size * hh + Size * High(lh) + Size * High(hl) + Size * High(c)
      BY <1>1, <1>2, <1>4
    <2>4. /\ Half * Low(lh) \in Nat /\ Half * Low(hl) \in Nat /\ Half * High(ll) \in Nat
          /\ Size * High(lh) \in Nat /\ Size * High(hl) \in Nat /\ Size * High(c) \in Nat
          /\ Size * hh \in Nat /\ Half * c \in Nat /\ Half * Low(c) \in Nat
          /\ Half * lh \in Nat /\ Half * hl \in Nat
      BY <1>1, <1>2, <1>3, <1>4
    <2>5. a * b = Size * hh + Half * lh + Half * hl + ll /\ ll = Half * High(ll) + Low(ll)
      BY <1>2, <1>4
    <2>6. Low(ll) \in Nat /\ ll \in Nat
      BY <1>1, <1>2, <1>4
    <2> HIDE DEF hi
    <2> QED BY <2>1, <2>2, <2>3, <2>4, <2>5, <2>6
  <1> HIDE DEF hi, lo
  <1>10. hi < Size
    <2> SUFFICES ASSUME Size <= hi PROVE FALSE
      BY <1>1, <1>7
    <2>1. Size * Size <= hi * Size /\ hi * Size = Size * hi
      BY <1>1, <1>7, ProductGrows
    <2>2. a * b <= kU64Max * b /\ b * kU64Max <= kU64Max * kU64Max
      BY <1>1, ProductGrows
    <2>3. /\ kU64Max * b = b * kU64Max
          /\ kU64Max * kU64Max = Size * Size - Size - Size + 1
          /\ Size * Size \in Nat /\ Size * hi \in Nat /\ a * b \in Nat /\ kU64Max * b \in Nat
      BY <1>1, <1>7
    <2> QED BY <1>1, <1>8, <1>9, <2>1, <2>2, <2>3
  <1>11. HighWord(a, b) = hi
    BY <1>6, <1>7, <1>10, WordKeeps
  <1>12. LowWord(a, b) = lo
    <2>1. c * Half = Half * c /\ Half * c = Size * High(c) + Half * Low(c)
      BY <1>1, <1>3, HalfTimes
    <2>2. c * Half \in Nat
      BY <1>1, <1>3
    <2>3. (c * Half) % Size = Half * Low(c)
      BY <1>1, <1>4, <1>8, <2>1, <2>2, DivisionIs
    <2>4. Word(c * Half) = (c * Half) % Size
      BY <1>1 DEF Word
    <2>5. Word(c * Half) = Half * Low(c)
      BY <2>3, <2>4
    <2> QED BY <1>6, <2>5 DEF lo
  <1> QED BY <1>1, <1>7, <1>8, <1>9, <1>10, <1>11, <1>12


----------------------------------------------------------------------------
(* Shifting the product.                                                   *)

\* A power of two below the word's, and what is left of the word.
LEMMA PowerFacts ==
    ASSUME NEW shift \in 0 .. WordBits
    PROVE  /\ 2 ^ shift \in Nat \ {0} /\ 2 ^ (WordBits - shift) \in Nat \ {0}
           /\ 2 ^ shift * 2 ^ (WordBits - shift) = Size
  <1>1. WordBits - shift \in 0 .. WordBits
    BY WordFacts
  <1> QED BY <1>1, WordAssumption, PowersAssumption DEF Size

\* The product of two words shifted is its high word shifted up by what is left,
\* plus its low word shifted down.
LEMMA ProductShifted ==
    ASSUME NEW hi \in 0 .. kU64Max, NEW lo \in 0 .. kU64Max, NEW power \in Nat \ {0},
           NEW left \in Nat \ {0}, power * left = Size
    PROVE  /\ (Size * hi + lo) \div power = hi * left + (lo \div power)
           /\ lo \div power \in Nat /\ lo \div power < left
           /\ hi * left \in Nat
           /\ hi < power => hi * left <= Size - left
           /\ hi >= power => hi * left >= Size
  <1> DEFINE q == lo \div power
             r == lo % power
  <1>1. lo \in Nat /\ hi \in Nat /\ lo < Size /\ Size \in Nat
    BY WordFacts
  <1>2. q \in Nat /\ r \in Nat /\ r < power /\ lo = power * q + r
    BY <1>1, DivisionFacts
  <1> HIDE DEF q, r
  <1>3. hi * left \in Nat /\ hi * left + q \in Nat
    BY <1>1, <1>2
  <1>4. Size * hi + lo = power * (hi * left + q) + r
    <2>1. power * (hi * left + q) = (power * left) * hi + power * q
      BY <1>1, <1>2
    <2>2. power * q \in Nat /\ (power * left) * hi = Size * hi /\ Size * hi \in Nat
      BY <1>1, <1>2
    <2>3. power * (hi * left + q) + r = Size * hi + (power * q + r)
      BY <1>2, <2>1, <2>2
    <2> QED BY <1>2, <2>3
  <1>5. (Size * hi + lo) \div power = hi * left + q
    <2>1. Size * hi + lo \in Nat
      BY <1>1
    <2> QED BY <1>2, <1>3, <1>4, <2>1, DivisionIs
  <1>6. q < left
    <2> SUFFICES ASSUME left <= q PROVE FALSE
      BY <1>2
    <2>1. left * power <= q * power /\ left * power = power * left /\ q * power = power * q
      BY <1>2, ProductGrows
    <2>2. power * q \in Nat
      BY <1>2
    <2> QED BY <1>1, <1>2, <2>1, <2>2
  <1>7. ASSUME hi < power PROVE hi * left <= Size - left
    <2>1. (hi + 1) * left <= power * left /\ (hi + 1) * left = hi * left + left
      BY <1>1, <1>7, ProductGrows
    <2> QED BY <1>1, <1>3, <2>1
  <1>8. ASSUME hi >= power PROVE hi * left >= Size
    BY <1>1, <1>8, ProductGrows
  <1> QED BY <1>2, <1>3, <1>5, <1>6, <1>7, <1>8 DEF q

\* Both builds of MulShift give the same fee, for every value, multiplier and
\* shift (FeeEstimator.h, the two branches of the #if).
LEMMA BothBuildsAgree ==
    ASSUME NEW a \in U64, NEW b \in U64, NEW shift \in 0 .. WordBits + 1
    PROVE  MulShiftHalves(a, b, shift) = MulShift(a, b, shift)
  <1> DEFINE hi == HighWord(a, b)
             lo == LowWord(a, b)
  <1>1. hi \in 0 .. kU64Max /\ lo \in 0 .. kU64Max /\ a * b = Size * hi + lo
    BY WordsAreTheProduct
  <1>2. Size \in Nat \ {0} /\ kU64Max = Size - 1 /\ shift \in Nat /\ WordBits \in Nat \ {0}
    BY WordFacts
  <1>3. CASE shift >= WordBits
    BY <1>2, <1>3 DEF MulShiftHalves, MulShift
  <1>4. CASE shift = 0
    <2>1. MulShiftHalves(a, b, shift) = IF hi # 0 THEN kU64Max ELSE lo
      BY <1>2, <1>4 DEF MulShiftHalves
    <2>2. 2 ^ shift = 1
      BY <1>4, PowersAssumption
    <2>3. MulShift(a, b, shift) = Clamp((Size * hi + lo) \div 1)
      BY <1>1, <1>2, <1>4, <2>2 DEF MulShift, Clamp
    <2> HIDE DEF hi, lo
    <2>4. Size * hi + lo \in Nat
      BY <1>1, <1>2
    <2>5. (Size * hi + lo) \div 1 = Size * hi + lo
      BY <2>4
    <2>6. hi # 0 => Size * hi >= Size
      <3> SUFFICES ASSUME hi # 0 PROVE hi * Size >= 1 * Size
        BY <1>1, <1>2
      <3> QED BY <1>1, <1>2, ProductGrows
    <2>7. hi = 0 => Size * hi = 0
      BY <1>2
    <2> QED BY <1>1, <1>2, <2>1, <2>3, <2>4, <2>5, <2>6, <2>7 DEF Clamp
  <1>5. CASE shift > 0 /\ shift < WordBits
    <2> DEFINE power == 2 ^ shift
               left  == 2 ^ (WordBits - shift)
               tail  == lo \div power
    <2>1. power \in Nat \ {0} /\ left \in Nat \ {0} /\ power * left = Size
      BY <1>2, <1>5, PowerFacts
    <2>2. MulShiftHalves(a, b, shift) =
            IF hi \div power # 0 THEN kU64Max ELSE Word(hi * left) + tail
      BY <1>2, <1>5 DEF MulShiftHalves
    <2>3. MulShift(a, b, shift) = Clamp((Size * hi + lo) \div power)
      BY <1>1, <1>2, <1>5 DEF MulShift, Clamp
    <2> HIDE DEF hi, lo, power, left
    <2>4. /\ (Size * hi + lo) \div power = hi * left + tail
          /\ tail \in Nat /\ tail < left /\ hi * left \in Nat
          /\ hi < power => hi * left <= Size - left
          /\ hi >= power => hi * left >= Size
      BY <1>1, <2>1, ProductShifted
    <2>5. hi \div power = 0 <=> hi < power
      <3>1. hi \in Nat
        BY <1>1
      <3>2. ASSUME hi < power PROVE hi \div power = 0
        <4>1. hi = power * 0 + hi
          BY <2>1, <3>1
        <4> QED BY <2>1, <3>1, <3>2, <4>1, DivisionIs
      <3>3. ASSUME hi >= power PROVE hi \div power # 0
        <4>1. power * 1 <= hi
          BY <2>1, <3>3
        <4>2. 1 <= hi \div power /\ hi \div power \in Nat
          BY <2>1, <3>1, <4>1, DivAtLeast, DivisionFacts
        <4> QED BY <4>2
      <3> QED BY <2>1, <3>1, <3>2, <3>3
    <2> HIDE DEF tail
    <2>6. CASE hi >= power
      BY <1>1, <1>2, <2>1, <2>2, <2>3, <2>4, <2>5, <2>6 DEF Clamp
    <2>7. CASE hi < power
      <3>1. hi * left < Size
        BY <1>2, <2>1, <2>4, <2>7
      <3>2. Word(hi * left) = hi * left
        BY <2>4, <3>1, WordKeeps
      <3> QED BY <1>1, <1>2, <2>1, <2>2, <2>3, <2>4, <2>5, <2>7, <3>2 DEF Clamp
    <2> QED BY <1>1, <2>1, <2>6, <2>7
  <1> QED BY <1>2, <1>3, <1>4, <1>5

----------------------------------------------------------------------------
\* The fee arithmetic is exact for every word width of two halves: sums and
\* products saturate and never wrap, both builds of MulShift agree on every
\* value, multiplier and shift, scaling a sum never gives less than scaling its
\* parts, quanta hold their rows, and no price is shifted past its word
\* (FeeEstimator.h).
THEOREM FeesAreExactForEveryWidth == WordsSpec => []FeesAreExact
  <1> DEFINE Given == \/ For("words")
                      \/ \E a, b \in U64, shift \in 0 .. WordBits + 1 :
                           input = [kind |-> "words", a |-> a, b |-> b, shift |-> shift]
  <1>1. For("words") => Given
    OBVIOUS
  <1>2. Given /\ [Words]_input => Given'
    BY DEF Words, For
  <1>3. Given => FeesAreExact
    <2> SUFFICES ASSUME Given, Is("words") PROVE FeesAreExact
      BY DEF FeesAreExact
    <2>1. ~For("words")
      BY DEF For, Is
    <2>2. PICK a \in U64, b \in U64, shift \in 0 .. WordBits + 1 :
            input = [kind |-> "words", a |-> a, b |-> b, shift |-> shift]
      BY <2>1
    <2>3. a \in Nat /\ b \in Nat /\ shift \in Nat
      BY WordFacts
    <2>4. SaturatingAdd(a, b) = Clamp(a + b) /\ SaturatingMul(a, b) = Clamp(a * b)
      BY <2>3, SumSaturates, ProductSaturates
    <2>5. MulShiftHalves(a, b, shift) = MulShift(a, b, shift)
      BY BothBuildsAgree
    <2>6. \A x \in 0 .. a : MulShift(a, b, shift) >=
             Clamp(MulShift(x, b, shift) + MulShift(a - x, b, shift))
      BY ScalingTogether
    <2>7. b > 0 => /\ CeilDiv(a, b) * b >= a
                   /\ a > 0 => (CeilDiv(a, b) - 1) * b < a
      BY <2>3, QuantaHold
    <2>8. \A maxLength \in {0, shift} :
             /\ SymbolShift(a, maxLength) < WordBits
             /\ SymbolShift(a, maxLength) = Refused
                  => a > WordBits \/ (maxLength # 0 /\ a > maxLength)
      BY <2>3, ShiftsAreNarrow
    <2>9. input.a = a /\ input.b = b /\ input.shift = shift
      BY <2>2
    <2> QED BY <2>4, <2>5, <2>6, <2>7, <2>8, <2>9 DEF FeesAreExact
  <1> QED BY <1>1, <1>2, <1>3, PTL DEF WordsSpec

=============================================================================

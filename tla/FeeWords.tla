------------------------------ MODULE FeeWords ------------------------------
(***************************************************************************)
(* What the fee arithmetic is meant to compute (include/Carbon/            *)
(* FeeEstimator.h): a behaviour is given two words and a shift, and the    *)
(* property says what the operators of FeeMath answer for them.            *)
(***************************************************************************)
EXTENDS FeeMath

VARIABLE input

\* Powers of two, which the provers do not know and TLC evaluates; the word has
\* two halves, as the 64 bits of uint64_t have.
ASSUME PowersAssumption ==
    /\ WordBits % 2 = 0
    /\ 2 ^ 0 = 1
    /\ \A n \in 0 .. WordBits : 2 ^ n * 2 ^ (WordBits - n) = 2 ^ WordBits

Is(kind)  == "kind" \in DOMAIN input /\ input.kind = kind
For(kind) == input = [next |-> kind]

\* Every pair of words, every shift to one past the word.
Words == For("words") /\ \E a, b \in U64, shift \in 0 .. WordBits + 1 :
    input' = [kind |-> "words", a |-> a, b |-> b, shift |-> shift]
WordsSpec == For("words") /\ [][Words]_input

Clamp(n) == IF n > kU64Max THEN kU64Max ELSE n

\* Sums and products saturate exactly: never a wrapped value, never a clamp of a
\* result that fits (FeeEstimator.h, SaturatingAdd and SaturatingMul); the
\* half-word build of MulShift and the 128-bit one give the same fee for every
\* value, multiplier and shift (both branches of the #if).  Scaling the sum of
\* two charges never gives less than scaling each and adding: the quote covers
\* the chain, which scales charge by charge (the caveat on expectedGasBill); a
\* row's quanta hold its bytes, and one quantum fewer would not; and no price is
\* shifted by the width of its word, whose result is undefined, nor a length
\* refused but for the two reasons.
FeesAreExact ==
    Is("words") => LET a == input.a b == input.b shift == input.shift IN
        /\ SaturatingAdd(a, b) = Clamp(a + b)
        /\ SaturatingMul(a, b) = Clamp(a * b)
        /\ MulShiftHalves(a, b, shift) = MulShift(a, b, shift)
        /\ \A x \in 0 .. a : MulShift(a, b, shift) >=
             Clamp(MulShift(x, b, shift) + MulShift(a - x, b, shift))
        /\ b > 0 => /\ CeilDiv(a, b) * b >= a
                    /\ a > 0 => (CeilDiv(a, b) - 1) * b < a
        /\ \A maxLength \in {0, shift} :
             /\ SymbolShift(a, maxLength) < WordBits
             /\ SymbolShift(a, maxLength) = Refused
                  => a > WordBits \/ (maxLength # 0 /\ a > maxLength)

=============================================================================

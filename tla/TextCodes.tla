----------------------------- MODULE TextCodes -----------------------------
(***************************************************************************)
(* Bytes as text: hexadecimal, Base58 with and without its checksum, and   *)
(* Base64 (include/Numerics/Base16.h, Base58.h, Base64.h).                 *)
(*                                                                         *)
(* A text is a sequence of characters, each its place in the alphabet of   *)
(* the code, Bad in none. Radix58 is what stands for the 58 letters, and   *)
(* ByteValues for the 256 bytes, of Base58, whose numbers are the natural  *)
(* numbers here (BigInteger.tla has their words). PHANTASMA_EXCEPTION      *)
(* throws: a refused text has no bytes.                                    *)
(***************************************************************************)
EXTENDS Integers, Sequences, SequencesExt

CONSTANTS Radix58, ByteValues

Bad     == -1
Refused == <<>>

\* The number whose digits these are, the first the highest.
Positional(digits, base) == FoldLeft(LAMBDA n, d : n * base + d, 0, digits)

-----------------------------------------------------------------------------
(* Base16: digits 0 to 15, those of the lower case 26 to 31.               *)

X == -2              \* 'x' and 'X'
Upper(c) == IF c \in 26 .. 31 THEN c - 16 ELSE c
IsDigit(c) == Upper(c) \in 0 .. 15

\* The text after its prefix; one that is the prefix alone is empty.
Hex(text) == IF Len(text) >= 2 /\ text[1] = 0 /\ text[2] = X THEN SubSeq(text, 3, Len(text)) ELSE text

IsValid16(text) == Hex(text) # <<>> /\ \A i \in DOMAIN Hex(text) : IsDigit(Hex(text)[i])

\* Decode into a buffer of `room` bytes, one or more: only what fills it is looked at.
\* An odd text has a byte of one digit first. (The code writes that one before it looks
\* at the room, so that a buffer of none is no input of it.)
HexByte(hex, odd, i) ==
    IF odd THEN (IF i = 1 THEN 0 ELSE Upper(hex[2 * i - 2])) * 16 + Upper(hex[2 * i - 1])
    ELSE Upper(hex[2 * i - 1]) * 16 + Upper(hex[2 * i])
DecodeHex(hex, room) ==
    LET odd    == Len(hex) % 2 = 1
        length == IF (Len(hex) + 1) \div 2 < room THEN (Len(hex) + 1) \div 2 ELSE room
        read   == SubSeq(hex, 1, 2 * length - (IF odd THEN 1 ELSE 0))
    IN  IF \A i \in DOMAIN read : IsDigit(read[i]) THEN [i \in 1 .. length |-> HexByte(hex, odd, i)] ELSE Refused
DecodeInto16(text, room) == DecodeHex(Hex(text), room)
Decode16(text) == DecodeInto16(text, Len(text))

Letter16(d, lowercase) == IF lowercase /\ d > 9 THEN d + 16 ELSE d
Encode16(bytes, lowercase) ==
    FlattenSeq([i \in DOMAIN bytes |-> <<Letter16(bytes[i] \div 16, lowercase), Letter16(bytes[i] % 16, lowercase)>>])

-----------------------------------------------------------------------------
(* Base58.                                                                 *)

\* TBigInteger::ToUnsignedByteArray, turned round: none for zero.
RECURSIVE BytesOf(_)
BytesOf(n) == IF n = 0 THEN <<>> ELSE Append(BytesOf(n \div ByteValues), n % ByteValues)

\* The zeros a sequence begins with.
Leading(s) == Len(SelectSeq([i \in DOMAIN s |-> \A j \in 1 .. i : s[j] = 0], LAMBDA zero : zero))
Zeros(n)   == [i \in 1 .. n |-> 0]

InAlphabet(text) == Bad \notin {text[i] : i \in DOMAIN text}
Decode58(text) ==
    IF InAlphabet(text) THEN Zeros(Leading(text)) \o BytesOf(Positional(text, Radix58)) ELSE Refused

\* DecodeSecure and the Decode into a buffer: the size needed, and the bytes of
\* it there is room for; the Decode into a buffer writes all of them or none.
DecodeSecure(text, room) ==
    LET bytes == Decode58(text)
    IN  [size |-> Len(bytes), bytes |-> SubSeq(bytes, 1, IF Len(bytes) < room THEN Len(bytes) ELSE room)]
DecodeInto58(text, room) ==
    LET bytes == Decode58(text)
    IN  IF Len(bytes) > room THEN [size |-> -1, bytes |-> <<>>] ELSE [size |-> Len(bytes), bytes |-> bytes]

RECURSIVE Letters(_)
Letters(n) == IF n < Radix58 THEN <<n>> ELSE Append(Letters(n \div Radix58), n % Radix58)
\* TEncode: the number's letters, zero has one, after one for each zero byte.
Encode58(bytes) ==
    IF bytes = <<>> THEN <<>> ELSE Zeros(Leading(bytes)) \o Letters(Positional(bytes, ByteValues))

ChecksumLength == 4
\* What SHA256 of SHA256 begins with: it changes with any byte.
Checksum(bytes) ==
    [i \in 1 .. ChecksumLength |->
        (FoldLeft(LAMBDA n, j : n + (bytes[j] + 1) * (i + 2 * j), i + 1, [j \in DOMAIN bytes |-> j])) % ByteValues]

CheckEncode(bytes) == IF bytes = <<>> THEN <<>> ELSE Encode58(bytes \o Checksum(bytes))

\* A text the two check readers accept: <<its bytes>>.
Checked(bytes) ==
    LET length == Len(bytes) - ChecksumLength
    IN  IF length < 0 THEN Refused
        ELSE IF SubSeq(bytes, length + 1, Len(bytes)) # Checksum(SubSeq(bytes, 1, length)) THEN Refused
        ELSE <<SubSeq(bytes, 1, length)>>
CheckDecode(text) == Checked(Decode58(text))
\* With a buffer for `room` bytes and the checksum; a longer text is refused.
CheckDecodeSecure(text, room) ==
    LET decoded == DecodeSecure(text, room + ChecksumLength)
    IN  IF decoded.size > room + ChecksumLength THEN Refused ELSE Checked(decoded.bytes)

-----------------------------------------------------------------------------
(* Base64: digits 0 to 63 and the padding.                                 *)

Pad == 64
RequiredCharacters64(numBytes) == ((numBytes + 2) \div 3) * 4

\* Four characters, their padding counted as zeros: the bytes there are, or none.
DecodeTriByte(four) ==
    LET padding == Len(SelectSeq(four, LAMBDA c : c = Pad))
        triByte == Positional([i \in 1 .. 4 |-> IF four[i] = Pad THEN 0 ELSE four[i]], 64)
    IN  IF InAlphabet(four)
        THEN SubSeq(<<triByte \div 65536, (triByte \div 256) % 256, triByte % 256>>, 1, 3 - padding)
        ELSE Refused

Paddings(text) == Len(SelectSeq(text, LAMBDA c : c = Pad))
Fours(text) == [i \in 1 .. Len(text) \div 4 |-> SubSeq(text, 4 * i - 3, 4 * i)]
Decode64(text) ==
    LET parts == [i \in DOMAIN Fours(text) |-> DecodeTriByte(Fours(text)[i])]
    IN  IF /\ text # <<>> /\ Len(text) % 4 = 0
           /\ Paddings(text) <= 2
           /\ \A i \in DOMAIN text : text[i] = Pad => i > Len(text) - Paddings(text)
           /\ \A i \in DOMAIN parts : parts[i] # Refused
        THEN FlattenSeq(parts) ELSE Refused

At(bytes, i) == IF i \in DOMAIN bytes THEN bytes[i] ELSE 0
TriByte(bytes, i) == At(bytes, i) * 65536 + At(bytes, i + 1) * 256 + At(bytes, i + 2)
FourOf(triByte) == <<triByte \div 262144, (triByte \div 4096) % 64, (triByte \div 64) % 64, triByte % 64>>
\* Mutant: as many as there are bytes in the last group.
PaddingOfTheRest(length) == length % 3
Padding(length) == (3 - ((length + 2) % 3)) - 1
Encode64(bytes) ==
    LET letters == FlattenSeq([i \in 1 .. RequiredCharacters64(Len(bytes)) \div 4 |-> FourOf(TriByte(bytes, 3 * i - 2))])
    IN  [i \in DOMAIN letters |-> IF i > Len(letters) - Padding(Len(bytes)) THEN Pad ELSE letters[i]]

-----------------------------------------------------------------------------
(* What the three promise.                                                 *)

\* What bytes are written as is read as them, whatever the case and the prefix;
\* without its first letter, as the same bytes less the high half of the first.
HexIsExact(bytes, lowercase, text) ==
    /\ Decode16(text) = bytes /\ Decode16(<<0, X>> \o text) = bytes
    /\ IsValid16(text) /\ Len(text) = 2 * Len(bytes)
    /\ Len(text) > 2 => Decode16(Tail(text)) = [bytes EXCEPT ![1] = @ % 16]
\* A text has bytes exactly if it is valid; a buffer gets the first of them, and
\* they are written as the text once more.
HexTextIsRead(text, bytes) ==
    /\ IsValid16(text) <=> bytes # Refused
    /\ bytes # Refused =>
         /\ \A room \in 1 .. Len(bytes) : DecodeInto16(text, room) = SubSeq(bytes, 1, room)
         /\ Positional([i \in DOMAIN Hex(text) |-> Upper(Hex(text)[i])], 16) = Positional(bytes, 256)

\* Bytes come back from Base58, except that a row of zeros has one more (its
\* number is written as a letter too); from the checked form all do, nothing
\* shorter than the checksum and no altered letter is accepted, and a reader
\* with room accepts what the other does, and without it nothing.
RoundTrip58(bytes) == IF bytes # <<>> /\ Leading(bytes) = Len(bytes) THEN Append(bytes, 0) ELSE bytes
Base58IsExact(bytes, text, checked) ==
    /\ Decode58(text) = RoundTrip58(bytes)
    /\ bytes # <<>> => CheckDecode(checked) = <<bytes>>
    /\ \A room \in 0 .. Len(bytes) + 1 :
         /\ CheckDecodeSecure(checked, room) = IF bytes # <<>> /\ Len(bytes) <= room THEN <<bytes>> ELSE Refused
         /\ LET secure == DecodeSecure(text, room) into == DecodeInto58(text, room) all == RoundTrip58(bytes) IN
            /\ secure.size = Len(all) /\ IsPrefix(secure.bytes, all)
            /\ into = IF Len(all) <= room THEN [size |-> Len(all), bytes |-> all] ELSE [size |-> -1, bytes |-> <<>>]
    /\ \A i \in DOMAIN checked, c \in {Bad, 0, Radix58 - 1} :
         c # checked[i] => CheckDecode([checked EXCEPT ![i] = c]) # <<bytes>>
Base58TextIsRead(text, bytes) ==
    /\ InAlphabet(text) /\ Leading(text) < Len(text) => Encode58(bytes) = text
    /\ ~InAlphabet(text) => bytes = Refused
    /\ CheckDecode(text) # Refused => Len(bytes) >= ChecksumLength /\ CheckEncode(CheckDecode(text)[1]) \in {text, <<>>}

Base64IsExact(bytes, text) ==
    /\ Len(text) = RequiredCharacters64(Len(bytes))
    /\ Decode64(text) = bytes
\* Only whole groups of letters with at most two paddings at their end are read,
\* as a number of as many bytes; what is written of them is the text, but for the
\* bits before a padding, which are not looked at.
Base64TextIsRead(text, bytes) ==
    LET letters == SelectSeq(text, LAMBDA c : c # Pad) IN
    /\ bytes # Refused <=> /\ text # <<>> /\ Len(text) % 4 = 0 /\ InAlphabet(text)
                           /\ Len(text) - Len(letters) <= 2 /\ IsPrefix(letters, text)
    /\ bytes # Refused =>
         /\ Len(bytes) = (6 * Len(letters)) \div 8
         /\ LET again == Encode64(bytes) last == Len(letters) drop == 4 ^ (Len(text) - last) IN
            /\ \A i \in DOMAIN text : i # last => again[i] = text[i]
            /\ again[last] = (text[last] \div drop) * drop

=============================================================================

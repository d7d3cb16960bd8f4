----------------------------- MODULE VmObjects -----------------------------
(***************************************************************************)
(* Values of the script VM and their bytes (include/VM/VMObject.h,         *)
(* Utils/BinaryWriter.h, Utils/BinaryReader.h).                            *)
(*                                                                         *)
(* A byte has ByteValues values, a hash HashLength bytes and an address    *)
(* AddressLength, two more as in the code. A text is its bytes: those      *)
(* below Lead are a character each, three stand for other characters by    *)
(* their halves (see Utf16). Throws: PHANTASMA_EXCEPTION raises; what a    *)
(* reader answers after an error is not looked at, so both builds fail.    *)
(***************************************************************************)
EXTENDS Integers, Sequences, SequencesExt, FiniteSets

CONSTANT Throws

ByteValues    == 64
HashLength    == 3
AddressLength == 5

VMType == <<"Struct", "Bytes", "Number", "String", "Timestamp", "Bool", "Enum", "Object">>
TypeCode(type) == IF type = "None" THEN 0 ELSE CHOOSE i \in DOMAIN VMType : VMType[i] = type

Obj(type, data) == [type |-> type, data |-> data]
Null == Obj("None", <<>>)
Refused == Obj("Refused", <<>>)
Num(n) == Obj("Number", n)

-----------------------------------------------------------------------------
(* BinaryWriter.                                                           *)

Little(n, width) == [i \in 1 .. width |-> (n \div ByteValues ^ (i - 1)) % ByteValues]
Value(bytes) == FoldRight(LAMBDA byte, n : byte + ByteValues * n, bytes, 0)
UInt32Values == ByteValues ^ 4

WriteVarInt(n) ==
    CASE n < 0 -> <<>>
      [] n \in 0 .. ByteValues - 4 -> <<n>>
      [] n \in ByteValues - 3 .. ByteValues ^ 2 - 1 -> <<ByteValues - 3>> \o Little(n, 2)
      [] n >= ByteValues ^ 2 -> <<ByteValues - 2>> \o Little(n, 4)
WriteByteArray(bytes) == WriteVarInt(Len(bytes)) \o bytes

\* Numbers in two's complement (BigInteger.tla has their words).
Width(n) == CHOOSE k \in 0 .. 4 : n < ByteValues ^ k /\ (k = 0 \/ n >= ByteValues ^ (k - 1))
ToUnsignedByteArray(n) == Little(n, Width(n))
IsHigh(bytes) == Last(bytes) >= ByteValues \div 2
RECURSIVE Incremented(_)
Incremented(bytes) ==
    CASE bytes = <<>> -> <<1>>
      [] bytes # <<>> /\ Head(bytes) = ByteValues - 1 -> <<0>> \o Incremented(Tail(bytes))
      [] OTHER -> <<Head(bytes) + 1>> \o Tail(bytes)
Complement(bytes) == Incremented([i \in DOMAIN bytes |-> ByteValues - 1 - bytes[i]])
Guarded(bytes, guard, needed) == IF needed THEN Append(bytes, guard) ELSE bytes
Negative(bytes) == Guarded(bytes, ByteValues - 1, ~IsHigh(bytes))
ToSignedByteArray(n) ==
    LET negative == Negative(Complement(ToUnsignedByteArray(-n)))
    IN  CASE n = 0 -> <<0>>
          [] n > 0 -> Append(ToUnsignedByteArray(n), 0)
          [] n < 0 -> IF Len(negative) = 1 THEN negative \o <<ByteValues - 1, ByteValues - 1>>
                      ELSE Guarded(negative, ByteValues - 1, Last(negative) = ByteValues - 1)
FromSignedArray(bytes) ==
    IF bytes # <<>> /\ IsHigh(bytes) THEN Value(bytes) - ByteValues ^ Len(bytes) ELSE Value(bytes)
WriteBigInteger(n) == <<Len(ToSignedByteArray(n)) % ByteValues>> \o ToSignedByteArray(n)

-----------------------------------------------------------------------------
(* BinaryReader: what is read at a place, and the place after it; 0 after  *)
(* an error.                                                               *)

Got(what, at) == [got |-> what, at |-> at]
Failed == Got(<<>>, 0)
Read(bytes, at, n) ==
    IF at > 0 /\ at + n - 1 <= Len(bytes) THEN Got(SubSeq(bytes, at, at + n - 1), at + n) ELSE Failed

\* A word of eight bytes as a length: negative, beyond any stream, or small.
Beyond == UInt32Values
Word(bytes) ==
    CASE Len(bytes) < 8 -> Value(bytes)
      [] Len(bytes) = 8 /\ IsHigh(bytes) -> -1
      [] OTHER -> IF \E i \in 5 .. 8 : bytes[i] # 0 THEN Beyond ELSE Value(SubSeq(bytes, 1, 4))
WordAfter(header) == CASE header = ByteValues - 3 -> 2 [] header = ByteValues - 2 -> 4 [] header = ByteValues - 1 -> 8 [] OTHER -> 0
WordRead(word) == IF word.at = 0 THEN Failed ELSE Got(Word(word.got), word.at)
ReadVarInt(bytes, at) ==
    LET header == Read(bytes, at, 1)
    IN  CASE header.at = 0 -> Failed
          [] header.at > 0 /\ WordAfter(header.got[1]) = 0 -> Got(header.got[1], header.at)
          [] OTHER -> WordRead(Read(bytes, header.at, WordAfter(header.got[1])))

ArrayRead(bytes, length) ==
    IF length.at = 0 \/ length.got < 0 \/ length.got > Len(bytes) - length.at + 1 THEN Failed
    ELSE Read(bytes, length.at, length.got)
ReadByteArray(bytes, at) == ArrayRead(bytes, ReadVarInt(bytes, at))

\* Into a buffer of so many bytes: what is short of them leaves zeros.
BufferRead(length, read, size) ==
    IF length.at = 0 \/ length.got \notin 0 .. size \/ read.at = 0 THEN Failed
    ELSE Got(read.got \o [i \in 1 .. size - Len(read.got) |-> 0], read.at)
ReadBuffer(bytes, at, size) == BufferRead(ReadVarInt(bytes, at), ReadByteArray(bytes, at), size)
\* Of exactly so many.
ReadExactly(bytes, at, size) == IF ReadVarInt(bytes, at).got = size THEN ReadBuffer(bytes, at, size) ELSE Failed

\* FromUTF8Bytes: a C string ends at its first zero.
CText(bytes) == SubSeq(bytes, 1, SelectInSeq(Append(bytes, 0), LAMBDA c : c = 0) - 1)
ReadVarString(bytes, at) ==
    LET text == ReadByteArray(bytes, at) IN IF text.at = 0 THEN Failed ELSE Got(CText(text.got), text.at)
ReadBigInteger(bytes, at) ==
    LET size   == Read(bytes, at, 1)
        number == Read(bytes, size.at, IF size.at = 0 THEN 0 ELSE size.got[1])
    IN  IF number.at = 0 THEN Failed ELSE Got(FromSignedArray(number.got), number.at)

-----------------------------------------------------------------------------
(* VMObject: its bytes. The data of an object is an address or a hash.     *)

AddressObj(bytes) == Obj("Object", [is |-> "Address", bytes |-> bytes])
HashObj(bytes)    == Obj("Object", [is |-> "Hash", bytes |-> bytes])
Signed32(n) == ((n + UInt32Values \div 2) % UInt32Values) - UInt32Values \div 2

RECURSIVE Image(_)
Pairs(children) == FlattenSeq([i \in DOMAIN children |-> Image(children[i][1]) \o Image(children[i][2])])
Image(o) == <<TypeCode(o.type)>> \o
    CASE o.type = "Bool"      -> <<IF o.data THEN 1 ELSE 0>>
      [] o.type = "Object"    -> WriteByteArray(WriteByteArray(o.data.bytes))
      [] o.type \in {"Bytes", "String"} -> WriteByteArray(o.data)
      [] o.type = "Number"    -> WriteBigInteger(o.data)
      [] o.type = "Timestamp" -> Little(o.data, 4)
      [] o.type = "Struct"    -> WriteVarInt(Len(o.data)) \o Pairs(o.data)
      [] o.type = "Enum"      -> WriteVarInt(o.data)
      [] o.type = "None"      -> <<>>

\* WriteVarInt raises for a negative Enum, or leaves it out.
RECURSIVE HasNegativeEnum(_)
HasNegativeEnum(o) ==
    \/ o.type = "Enum" /\ o.data < 0
    \/ o.type = "Struct" /\ \E i \in DOMAIN o.data, k \in 1 .. 2 : HasNegativeEnum(o.data[i][k])
SerializeData(o) == IF Throws /\ HasNegativeEnum(o) THEN <<>> ELSE Image(o)

\* An object's payload of the length of an address and its prefix: one, or bytes;
\* the failed reading of one raises.
ObjectOf(payload) ==
    LET address == ReadExactly(payload, 1, AddressLength)
    IN  CASE Len(payload) # AddressLength + 1 -> Obj("Bytes", payload)
          [] Len(payload) = AddressLength + 1 /\ address.at # 0 -> AddressObj(address.got)
          [] OTHER -> IF Throws THEN Refused ELSE Obj("Bytes", payload)

\* known: what DeserializeData answers when no error is pending. The answers for
\* the children of a struct are not looked at.
Found(o, at) == [object |-> o, at |-> IF o = Refused THEN 0 ELSE at, known |-> TRUE]
FoundAs(type, read) == Found(Obj(type, read.got), read.at)
RECURSIVE DeserializeData(_, _), Children(_, _, _)
PairOf(key, value) == IF value.at = 0 THEN Failed ELSE Got(<<<<key.object, value.object>>>>, value.at)
PairAfter(bytes, key) == IF key.at = 0 THEN Failed ELSE PairOf(key, DeserializeData(bytes, key.at))
Joined(first, rest) == IF rest.at = 0 THEN Failed ELSE Got(first.got \o rest.got, rest.at)
ChildrenAfter(bytes, pair, count) == IF pair.at = 0 THEN Failed ELSE Joined(pair, Children(bytes, pair.at, count - 1))
\* At the first error the answer is settled, and given at once. (Without exceptions
\* the code's loop goes on for as many children as are announced, or for a number that
\* was never set if the error is in the count, and answers false after them.)
Children(bytes, at, count) ==
    IF count <= 0 THEN Got(<<>>, at) ELSE ChildrenAfter(bytes, PairAfter(bytes, DeserializeData(bytes, at)), count)
StructAt(bytes, count) == IF count.at = 0 THEN Failed ELSE Children(bytes, count.at, count.got)
ObjectAt(payload) == IF payload.at = 0 THEN Found(Null, 0) ELSE Found(ObjectOf(payload.got), payload.at)
MappedAs(type, read, data) == IF read.at = 0 THEN Found(Null, 0) ELSE Found(Obj(type, data), read.at)
Of(bytes, type, at) ==
    LET byte == Read(bytes, at, 1)
        word == Read(bytes, at, 4)
        enum == ReadVarInt(bytes, at)
    IN  CASE type = 0 -> Found(Null, at)
          [] type = 1 -> FoundAs("Struct", StructAt(bytes, ReadVarInt(bytes, at)))
          [] type = 2 -> FoundAs("Bytes", ReadByteArray(bytes, at))
          [] type = 3 -> FoundAs("Number", ReadBigInteger(bytes, at))
          [] type = 4 -> FoundAs("String", ReadVarString(bytes, at))
          [] type = 5 -> MappedAs("Timestamp", word, Value(word.got))
          [] type = 6 -> MappedAs("Bool", byte, byte.got # <<0>>)
          [] type = 7 -> MappedAs("Enum", enum, IF enum.at = 0 THEN 0 ELSE Signed32(enum.got))
          [] type = 8 -> ObjectAt(ReadByteArray(bytes, at))
          [] OTHER -> [object |-> Null, at |-> at, known |-> FALSE]
DeserializeData(bytes, at) ==
    LET type == Read(bytes, at, 1) IN IF type.at = 0 THEN Found(Null, 0) ELSE Of(bytes, type.got[1], type.at)
Accepted(found) == found.at # 0 /\ found.known

\* SetValue: the payload of a LOAD.
First4(bytes) == SubSeq(bytes, 1, IF Len(bytes) < 4 THEN Len(bytes) ELSE 4)
BlobOf(found) == IF Accepted(found) THEN found.object ELSE Refused
SetValue(bytes, type) ==
    CASE type \in {"Bytes", "String"} -> Obj(type, bytes)
      [] type = "Number"    -> Num(FromSignedArray(bytes))
      [] type = "Enum"      -> Obj(type, Signed32(Value(First4(bytes))))
      [] type = "Timestamp" -> Obj(type, Value(First4(bytes)))
      [] type = "Bool"      -> Obj(type, bytes # <<>> /\ bytes[1] # 0)
      [] type \in {"None", "Struct", "Object"} ->
           CASE Len(bytes) = AddressLength -> [AddressObj(bytes) EXCEPT !.type = type]
             [] Len(bytes) = HashLength    -> [HashObj(bytes) EXCEPT !.type = type]
             [] OTHER -> BlobOf(DeserializeData(bytes, 1))

-----------------------------------------------------------------------------
(* Structs.                                                                *)

\* operator==: a struct's pairs in any order, each looked up in the other.
RECURSIVE Same(_, _)
FirstOf(children, key) == SelectInSeq(children, LAMBDA pair : Same(pair[1], key))
Same(a, b) ==
    /\ a.type = b.type
    /\ CASE a.type = "None"   -> TRUE
         [] a.type = "Object" -> a.data.is = b.data.is /\ a.data.bytes = b.data.bytes
         [] a.type = "Struct" ->
              /\ Len(a.data) = Len(b.data)
              /\ \A i \in DOMAIN a.data : LET j == FirstOf(b.data, a.data[i][1]) IN j # 0 /\ Same(a.data[i][2], b.data[j][2])
         [] OTHER -> a.data = b.data

GetKey(o, key) ==
    CASE o.type # "Struct" -> Refused
      [] o.type = "Struct" /\ FirstOf(o.data, key) = 0 -> Null
      [] OTHER -> o.data[FirstOf(o.data, key)][2]
SetIn(children, key, value) ==
    LET i == FirstOf(children, key)
    IN  IF i = 0 THEN Append(children, <<key, value>>) ELSE [children EXCEPT ![i][2] = value]
SetKey(o, key, value) ==
    CASE Throws /\ key.type = "None"    -> Refused
      [] o.type = "None"                -> Obj("Struct", SetIn(<<>>, key, value))
      [] o.type = "Struct"              -> Obj("Struct", SetIn(o.data, key, value))
      [] OTHER -> IF Throws THEN Refused ELSE o

\* The type of the elements, None for what is no array. A first element of type
\* None leaves the type open.
GetArrayType(o) ==
    LET places == [i \in DOMAIN o.data |-> FirstOf(o.data, Num(i - 1))]
        types  == [i \in DOMAIN places |-> o.data[places[i]][2].type]
        from   == SelectInSeq(types, LAMBDA type : type # "None")
    IN  IF /\ o.type = "Struct"
           /\ \A i \in DOMAIN places : places[i] # 0
           /\ from # 0
           /\ \A i \in from .. Len(types) : types[i] = types[from]
        THEN types[from] ELSE "None"

-----------------------------------------------------------------------------
(* Casts: the values a cast may answer, none if it refuses (it raises, or  *)
(* answers an empty value). Texts of numbers are of digits.                *)

Digit(d) == 16 + d
Minus    == 13
Plus     == 11
Lead     == 32       \* of what is more than a byte
PairLead == 48
HighUnits == 64 .. 67
LowUnits  == 68 .. 71
Units16   == ByteValues * 8

\* The characters of several bytes are two, or three with two units in UTF-16.
RECURSIVE Utf16(_)
Follow(bytes, n) == Len(bytes) > n /\ \A i \in 2 .. n + 1 : bytes[i] >= Lead
Unit(bytes)     == 32 * (bytes[1] - PairLead) + bytes[2] - Lead
UnitPair(bytes) == <<64 + bytes[2] - Lead, 68 + bytes[3] - Lead>>
Before(units, rest) == IF rest = {} THEN {} ELSE {units \o CHOOSE r \in rest : TRUE}
Rest(bytes, n) == Utf16(SubSeq(bytes, n + 1, Len(bytes)))
Utf16(bytes) ==
    CASE bytes = <<>> -> {<<>>}
      [] bytes # <<>> /\ bytes[1] < Lead -> Before(<<bytes[1]>>, Rest(bytes, 1))
      [] bytes # <<>> /\ bytes[1] > PairLead /\ Follow(bytes, 1) /\ Unit(bytes) \notin HighUnits \cup LowUnits ->
           Before(<<Unit(bytes)>>, Rest(bytes, 2))
      [] bytes # <<>> /\ bytes[1] = PairLead /\ Follow(bytes, 2) /\ UnitPair(bytes) \in HighUnits \X LowUnits ->
           Before(UnitPair(bytes), Rest(bytes, 3))
      [] OTHER -> {}
RECURSIVE Utf8(_)
Left(units, n) == Utf8(SubSeq(units, n + 1, Len(units)))
Utf8(units) ==
    CASE units = <<>> -> {<<>>}
      [] Len(units) > 1 /\ units[1] \in HighUnits /\ units[2] \in LowUnits ->
           Before(<<PairLead, Lead + units[1] - 64, Lead + units[2] - 68>>, Left(units, 2))
      [] units # <<>> /\ units[1] < Lead -> Before(<<units[1]>>, Left(units, 1))
      [] units # <<>> /\ units[1] >= Lead /\ units[1] \notin HighUnits \cup LowUnits ->
           Before(<<PairLead + units[1] \div 32, Lead + (units[1] % 32)>>, Left(units, 1))
      [] OTHER -> {}

RECURSIVE Digits(_)
Digits(n) == (IF n < 10 THEN <<>> ELSE Digits(n \div 10)) \o <<Digit(n % 10)>>
Decimal(n) == IF n < 0 THEN <<Minus>> \o Digits(-n) ELSE Digits(n)
\* TBigInteger(text, 10): BigInteger.tla has its other answers.
ParseDigits(text, sign) ==
    IF text = <<>> \/ \E i \in DOMAIN text : text[i] \notin Digit(0) .. Digit(9) THEN {}
    ELSE {sign * FoldLeft(LAMBDA n, c : 10 * n + c - Digit(0), 0, text)}
ParseNumber(text) ==
    CASE text = <<>> -> {0}
      [] text # <<>> /\ text[1] \in {Minus, Plus} -> ParseDigits(Tail(text), IF text[1] = Minus THEN -1 ELSE 1)
      [] OTHER -> ParseDigits(text, 1)

AsNumber(o) ==
    CASE o.type = "None" -> {0}
      [] o.type \in {"Number", "Timestamp", "Enum"} -> {o.data}
      [] o.type = "Bool"   -> {IF o.data THEN 1 ELSE 0}
      [] o.type = "String" -> ParseNumber(o.data)
      [] o.type = "Bytes"  -> {FromSignedArray(o.data)}
      [] o.type = "Object" -> IF o.data.is = "Hash" THEN {Value(o.data.bytes)} ELSE {}
      [] OTHER -> {}
AsBool(o) ==
    CASE o.type = "Bytes" -> IF Len(o.data) = 1 THEN {o.data[1] # 0} ELSE {}
      [] o.type = "Bool"   -> {o.data}
      [] o.type = "Number" -> {o.data # 0}
      [] OTHER -> {}

\* The texts of an object and of a struct in Base64 are a mark and the bytes here
\* (TextCodes.tla); those of a Bool two letters.
Coded(mark, bytes) == <<mark>> \o bytes
TextOfUnits(text) == {CText(t) : t \in text}
Elements(o) == [i \in DOMAIN o.data |-> GetKey(o, Num(i - 1))]
NumberIn(o) == CHOOSE n \in AsNumber(o) : TRUE
TextOfArray(elements) == TextOfUnits(Utf8([i \in DOMAIN elements |-> NumberIn(elements[i]) % Units16]))
Marked(o) == CASE o.type = "Struct" -> {Coded(31, Image(o))}
               [] o.type = "Object" -> {Coded(IF o.data.is = "Hash" THEN 29 ELSE 30, o.data.bytes)}
AsString(o) ==
    CASE o.type = "None" -> {<<>>}
      [] o.type \in {"String", "Bytes"} -> {o.data}
      [] o.type \in {"Number", "Timestamp", "Enum"} -> {Decimal(o.data)}
      [] o.type = "Bool" -> {IF o.data THEN <<27>> ELSE <<28>>}
      [] o.type = "Struct" /\ GetArrayType(o) = "Number" -> TextOfArray(Elements(o))
      [] OTHER -> Marked(o)

AsByteArray(o) ==
    CASE o.type \in {"Bytes", "String"} -> {o.data}
      [] o.type = "Number" -> {ToSignedByteArray(o.data)}
      [] o.type = "Bool"   -> {<<IF o.data THEN 1 ELSE 0>>}
      [] o.type \in {"Timestamp", "Enum"} -> {Little(o.data % UInt32Values, 4)}
      [] o.type = "Struct" -> IF SerializeData(o) = <<>> THEN {} ELSE {SerializeData(o)}
      [] o.type = "Object" -> {o.data.bytes}
      [] o.type = "None"   -> {}
\* A hash of one byte more is copied with the length of an address, and refused.
AsHash(o) ==
    CASE o.type = "Object" /\ o.data.is = "Hash" -> {o.data.bytes}
      [] o.type = "Bytes" /\ Len(o.data) = HashLength -> {o.data}
      [] OTHER -> {}
AsAddress(o) ==
    CASE o.type = "Object" /\ o.data.is = "Address" -> {o.data.bytes}
      [] o.type = "Bytes" /\ Len(o.data) = AddressLength -> {o.data}
      [] o.type = "Bytes" /\ Len(o.data) = AddressLength + 1 -> {Tail(o.data)}
      [] OTHER -> {}

UnitStruct(units) == IF units = <<>> THEN Null ELSE Obj("Struct", [i \in DOMAIN units |-> <<Num(i - 1), Num(units[i])>>])
CastTo(o, type) ==
    CASE o.type = type -> {o}
      [] type = "None" -> {Null}
      [] type = "String"    -> {Obj(type, text) : text \in AsString(o)}
      [] type = "Bool"      -> {Obj(type, b) : b \in AsBool(o)}
      [] type = "Number"    -> {Obj(type, n) : n \in AsNumber(o)}
      [] type = "Bytes"     -> {Obj(type, bytes) : bytes \in AsByteArray(o)}
      [] type = "Struct" /\ o.type = "String" -> {UnitStruct(units) : units \in Utf16(o.data)}
      [] type = "Struct" /\ o.type = "Object" -> {o}
      [] OTHER -> {}
=============================================================================

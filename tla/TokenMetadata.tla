--------------------------- MODULE TokenMetadata ---------------------------
(***************************************************************************)
(* The metadata of tokens (src/include/Carbon/Contracts/TokenSchemas.h):   *)
(* what a caller gives for a field, how it is made the variable that the   *)
(* schema asks for, and which schemas a token may have.                    *)
(*                                                                         *)
(* A value the caller gives is [kind, value]. A byte array is an image of  *)
(* at most one word; a text is a string; the integers of 8, 16, 32, 64 and *)
(* 256 bits have 2, 3, 4, 5 and 6. An answer is the sequence of the result *)
(* alone, and empty where the code refuses. Throws: the build raises on    *)
(* PHANTASMA_EXCEPTION; in the default build the macro does nothing.       *)
(***************************************************************************)
EXTENDS VmData

CONSTANT Throws

Refused == <<>>
Accepted(x) == <<x>>
AllAccepted(answers) == \A i \in DOMAIN answers : answers[i] # Refused
Results(answers) == [i \in DOMAIN answers |-> answers[i][1]]

MetadataValue(kind, x) == [kind |-> kind, value |-> x]

\* tolower, of the names that occur.
Lowered == ("A" :> "a") @@ ("Name" :> "name") @@ ("ROM" :> "rom")
Lower(name) == IF name \in DOMAIN Lowered THEN Lowered[name] ELSE name
EqualsIgnoreCase(a, b) == Lower(a) = Lower(b)

Exact(fields, name) ==
    Found(fields, name, SelectInSeq(fields, LAMBDA f : f.name = name))
FirstIgnoringCase(fields, name) ==
    SelectInSeq(fields, LAMBDA f : EqualsIgnoreCase(f.name, name))

-----------------------------------------------------------------------------
(* Texts and bytes.                                                        *)

Blank(text) == text \in {"", " "}

\* What is left of a text without the blanks around it and a prefix "0x": how
\* many characters, and the bytes Base16::Decode makes of them, if it does (it
\* takes a prefix of its own away first).
Hex(length, bytes) == [length |-> length, bytes |-> bytes]
HexTexts == ("0x" :> Hex(0, <<>>)) @@ ("abcd" :> Hex(4, <<<<Word(2, Val("abcd"))>>>>))
    @@ (" 0xabcd " :> Hex(4, <<<<Word(2, Val("abcd"))>>>>)) @@ ("0xabc" :> Hex(3, <<>>))
    @@ ("0x0xab" :> Hex(4, <<<<Word(1, Val("ab"))>>>>))
    @@ ("0xsixteen" :> Hex(32, <<<<Word(16, Val("sixteen"))>>>>))
HexOf(text) == IF text \in DOMAIN HexTexts THEN HexTexts[text] ELSE Hex(Len(text), <<>>)

\* Where Base16::Decode does not raise, what it cannot read is no bytes.
DecodeHex(text) ==
    IF Blank(text) THEN Refused
    ELSE LET hex == HexOf(text)
         IN  CASE hex.length = 0     -> Accepted(<<>>)
               [] hex.length % 2 = 1 -> Refused
               [] hex.length > 0 /\ hex.length % 2 = 0 ->
                    IF hex.bytes = <<>> /\ ~Throws THEN Accepted(<<>>) ELSE hex.bytes

EnsureBytes(v) ==
    CASE v.kind = "Bytes"  -> Accepted(v.value)
      [] v.kind = "String" -> DecodeHex(v.value)
      [] OTHER             -> Refused

OwnKind == (Bytes16 :> "Bytes16") @@ (Bytes32 :> "Bytes32") @@ (Bytes64 :> "Bytes64")
EnsureFixedBytes(type, bytes) ==
    IF bytes # Refused /\ Size(bytes[1]) = FixedWidth[type]
    THEN Accepted(bytes[1][1][2]) ELSE Refused
EnsureBytesOf(type, v) ==
    IF v.kind = OwnKind[type] THEN Accepted(v.value) ELSE EnsureFixedBytes(type, EnsureBytes(v))

\* The text as it is given, blanks and all.
EnsureNonEmptyString(v) ==
    IF v.kind = "String" /\ ~Blank(v.value) THEN Accepted(v.value) ELSE Refused

-----------------------------------------------------------------------------
(* Integers.                                                               *)

Bits == (Int8 :> 2) @@ (Int16 :> 3) @@ (Int32 :> 4) @@ (Int64 :> 5) @@ (Int256 :> 6)
Low(type, n) == n % 2 ^ Bits[type]

EnsureIntegerInRange(type, v) ==
    IF \/ v.kind = "Int64" /\ v.value \in -(2 ^ (Bits[type] - 1)) .. 2 ^ (Bits[type] - 1) - 1
       \/ v.kind = "UInt64" /\ v.value < 2 ^ Bits[type]
    THEN Accepted(Num(Low(type, v.value))) ELSE Refused

\* The bytes that are written of a wide integer are WideInts.tla's: none of zero.
Unsigned(n) == IF n = 0 THEN <<0, "">> ELSE <<8, Low(Int256, n)>>
EnsureWide(v) ==
    IF v.kind \in {"Int256", "UInt256", "Int64", "UInt64"} THEN Accepted(Unsigned(v.value))
    ELSE Refused

-----------------------------------------------------------------------------
(* The variable a schema asks for. Of a field only its type and structure  *)
(* are looked at.                                                          *)

RECURSIVE NormalizeMetadataValue(_, _, _)

\* The field's value under exactly its name, or nothing: a name in another
\* case is refused as an absent one is.
NormalizeField(schema, found) ==
    IF found = <<>> THEN Refused
    ELSE NormalizeMetadataValue(schema.type, schema.structure, found[1].value)
NormalizeEach(schema, given) ==
    [i \in DOMAIN schema.fields |->
        NormalizeField(schema.fields[i], Exact(given, schema.fields[i].name))]

AllKnown(schema, given) ==
    \A i \in DOMAIN given : FirstIgnoringCase(schema.fields, given[i].name) # 0

\* An array of structs {name, value} is taken for a struct.
IsItem(v) ==
    /\ v.kind = "Struct"
    /\ Exact(v.value, "name") # <<>> /\ Exact(v.value, "value") # <<>>
    /\ Exact(v.value, "name")[1].value.kind = "String"
FieldOf(item) == Field(Exact(item, "name")[1].value.value, Exact(item, "value")[1].value)
Provided(v) ==
    CASE v.kind = "Struct" -> Accepted(v.value)
      [] v.kind = "Array" /\ (\A i \in DOMAIN v.value : IsItem(v.value[i])) ->
           Accepted([i \in DOMAIN v.value |-> FieldOf(v.value[i].value)])
      [] OTHER -> Refused

StructOfAll(schema, given, answers) ==
    IF AllAccepted(answers) /\ AllKnown(schema, given)
    THEN Accepted(Sort([i \in DOMAIN answers |-> Field(schema.fields[i].name, answers[i][1])]))
    ELSE Refused
NormalizeStructValue(schema, given) ==
    IF schema.fields = <<>> \/ given = Refused THEN Refused
    ELSE StructOfAll(schema, given[1], NormalizeEach(schema, given[1]))

\* The data of a scalar of the type.
NormalizeScalarValue(type, structure, v) ==
    CASE type = String -> EnsureNonEmptyString(v)
      [] type \in {Int8, Int16, Int32, Int64} -> EnsureIntegerInRange(type, v)
      [] type = Int256 -> EnsureWide(v)
      [] type = Bytes -> EnsureBytes(v)
      [] type \in DOMAIN OwnKind -> EnsureBytesOf(type, v)
      [] type = Struct -> NormalizeStructValue(structure, Provided(v))
      [] OTHER -> Refused

ArrayOfAll(type, structure, answers) ==
    IF type = Dynamic \/ ~AllAccepted(answers) THEN Refused
    ELSE Accepted(IF type = Struct THEN [schema |-> structure, structs |-> Results(answers)]
                  ELSE Results(answers))
NormalizeArrayValue(type, structure, v) ==
    IF v.kind # "Array" THEN Refused
    ELSE ArrayOfAll(type, structure,
             [i \in DOMAIN v.value |-> NormalizeScalarValue(type, structure, v.value[i])])

OfType(type, data) == [i \in DOMAIN data |-> <<type, data[i]>>]
NormalizeMetadataValue(type, structure, v) ==
    OfType(type, IF IsArray(type) THEN NormalizeArrayValue(Element(type), structure, v)
                 ELSE NormalizeScalarValue(type, structure, v))

\* The first field of that name in any case; an absent one is no bytes.
GetOptionalBytesField(metadata, name) ==
    LET i == FirstIgnoringCase(metadata, name)
    IN  IF i = 0 THEN Accepted(<<>>) ELSE EnsureBytes(metadata[i].value)

-----------------------------------------------------------------------------
(* The schemas of a token.                                                 *)

FieldType(name, type) == Typed(name, type, NoSchema)
SeriesDefaultMetadataFields ==
    <<FieldType("_i", Int256), FieldType("mode", Int8), FieldType("rom", Bytes)>>
NftDefaultMetadataFields == <<FieldType("_i", Int256), FieldType("rom", Bytes)>>
StandardMetadataFields ==
    <<FieldType("name", String), FieldType("description", String),
      FieldType("imageURL", String), FieldType("infoURL", String),
      FieldType("royalties", Int32)>>

\* Mutant: the type is not looked at.
ContainsFieldOfAnyType(fields, f) ==
    LET i == FirstIgnoringCase(fields, f.name)
    IN  CASE i = 0 -> "absent"
          [] i # 0 /\ fields[i].name = f.name -> "there"
          [] OTHER -> "wrong"
\* The first field of that name in any case decides: another case and another
\* type are errors, not absences.
ContainsField(fields, f) ==
    LET i == FirstIgnoringCase(fields, f.name)
    IN  CASE i = 0 -> "absent"
          [] i # 0 /\ fields[i].name = f.name /\ fields[i].type = f.type -> "there"
          [] OTHER -> "wrong"
VerifyMandatory(fields, mandatory) ==
    \A i \in DOMAIN mandatory : ContainsField(fields, mandatory[i]) = "there"
VerifyStandardMetadata(first, second) ==
    \A i \in DOMAIN StandardMetadataFields :
        \/ ContainsField(first, StandardMetadataFields[i]) = "there"
        \/ /\ ContainsField(first, StandardMetadataFields[i]) = "absent"
           /\ ContainsField(second, StandardMetadataFields[i]) = "there"
Verify(schemas) ==
    /\ VerifyMandatory(schemas.seriesMetadata.fields, SeriesDefaultMetadataFields)
    /\ VerifyMandatory(schemas.rom.fields, NftDefaultMetadataFields)
    /\ VerifyStandardMetadata(schemas.seriesMetadata.fields, schemas.rom.fields)

\* Each one added to those before it: none empty, none there in any case.
Addable(fields, i) == fields[i].name # "" /\ FirstIgnoringCase(fields, fields[i].name) = i
AddFields(fields) ==
    IF \A i \in DOMAIN fields : Addable(fields, i) THEN Accepted(fields) ELSE Refused

Schemas(series, rom, ram) == [seriesMetadata |-> series, rom |-> rom, ram |-> ram]
Verified(schemas) == IF Verify(schemas) THEN Accepted(schemas) ELSE Refused
\* Extras are allowed in a RAM that names no field.
BuildFromAdded(series, rom, ram) ==
    IF ~AllAccepted(<<series, rom, ram>>) THEN Refused
    ELSE Verified(Schemas(SortSchema(series[1], FALSE), SortSchema(rom[1], FALSE),
                          SortSchema(ram[1], ram[1] = <<>>)))
BuildFromFields(series, rom, ram) ==
    BuildFromAdded(AddFields(SeriesDefaultMetadataFields \o series),
                   AddFields(NftDefaultMetadataFields \o rom), AddFields(ram))

PrepareStandardTokenSchemas(sharedMetadata) ==
    LET unsorted(fields, extras) == [fields |-> fields, extras |-> extras, sorted |-> FALSE]
        standard(here) == IF here THEN StandardMetadataFields ELSE <<>>
    IN  Schemas(unsorted(SeriesDefaultMetadataFields \o standard(sharedMetadata), FALSE),
                unsorted(NftDefaultMetadataFields \o standard(~sharedMetadata), FALSE),
                unsorted(<<>>, TRUE))

Serialize(schemas) ==
    WriteSchema(schemas.seriesMetadata) \o WriteSchema(schemas.rom) \o WriteSchema(schemas.ram)

\* A document is one member for each key it has; a member is whether it is an
\* array, and the entries of it: whether they have a name and a type, both texts.
IsListing(document, key) ==
    /\ key \in DOMAIN document /\ document[key].array
    /\ \A i \in DOMAIN document[key].entries :
         LET entry == document[key].entries[i]
         IN  entry.whole /\ VmTypeFromString(entry.type) # <<>>
Listed(member) ==
    [i \in DOMAIN member.entries |->
        FieldType(member.entries[i].name, VmTypeFromString(member.entries[i].type)[1])]
FromJson(document) ==
    IF \A key \in {"seriesMetadata", "rom", "ram"} : IsListing(document, key)
    THEN BuildFromFields(Listed(document["seriesMetadata"]), Listed(document["rom"]),
                         Listed(document["ram"]))
    ELSE Refused

=============================================================================

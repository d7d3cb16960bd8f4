---------------------------- MODULE TokenImages ----------------------------
(***************************************************************************)
(* Samples of what the builders of TokenBuilders are given, and what is    *)
(* asked of what they make.                                                *)
(***************************************************************************)
EXTENDS TokenBuilders, CarbonImages

S(text) == MetadataValue("String", text)
B(bytes) == MetadataValue("Bytes", bytes)
I(n) == MetadataValue("Int64", n)
U(n) == MetadataValue("UInt64", n)
BlobOf(width) == IF width = 0 THEN <<>> ELSE <<Word(width, Val("blob"))>>

-----------------------------------------------------------------------------
(* The values a caller gives: texts, bytes, integers at the edges of every *)
(* width, arrays of them, and structs in both forms, whole, short of a     *)
(* field, with one more, and with one in another case.                     *)

Seqs(n, Item(_)) == [i \in 1 .. n |-> Item(i)]
Texts_ == <<"", " ", "text", "abcd", " 0xabcd ", "0xabc", "0x", "0x0xab", "0xsixteen">>
Widths_ == <<0, 2, 16, 32, 64>>
Signed_ == <<-16, -9, -8, -5, -4, -3, -2, -1, 0, 1, 2, 3, 4, 7, 8, 15>>
Unsigned_ == <<0, 1, 3, 4, 7, 8, 15, 16, 31>>
Scalars == [i \in DOMAIN Texts_ |-> S(Texts_[i])] \o [i \in DOMAIN Widths_ |-> B(BlobOf(Widths_[i]))]
    \o [i \in DOMAIN Signed_ |-> I(Signed_[i])] \o [i \in DOMAIN Unsigned_ |-> U(Unsigned_[i])]
    \o <<MetadataValue("Int256", -32), MetadataValue("Int256", 0), MetadataValue("UInt256", 63),
         MetadataValue("Bytes16", Val("16")), MetadataValue("Bytes32", Val("32")),
         MetadataValue("Bytes64", Val("64")), MetadataValue("Null", <<>>)>>

Struct_(fields) == MetadataValue("Struct", fields)
Array_(values) == MetadataValue("Array", values)
A_ == Field("a", S("text"))
B_ == Field("b", I(-2))
Item(field) == Struct_(<<Field("value", field.value), Field("name", S(field.name))>>)
Structs == <<Struct_(<<A_, B_>>), Struct_(<<B_, A_>>), Struct_(<<A_>>), Struct_(<<A_, B_, Field("c", I(0))>>),
    Struct_(<<Field("A", S("text")), B_>>), Struct_(<<A_, Field("A", S("abcd")), B_>>),
    Struct_(<<A_, Field("b", I(4))>>), Struct_(<<Field("c", Struct_(<<B_, A_>>))>>),
    Struct_(<<Field("c", Struct_(<<A_>>))>>)>>
Arrays == <<Array_(<<>>), Array_(<<S("abcd"), S("0xsixteen")>>), Array_(<<S("text"), S(" ")>>), Array_(<<I(1), U(3)>>),
    Array_(<<I(1), I(-4)>>), Array_(<<B(BlobOf(16)), MetadataValue("Bytes16", Val("16"))>>),
    Array_(<<Item(B_), Item(A_)>>), Array_(<<Item(A_)>>), Array_(<<Item(A_), A_.value>>),
    Array_(<<Item(A_), Struct_(<<Field("name", I(1)), Field("value", I(1))>>), Item(B_)>>),
    Array_(<<Structs[1], Structs[2]>>), Array_(<<Structs[1], Structs[3]>>), Array_(<<Array_(<<Item(A_), Item(B_)>>)>>)>>
Values == Scalars \o Structs \o Arrays

\* The structures a field of structs has: none, a sorted one, and one within.
Inner == SortSchema(<<FieldType("b", Int8), FieldType("a", String)>>, FALSE)
Outer == [fields |-> <<Typed("c", Struct, Inner)>>, extras |-> FALSE, sorted |-> FALSE]
Structures == <<NoSchema, Inner, Outer>>

-----------------------------------------------------------------------------
(* What a value may be stored as: the variables of each scalar type.       *)

\* The bytes a value says: its own, or those of its hexadecimal text.
BytesSaid(v) ==
    CASE v.kind = "Bytes" -> {v.value}
      [] v.kind = "String" /\ ~Blank(v.value) ->
           ToSet(HexOf(v.value).bytes) \cup (IF v.value = "0x" THEN {<<>>} ELSE {})
      [] OTHER -> {}

\* The one value that is stored as what it does not say: without exceptions a text of
\* even length that is no hexadecimal one is stored as no bytes, where the comment at
\* TokenSchemas.h:349-352 has the helpers answer false.
TakenForNone(v) ==
    /\ ~Throws
    /\ v.kind = "String" /\ ~Blank(v.value) /\ v.value \notin DOMAIN HexTexts /\ Len(v.value) % 2 = 0
BytesStored(v) == BytesSaid(v) \cup (IF TakenForNone(v) THEN {<<>>} ELSE {})
Whole(type, n) == Num(n % 2 ^ Bits[type])
Readings(v) ==
    {<<Bytes, bytes>> : bytes \in BytesStored(v)}
    \cup {<<type, bytes[1][2]>> :
             <<type, bytes>> \in {<<t, b>> \in (DOMAIN OwnKind) \X BytesStored(v) : Size(b) = FixedWidth[t]}}
    \cup {<<type, v.value>> : type \in {t \in DOMAIN OwnKind : OwnKind[t] = v.kind}}
    \cup (IF v.kind = "String" /\ ~Blank(v.value) THEN {<<String, v.value>>} ELSE {})
    \cup (IF v.kind = "Int64"
          THEN {<<t, Whole(t, v.value)>> : t \in {t \in {Int8, Int16, Int32, Int64} :
                    -(2 ^ Bits[t]) <= 2 * v.value /\ 2 * v.value < 2 ^ Bits[t]}} ELSE {})
    \cup (IF v.kind = "UInt64"
          THEN {<<t, Whole(t, v.value)>> : t \in {t \in {Int8, Int16, Int32, Int64} : v.value < 2 ^ Bits[t]}} ELSE {})
    \cup (IF v.kind \in {"Int64", "UInt64", "Int256", "UInt256"}
          THEN {<<Int256, IF v.value = 0 THEN <<0, "">> ELSE <<8, v.value % 2 ^ Bits[Int256]>>>>} ELSE {})

\* The fields that a value of either form gives.
ValueUnder(fields, name) == fields[CHOOSE i \in DOMAIN fields : fields[i].name = name].value
GivenFields(v) ==
    IF v.kind = "Struct" THEN v.value
    ELSE [i \in DOMAIN v.value |-> Field(ValueUnder(v.value[i].value, "name").value,
                                         ValueUnder(v.value[i].value, "value"))]
IsFields(v) ==
    \/ v.kind = "Struct"
    \/ /\ v.kind = "Array"
       /\ \A i \in DOMAIN v.value :
            /\ v.value[i].kind = "Struct"
            /\ {"name", "value"} \subseteq NamesIn(v.value[i].value)
            /\ ValueUnder(v.value[i].value, "name").kind = "String"

RECURSIVE Fits(_, _, _)
\* A value fits a type: a scalar that has a reading of it, an array whose elements
\* do, a struct with exactly the fields of the structure, but for others that
\* differ from those only in case.
FieldsFit(structure, fields) ==
    /\ \A i \in DOMAIN structure.fields :
         LET f == structure.fields[i]
         IN  f.name \in NamesIn(fields) /\ Fits(f.type, f.structure, ValueUnder(fields, f.name))
    /\ {Lower(name) : name \in NamesIn(fields)} \subseteq {Lower(name) : name \in NamesIn(structure.fields)}
Fits(type, structure, v) ==
    IF IsArray(type) THEN /\ v.kind = "Array" /\ type # Array
                          /\ \A i \in DOMAIN v.value : Fits(Element(type), structure, v.value[i])
    ELSE IF type = Struct THEN structure.fields # <<>> /\ IsFields(v) /\ FieldsFit(structure, GivenFields(v))
    ELSE \E x \in Readings(v) : x[1] = type

RECURSIVE Says(_, _)
\* A variable holds what the value says.
Elements(x) == IF x[1] = Array + Struct THEN x[2].structs ELSE x[2]
Says(x, v) ==
    IF IsArray(x[1]) THEN /\ Len(Elements(x)) = Len(v.value)
                          /\ \A i \in DOMAIN v.value : Says(<<Element(x[1]), Elements(x)[i]>>, v.value[i])
    ELSE IF x[1] = Struct THEN \A i \in DOMAIN x[2] :
             Says(x[2][i].value, ValueUnder(GivenFields(v), x[2][i].name))
    ELSE x \in Readings(v)

-----------------------------------------------------------------------------
(* Series and NFTs.                                                        *)

\* What is built by a schema reads back by it, to the last byte, as each of its
\* fields: the derived ones, and each other with what the caller gave for it.
ReadsBack(image, schema, derived, metadata) ==
    LET back == ReadStruct(Reader(image), schema)
    IN  /\ back.ok /\ back.length = 0
        /\ NamesIn(back.got) = NamesIn(schema.fields) /\ Len(back.got) = Len(schema.fields)
        /\ \A i \in DOMAIN back.got : LET f == back.got[i] IN
             IF f.name \in NamesIn(derived) THEN f.value = ValueUnder(derived, f.name)
             ELSE Says(f.value, ValueUnder(metadata, f.name))

\* The values the schema's other fields need, each under exactly its name.
GivenFor(fields, names, metadata) ==
    \A i \in DOMAIN fields : fields[i].name \notin names =>
        /\ fields[i].name \in NamesIn(metadata)
        /\ Fits(fields[i].type, fields[i].structure, ValueUnder(metadata, fields[i].name))
\* The ROM bytes, of the first field of that name in any case.
RomGiven(metadata) ==
    LET roms == SelectSeq(metadata, LAMBDA f : Lower(f.name) = "rom")
    IN  IF roms = <<>> THEN {<<>>} ELSE BytesStored(roms[1].value)

\* A maker makes a series, the ROM of an NFT, or that of an NFT whose _i and ROM
\* are the chain's, of which the caller may name neither.
Makers == {"series", "nft", "phantasma"}
Made(maker, schema, id, metadata) ==
    CASE maker = "series"    -> BuildSeriesMetadata(schema, id, metadata)
      [] maker = "nft"       -> BuildNftRom(schema, id, metadata)
      [] maker = "phantasma" -> BuildPhantasmaNftRom(schema, metadata)
DerivedBy(maker, id, rom) ==
    LET mode == IF rom = <<>> THEN 0 ELSE 1
    IN  (IF maker = "phantasma" THEN <<>>
         ELSE <<Field("_i", <<Int256, <<8, id>>>>), Field("rom", <<Bytes, rom>>)>>)
        \o (IF maker = "series" THEN <<Field("mode", <<Int8, Num(mode)>>)>> ELSE <<>>)
IsChains(name) == Lower(name) \in {"_i", "rom"}
Mintable(maker, schema) ==
    IF maker # "phantasma" THEN schema
    ELSE [schema EXCEPT !.fields = SelectSeq(@, LAMBDA f : ~IsChains(f.name))]
RomsFor(maker, metadata) ==
    IF maker # "phantasma" THEN RomGiven(metadata)
    ELSE IF \E name \in NamesIn(metadata) : IsChains(name) THEN {} ELSE {<<>>}

\* It makes what reads back exactly if the caller gave all of it; of a schema
\* without fields it makes nothing to read.
StoredIsExact(maker, schema, id, metadata, roms, built) ==
    /\ built # Refused <=>
         roms # {} /\ GivenFor(schema.fields, NamesIn(DerivedBy(maker, id, <<>>)), metadata)
    /\ built # Refused /\ schema.fields # <<>> =>
         \E rom \in roms : ReadsBack(built[1], schema, DerivedBy(maker, id, rom), metadata)

\* A schema with a field of the type, sorted or not or with a second ROM, and the
\* metadata that gives it, in each of some ways.
SchemaWith(defaults, type, structure, form) ==
    LET fields == <<Typed("a", type, structure)>> \o defaults \o <<FieldType("name", String)>>
                  \o IF form = "ROM too" THEN <<FieldType("ROM", Bytes)>> ELSE <<>>
    IN  IF form = "sorted" THEN SortSchema(fields, FALSE) ELSE [fields |-> fields, extras |-> FALSE, sorted |-> FALSE]
Name_ == Field("name", S("abcd"))
MetadataWays(v) ==
    <<<<Field("a", v), Name_>>, <<Name_, Field("rom", B(BlobOf(2))), Field("a", v)>>,
      <<Name_, Field("a", v), Field("ROM", S("0xsixteen"))>>, <<Field("a", v), Field("rom", I(1)), Name_>>,
      <<Name_, Field("rom", S("text")), Field("a", v)>>,
      <<Field("A", v), Name_>>, <<Name_>>, <<Field("a", v), Field("Name", S("abcd"))>>,
      <<Field("b", I(0)), Field("A", I(0)), Field("a", v), Name_, Field("rom", B(<<>>))>>>>
\* A case: the schemas of series and NFTs, and the metadata.
Case(series, rom, metadata) == [seriesMetadata |-> series, rom |-> rom, metadata |-> metadata]
CaseOf(type, structure, form, metadata) ==
    Case(SchemaWith(SeriesDefaultMetadataFields, type, structure, form),
         SchemaWith(NftDefaultMetadataFields, type, structure, form), metadata)
SchemaFor(maker, case) == IF maker = "series" THEN case.seriesMetadata ELSE case.rom
MadeOf(case, id) == [maker \in Makers |-> Made(maker, SchemaFor(maker, case), id, case.metadata)]
MetadataIsStored(case, id, made) ==
    \A maker \in Makers : StoredIsExact(maker, Mintable(maker, SchemaFor(maker, case)), id, case.metadata,
                                        RomsFor(maker, case.metadata), made[maker])

-----------------------------------------------------------------------------
(* The schemas of a token: the standard fields in the series, in the ROM,  *)
(* in both or in neither, and one field more or wrong, of a type.          *)

Twists == {"none", "Name in series", "Name in rom", "royalties of a byte", "name of bytes",
    "rom again", "ROM again", "no name", "a in series", "a in rom", "a in ram", "a and A"}
OfAnyType == {"a in series", "a in rom", "a in ram"}
AtPlaces(here, places) ==
    SelectSeq(StandardMetadataFields, LAMBDA f :
        IF f.name \in DOMAIN places THEN places[f.name] \in {here, "both"} ELSE here = "rom")
More(twist, here, type) ==
    CASE twist = "Name in series" /\ here = "series" -> <<FieldType("Name", String)>>
      [] twist = "Name in rom" /\ here = "rom" -> <<FieldType("Name", String)>>
      [] twist = "royalties of a byte" /\ here = "series" -> <<FieldType("royalties", Int8)>>
      [] twist = "name of bytes" /\ here = "rom" -> <<FieldType("name", Bytes)>>
      [] twist = "rom again" /\ here = "series" -> <<FieldType("rom", Bytes)>>
      [] twist = "ROM again" /\ here = "rom" -> <<FieldType("ROM", Bytes)>>
      [] twist = "no name" /\ here = "series" -> <<FieldType("", Int8)>>
      [] twist = "a in " \o here -> <<FieldType("a", type)>>
      [] twist = "a and A" /\ here = "ram" -> <<FieldType("a", Int8), FieldType("A", Int8)>>
      [] OTHER -> <<>>

\* A list of fields in which no name is empty or there twice in any case, and the
\* standard ones where they have to be: in the series or, if it has none of that
\* name, in the ROM, in that case and of that type.
Distinct(fields) ==
    "" \notin NamesIn(fields) /\ Cardinality({Lower(name) : name \in NamesIn(fields)}) = Len(fields)
SchemasAreSound(series, rom, ram) ==
    /\ Distinct(SeriesDefaultMetadataFields \o series)
    /\ Distinct(NftDefaultMetadataFields \o rom) /\ Distinct(ram)
    /\ \A f \in ToSet(StandardMetadataFields) :
         IF f.name \in {Lower(name) : name \in NamesIn(series)} THEN f \in ToSet(series)
         ELSE f \in ToSet(rom)

\* A token with sound schemas can be used: a series and an NFT can be made, unless
\* a field is of a type no value can be normalized to without a structure, which
\* these schemas never have; and the standard metadata is in one of the two.
NeverFits == {Struct, Dynamic, Array}
ValueFor(type) ==
    IF IsArray(type) THEN Array_(<<>>)
    ELSE Values[CHOOSE k \in DOMAIN Values : Fits(type, NoSchema, Values[k])]
StandardTexts ==
    [name \in {"name", "description", "imageURL", "infoURL"} |-> IF name = "name" THEN "abcd" ELSE name]
MetadataFor(type) ==
    (IF type \in NeverFits THEN <<>> ELSE <<Field("a", ValueFor(type))>>)
    \o Append(StandardMetadata(StandardTexts, 5), Field("Name", S("abcd")))
TypesOf(schema) == {schema.fields[i].type : i \in DOMAIN schema.fields}
StandardIsStored(series, nft, metadata) ==
    \A f \in ToSet(StandardMetadataFields) :
        \E stored \in ToSet(Lookup(series, f.name)) \cup ToSet(Lookup(nft, f.name)) :
            stored[1] = f.type /\ Says(stored, ValueUnder(metadata, f.name))
TokenIsUsable(case, series, nft) ==
    /\ series # Refused <=> TypesOf(case.seriesMetadata) \cap NeverFits = {}
    /\ nft # Refused <=> TypesOf(case.rom) \cap NeverFits = {}
    /\ series # Refused /\ nft # Refused =>
         StandardIsStored(ReadStruct(Reader(series[1]), case.seriesMetadata).got,
                          ReadStruct(Reader(nft[1]), case.rom).got, case.metadata)
CaseIsMade(case, id, standard, made) ==
    /\ MetadataIsStored(case, id, made)
    /\ standard => TokenIsUsable(case, made["series"], made["nft"])
CaseIsExact(case, id, standard) == CaseIsMade(case, id, standard, MadeOf(case, id))
CaseFor(schemas, type) == Case(schemas.seriesMetadata, schemas.rom, MetadataFor(type))
SchemasAreRead(schemas, back) == back.ok /\ back.length = 0 /\ back.got = schemas

\* The same from JSON; and nothing where a key is missing or is no array, an entry
\* is not whole, or its type has no name.
TypeText(type) == CHOOSE text \in DOMAIN TypeNames : TypeNames[text] = type
Listing(fields) ==
    [array |-> TRUE, entries |-> [i \in DOMAIN fields |->
        [whole |-> TRUE, name |-> fields[i].name, type |-> TypeText(fields[i].type)]]]
Document(series, rom, ram) ==
    ("seriesMetadata" :> Listing(series)) @@ ("rom" :> Listing(rom)) @@ ("ram" :> Listing(ram))
Half(whole, type) == [whole |-> whole, name |-> "b", type |-> type]
Bent(document, key) ==
    {[k \in DOMAIN document \ {key} |-> document[k]],
     [document EXCEPT ![key].array = FALSE],
     [document EXCEPT ![key].entries = Append(@, Half(FALSE, "int8"))],
     [document EXCEPT ![key].entries = Append(@, Half(TRUE, "int7"))]}
JsonIsTheSame(document, built) ==
    \A given \in {document} \cup UNION {Bent(document, key) : key \in DOMAIN document} :
        FromJson(given) = IF given = document THEN built ELSE Refused

SchemasAreExact(series, rom, ram, built) ==
    /\ built # Refused <=> SchemasAreSound(series, rom, ram)
    /\ built # Refused => SchemasAreRead(built[1], ReadRecord(TokenSchemas, Reader(Serialize(built[1])), 1, <<>>))
    /\ JsonIsTheSame(Document(series, rom, ram), built)

-----------------------------------------------------------------------------
(* The texts of a token and its icon.                                      *)

\* What is given under one name, in turn.
Givings == <<<<>>, <<" ">>, <<"png">>, <<" ", "png">>, <<"png", " ">>, <<"bits">>, <<"png", "text">>>>
MetaFields(given, extra) ==
    FlattenSeq([i \in 1 .. 4 |->
        LET name == <<"url", "name", "icon", "description">>[i]
        IN  [k \in DOMAIN Givings[given[name]] |-> Field(name, Givings[given[name]][k])]])
    \o IF extra THEN <<Field("Name", ""), Field("a", "png")>> ELSE <<>>

\* A token's texts are stored if the last under each required name is not blank and
\* the icon is one: each name once, found by name, with that text.
LastUnder(metaFields, name) ==
    {metaFields[i].value : i \in {i \in DOMAIN metaFields : metaFields[i].name = name
        /\ \A k \in i + 1 .. Len(metaFields) : metaFields[k].name # name}}
TextsAreStored(metaFields, built) ==
    /\ built # Refused <=>
         \A name \in {"name", "icon", "url", "description"} :
             LastUnder(metaFields, name) # {}
             /\ LastUnder(metaFields, name) \subseteq IF name = "icon" THEN {"png"} ELSE {"png", "bits", "text"}
    /\ built # Refused => LET back == ReadFields(Reader(built[1])) IN
         /\ back.ok /\ back.length = 0 /\ Len(back.got) = Cardinality(NamesIn(metaFields))
         /\ \A name \in NamesIn(metaFields) :
              \E text \in LastUnder(metaFields, name) : Lookup(back.got, name) = <<<<String, text>>>>

\* An icon is what some bytes, at least one, are encoded as.
IsEncoding(payload) ==
    LET letters == SelectSeq(payload, LAMBDA c : c # Codes!Pad)
        pads    == Len(payload) - Len(letters)
    IN  /\ letters # <<>> /\ Len(payload) % 4 = 0 /\ pads <= 2
        /\ IsPrefix(letters, payload) /\ Codes!Bad \notin ToSet(letters)
        /\ letters[Len(letters)] % 4 ^ pads = 0
IconIsAnEncoding(payload) ==
    \A image \in BOOLEAN : ValidateIcon(Icon(image, payload)) <=> image /\ IsEncoding(payload)

-----------------------------------------------------------------------------
(* The standard metadata, and the records of a creation.                   *)

\* One of the texts may be blank; the schemas are the SDK's, for metadata of one
\* NFT or shared, or built from fields.
TextsBut(blank) == [name \in DOMAIN StandardTexts |-> IF name = blank THEN " " ELSE "text"]
SchemaChoices ==
    <<<<>>, <<PrepareStandardTokenSchemas(TRUE)>>, <<PrepareStandardTokenSchemas(FALSE)>>,
      BuildFromFields(<<>>, StandardMetadataFields, <<>>)>>
\* The overloads with the standard metadata are the others with it; royalties of
\* half the word or more are refused.
OverloadsAreExact(schema, metadata, rom, royalties, nft, phantasma) ==
    /\ \A maker \in {"nft", "phantasma"} :
         StoredIsExact(maker, Mintable(maker, schema), 5, IF maker = "nft" THEN Append(metadata, Field("rom", B(rom))) ELSE metadata,
                       {IF maker = "nft" THEN rom ELSE <<>>}, IF maker = "nft" THEN nft ELSE phantasma)
    /\ "royalties" \in NamesIn(schema.fields) /\ 2 * royalties >= 2 ^ Bits[Int32] => nft = Refused
StandardIsExact(texts, royalties, rom, choice) ==
    OverloadsAreExact(RomSchemaOf(choice), StandardMetadata(texts, royalties), rom, royalties,
        BuildStandardNftRom(5, texts, royalties, rom, choice), BuildStandardPhantasmaNftRom(texts, royalties, choice))

\* The creation of a token reads back as it was asked for: with schemas exactly if
\* it is an NFT, and then of a supply of eight bytes; and a fungible token is a big
\* one if its supply is unlimited or needs more. One of a series reads back too.
TokenIsAsAsked(token, maxSupply, isNFT, schemas) ==
    LET back == ReadTokenInfo(Reader(WriteTokenInfo(token)))
    IN  /\ IsExact(back, token)
        /\ back.got["tokenSchemas"] = IF isNFT THEN schemas ELSE <<>>
        /\ isNFT => schemas # <<>> /\ back.got["maxSupply"][1] = 8
        /\ ~isNFT => (back.got["flags"] = Num(BigFungible) <=> maxSupply = 0 \/ back.got["maxSupply"][1] # 8)
SeriesIsAsAsked(metadata, series) ==
    LET back == ReadRecord(SeriesInfo, Reader(WriteItems(SeriesInfo, series)), 1, <<>>)
    IN  IsExact(back, series) /\ back.got["metadata"] = metadata
BuiltAsAsked(symbol, maxSupply, isNFT, metadata, schemas, token, series) ==
    /\ token # Refused <=> /\ symbol = "SOUL" /\ metadata # <<>>
                           /\ isNFT => schemas # <<>> /\ Is8ByteSafe(maxSupply)
    /\ token # Refused => TokenIsAsAsked(token[1], maxSupply, isNFT, schemas)
    /\ SeriesIsAsAsked(metadata, series[1])
    /\ BuildSeriesInfoOf(metadata, Val("mint"), Val("supply"), Val("owner"))
         = IF metadata = <<>> THEN Refused ELSE series
CreationIsExact(symbol, maxSupply, isNFT, metadata, schemas) ==
    BuiltAsAsked(symbol, maxSupply, isNFT, metadata, schemas,
        BuildTokenInfo(symbol, maxSupply, isNFT, metadata, schemas),
        BuildSeriesInfo(Accepted(metadata), Val("mint"), Val("supply"), Val("owner")))

=============================================================================

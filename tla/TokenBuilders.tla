--------------------------- MODULE TokenBuilders ---------------------------
(***************************************************************************)
(* The builders of src/include/Carbon/Contracts/Token.h: the metadata of a *)
(* token, of a series and of an NFT as the chain stores them, and the      *)
(* records a creation carries. Their answers and their inputs are those of *)
(* TokenMetadata.                                                          *)
(***************************************************************************)
EXTENDS TokenMetadata, CarbonRecords

Codes == INSTANCE TextCodes WITH Radix58 <- 6, ByteValues <- 8

-----------------------------------------------------------------------------
(* TokenMetadataBuilder: texts under names.                                *)

\* An icon is whether its text begins as the URI of a PNG, a JPEG or a WebP in
\* Base64, and what comes after the comma.
Icon(image, payload) == [image |-> image, payload |-> payload]
TrimEndEquals(text) == SubSeq(text, 1, SelectLastInSeq(text, LAMBDA c : c # Codes!Pad))
SameButPadding(payload, decoded) ==
    decoded # <<>> /\ TrimEndEquals(Codes!Encode64(decoded)) = TrimEndEquals(payload)
ValidateIcon(icon) ==
    /\ icon.image
    /\ icon.payload # <<>> /\ Len(icon.payload) % 4 = 0
    /\ \A i \in DOMAIN icon.payload : icon.payload[i] # Codes!Bad
    /\ SameButPadding(icon.payload, Codes!Decode64(icon.payload))

\* Icons of the texts that occur: one of a byte, and one that is no encoding.
Icons == ("png" :> Icon(TRUE, <<1, 16, Codes!Pad, Codes!Pad>>))
         @@ ("bits" :> Icon(TRUE, <<1, 17, Codes!Pad, Codes!Pad>>))
IconOf(text) == IF text \in DOMAIN Icons THEN Icons[text] ELSE Icon(FALSE, <<>>)

RequiredFields == {"name", "icon", "url", "description"}
\* std::map: of the values given under one name the last is kept.
Kept(metaFields, name) ==
    metaFields[SelectLastInSeq(metaFields, LAMBDA f : f.name = name)].value
KeysOf(metaFields) == {metaFields[i].name : i \in DOMAIN metaFields}
Missing(metaFields) ==
    {name \in RequiredFields : name \notin KeysOf(metaFields) \/ Blank(Kept(metaFields, name))}
TextFields(metaFields) ==
    LET names == SelectSeq(NameOrder, LAMBDA name : name \in KeysOf(metaFields))
    IN  [i \in DOMAIN names |-> Field(names[i], <<String, Kept(metaFields, names[i])>>)]
BuildTokenMetadata(metaFields) ==
    IF \/ Cardinality(KeysOf(metaFields)) < Cardinality(RequiredFields)
       \/ Missing(metaFields) # {}
       \/ ~ValidateIcon(IconOf(Kept(metaFields, "icon")))
    THEN Refused ELSE Accepted(WriteNamed(TextFields(metaFields)))

-----------------------------------------------------------------------------
(* Series and NFTs: the fields the SDK derives, then each other field of   *)
(* the schema with the caller's value; what the schema does not name is    *)
(* left out.                                                               *)

Push(schema, metadata) == NormalizeEach([fields |-> schema], metadata)
WriteAll(derived, others, answers, schema) ==
    IF ~AllAccepted(answers) THEN Refused
    ELSE Accepted(WriteStruct(
             Sort(derived \o [i \in DOMAIN others |-> Field(others[i].name, answers[i][1])]),
             schema))
\* The fields of a schema but those with one of these names, exactly.
Without(fields, names) == SelectSeq(fields, LAMBDA f : f.name \notin names)
NamesIn(fields) == {fields[i].name : i \in DOMAIN fields}

\* A series with ROM bytes of its own is shared, mode 1.
SeriesDerived(id, rom) ==
    <<Field("_i", <<Int256, Unsigned(id)>>),
      Field("mode", <<Int8, Num(IF rom = <<>> THEN 0 ELSE 1)>>), Field("rom", <<Bytes, rom>>)>>
NftDerived(id, rom) ==
    <<Field("_i", <<Int256, Unsigned(id)>>), Field("rom", <<Bytes, rom>>)>>

BuildWith(derived, schema, others, metadata) ==
    WriteAll(derived, others, Push(others, metadata), schema)
BuildSeries(schema, id, rom, metadata) ==
    IF rom = Refused THEN Refused
    ELSE BuildWith(SeriesDerived(id, rom[1]), schema,
             Without(schema.fields, NamesIn(SeriesDefaultMetadataFields)), metadata)
BuildSeriesMetadata(schema, id, metadata) ==
    BuildSeries(schema, id, GetOptionalBytesField(metadata, "rom"), metadata)
BuildNft(schema, id, rom, metadata) ==
    IF rom = Refused THEN Refused
    ELSE BuildWith(NftDerived(id, rom[1]), schema,
             Without(schema.fields, NamesIn(NftDefaultMetadataFields)), metadata)
BuildNftRom(schema, id, metadata) ==
    BuildNft(schema, id, GetOptionalBytesField(metadata, "rom"), metadata)

\* The standard metadata of an NFT. The royalties are an unsigned integer of 32
\* bits, given as a signed one of 64.
StandardMetadata(texts, royalties) ==
    <<Field("name", MetadataValue("String", texts["name"])),
      Field("description", MetadataValue("String", texts["description"])),
      Field("imageURL", MetadataValue("String", texts["imageURL"])),
      Field("infoURL", MetadataValue("String", texts["infoURL"])),
      Field("royalties", MetadataValue("Int64", royalties))>>
RomSchemaOf(tokenSchemas) ==
    (IF tokenSchemas = <<>> THEN PrepareStandardTokenSchemas(FALSE) ELSE tokenSchemas[1]).rom
BuildStandardNftRom(id, texts, royalties, rom, tokenSchemas) ==
    BuildNftRom(RomSchemaOf(tokenSchemas), id,
                Append(StandardMetadata(texts, royalties), Field("rom", MetadataValue("Bytes", rom))))

\* PhantasmaNftRomBuilder: the chain derives _i and rom, so that the caller may
\* not give them, in any case, and the image is of the other fields alone.
IsReservedFieldName(name) == \E reserved \in {"_i", "rom"} : EqualsIgnoreCase(name, reserved)
PublicFields(fields) == SelectSeq(fields, LAMBDA f : ~IsReservedFieldName(f.name))
PublicSchema(schema) == [schema EXCEPT !.fields = PublicFields(schema.fields)]
BuildPhantasmaNftRom(schema, metadata) ==
    IF \E i \in DOMAIN metadata : IsReservedFieldName(metadata[i].name) THEN Refused
    ELSE BuildWith(<<>>, PublicSchema(schema), PublicFields(schema.fields), metadata)
BuildStandardPhantasmaNftRom(texts, royalties, tokenSchemas) ==
    BuildPhantasmaNftRom(RomSchemaOf(tokenSchemas), StandardMetadata(texts, royalties))

-----------------------------------------------------------------------------
(* The records of a creation.                                              *)

SeriesInfoWith(maxMint, maxSupply, owner, metadata) ==
    ("maxMint" :> maxMint) @@ ("maxSupply" :> maxSupply) @@ ("owner" :> owner)
    @@ ("metadata" :> metadata) @@ ("rom" :> NoSchema) @@ ("ram" :> NoSchema)
BuildSeriesInfo(metadata, maxMint, maxSupply, owner) ==
    IF metadata = Refused THEN Refused
    ELSE Accepted(SeriesInfoWith(maxMint, maxSupply, owner, metadata[1]))
\* Of bytes the caller has already: there must be some.
BuildSeriesInfoOf(metadata, maxMint, maxSupply, owner) ==
    IF metadata = <<>> THEN Refused
    ELSE Accepted(SeriesInfoWith(maxMint, maxSupply, owner, metadata))

\* Symbols of letters A to Z alone, and the characters of one.
LettersOnly == {"SOUL", "256"}
Characters(symbol) == IF symbol = "256" THEN 256 ELSE Len(symbol)

Is8ByteSafe(n) == n \in -(2 ^ (Bits[Int64] - 1)) .. 2 ^ (Bits[Int64] - 1) - 1
FlagsOf(isNFT, maxSupply) ==
    IF isNFT THEN NonFungible
    ELSE IF maxSupply = 0 \/ ~Is8ByteSafe(maxSupply) THEN BigFungible ELSE 0
TokenInfoWith(symbol, maxSupply, isNFT, metadata, schemas) ==
    ("maxSupply" :> <<IF Is8ByteSafe(maxSupply) THEN 8 ELSE 32, maxSupply>>)
    @@ ("flags" :> Num(FlagsOf(isNFT, maxSupply))) @@ ("decimals" :> Val("decimals"))
    @@ ("owner" :> Val("creator")) @@ ("symbol" :> symbol) @@ ("metadata" :> metadata)
    @@ ("tokenSchemas" :> IF isNFT THEN schemas ELSE <<>>)
BuildTokenInfo(symbol, maxSupply, isNFT, metadata, schemas) ==
    IF \/ Characters(symbol) \notin 1 .. 255 \/ symbol \notin LettersOnly
       \/ metadata = <<>>
       \/ isNFT /\ (~Is8ByteSafe(maxSupply) \/ schemas = <<>>)
    THEN Refused ELSE Accepted(TokenInfoWith(symbol, maxSupply, isNFT, metadata, schemas))

=============================================================================

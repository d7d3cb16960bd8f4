---------------------------- MODULE CarbonRecords ---------------------------
(***************************************************************************)
(* The records of the contracts: the chain and gas configuration           *)
(* (DataBlockchain.h), tokens, series and instances (Contracts/Token.h),   *)
(* market listings (Contracts/Market.h), and the messages the builders of  *)
(* Tx.h assemble from them and the results they read.                      *)
(***************************************************************************)
EXTENDS CarbonMessages

-----------------------------------------------------------------------------
(* Configurations.                                                         *)

WriteChainConfig ==
    <<U1("version"), U1("reserved1"), U1("reserved2"), U1("reserved3"),
      U4("allowedTxTypes"), U4("expiryWindow"), U4("blockRateTarget")>>

\* The image every version begins with, and the tail of version 1 and later.
GasConfigBase ==
    <<U1("version"), U1("maxNameLength"), U1("maxTokenSymbolLength"), U1("feeShift"),
      U4("maxStructureSize"), U8("feeMultiplier"), U8("gasTokenId"), U8("dataTokenId"),
      U8("minimumGasOffer"), U8("dataEscrowPerRow"), U8("gasFeeTransfer"), U8("gasFeeQuery"),
      U8("gasFeeCreateTokenBase"), U8("gasFeeCreateTokenSymbol"),
      U8("gasFeeCreateTokenSeries"), U8("gasFeePerByte"), U8("gasFeeRegisterName"),
      U8("gasBurnRatioMul"), U1("gasBurnRatioShift")>>
GasConfigTail ==
    <<U8("minimumGasBill"), U8("gasProducerRatioMul"), U1("gasProducerRatioShift"),
      U8("gasDappRatioMul"), U1("gasDappRatioShift"), U8("policyFeeCreateTokenBase"),
      U8("policyFeeCreateTokenSymbol"), U8("policyFeeCreateTokenSeries"),
      U8("policyFeeRegisterName"), U8("legacyDataEscrowPerRow")>>

WriteGasConfig(config) ==
    WriteItems(GasConfigBase, config)
    \o IF config["version"] = Num(0) THEN <<>> ELSE WriteItems(GasConfigTail, config)

ReadGasConfigBase ==
    <<U1("version"), U1("maxNameLength"), U1("maxTokenSymbolLength"), U1("feeShift"),
      U4("maxStructureSize"), U8("feeMultiplier"), U8("gasTokenId"), U8("dataTokenId"),
      U8("minimumGasOffer"), U8("dataEscrowPerRow"), U8("gasFeeTransfer"), U8("gasFeeQuery"),
      U8("gasFeeCreateTokenBase"), U8("gasFeeCreateTokenSymbol"),
      U8("gasFeeCreateTokenSeries"), U8("gasFeePerByte"), U8("gasFeeRegisterName"),
      U8("gasBurnRatioMul"), U1("gasBurnRatioShift")>>
ReadGasConfigTail ==
    <<U8("minimumGasBill"), U8("gasProducerRatioMul"), U1("gasProducerRatioShift"),
      U8("gasDappRatioMul"), U1("gasDappRatioShift"), U8("policyFeeCreateTokenBase"),
      U8("policyFeeCreateTokenSymbol"), U8("policyFeeCreateTokenSeries"),
      U8("policyFeeRegisterName"), U8("legacyDataEscrowPerRow")>>

NamesOf(layout) == {layout[i].name : i \in DOMAIN layout}
\* Version 0 has no tail, and a reader used twice does not keep one; a later
\* version has to have all of it.
ReadGasConfig(r) ==
    Then(Read(ReadGasConfigBase, r), LAMBDA base :
         IF base.got["version"] # Num(0) THEN ReadItems(ReadGasConfigTail, base, 1, base.got)
         ELSE Answer(base, base.got @@ [name \in NamesOf(ReadGasConfigTail) |-> Num(0)]))

-----------------------------------------------------------------------------
(* Tokens and their instances.                                             *)

BigFungible == 1
NonFungible == 2
IsNonFungible(flags) == (flags[2] \div NonFungible) % 2 = 1

WriteTokenInfoBase ==
    <<Amount("maxSupply"), U1("flags"), U1("decimals"), Key("owner"), Small("symbol"),
      Blob("metadata")>>
WriteTokenInfo(token) ==
    WriteItems(WriteTokenInfoBase, token)
    \o IF IsNonFungible(token["flags"]) THEN WriteArray(token["tokenSchemas"]) ELSE <<>>

ReadTokenInfoBase ==
    <<Amount("maxSupply"), U1("flags"), U1("decimals"), Key("owner"), Small("symbol"),
      Blob("metadata")>>
\* Only an NFT-capable token carries schemas.
ReadTokenInfo(r) ==
    Then(Read(ReadTokenInfoBase, r), LAMBDA base :
         IF ~IsNumber(base.got["flags"]) THEN Refuse(base)
         ELSE Then(IF IsNonFungible(base.got["flags"]) THEN ReadArray(base) ELSE Answer(base, <<>>),
                   LAMBDA schemas :
                       Answer(schemas, base.got @@ ("tokenSchemas" :> schemas.got))))

TokensConfig == <<U1("flags")>>
TokenInfo_FlagsOnly == <<U1("flags")>>
TokenSchemas == <<Schema("seriesMetadata"), Schema("rom"), Schema("ram")>>
SeriesInfo ==
    <<U4("maxMint"), U4("maxSupply"), Key("owner"), Blob("metadata"), Schema("rom"),
      Schema("ram")>>
NftImport ==
    <<Key("originator"), U4("mintNumber"), U8("created"), Blob("rom"), Blob("ram"),
      Key("owner")>>
SeriesImport == <<U8("tokenId"), Part("info", SeriesInfo), List("imports", NftImport, 1)>>
SeriesSupply == <<U4("mintCount"), U4("currentSupply")>>
NftMintInfo == <<U4("seriesId"), Blob("rom"), Blob("ram")>>
PhantasmaNftMintInfo == <<Amount("phantasmaSeriesId"), Blob("rom"), Blob("ram")>>
PhantasmaNftMintResult == <<Key("phantasmaNftId"), U8("carbonInstanceId")>>
NftInstance == <<Key("originator"), U8("created"), U1("flags"), Blob("rom")>>
NftState == <<U8("lastTransfer"), U1("flags"), Variable("metaId")>>
NftInfo ==
    <<U4("seriesId"), U4("mintNumber"), Key("originator"), U8("created"), U1("flags"),
      Blob("rom"), Blob("ram"), Key("owner")>>
NftSchema ==
    <<Schema("tokenRom"), Schema("seriesRom"), Schema("tokenRam"), Schema("seriesRam"),
      Schema("seriesMetadataSchema"), Blob("seriesMetadataValue"), Blob("tokenMetadata"),
      Small("tokenSymbol")>>
WriteGasConfigWithTokens(v) ==
    WriteGasConfig(v.config) \o WriteTokenInfo(v.gasToken) \o WriteTokenInfo(v.dataToken)

\* A market listing is read as it is written.
WriteTokenListing ==
    <<U1("type"), Key("seller"), U8("quoteTokenId"), Amount("price"), U8("startDate"),
      U8("endDate")>>
ReadTokenListing ==
    <<U1("type"), Key("seller"), U8("quoteTokenId"), Amount("price"), U8("startDate"),
      U8("endDate")>>

-----------------------------------------------------------------------------
(* The builders of Tx.h. `parties` are the account whose tokens move and   *)
(* the account that pays the gas, in a sequence that may be empty.         *)

DefaultExpiry == Val("now + 45000")
\* TxLimitsDetail::Apply and Base.
Base(type, gasFrom, limits) ==
    [type |-> Num(type), gasFrom |-> gasFrom, payload |-> "", maxGas |-> limits.maxGas,
     maxData |-> limits.maxData,
     expiry |-> IF limits.expiry = Num(0) THEN DefaultExpiry ELSE limits.expiry]

\* The latest expiry a window still admits, or 0; `now` in milliseconds.
ExpiryWithin(now, window, margin) ==
    IF window <= 0 \/ margin < 0 \/ window - margin <= 0 THEN 0 ELSE now + (window - margin)

\* The plain form for one account, the _GasPayer form with `from` for two.
ForParties(plain, gasPayerForm, parties, limits, body) ==
    IF parties.gasPayer = <<>>
    THEN Base(plain, parties.from, limits) @@ ("body" :> body)
    ELSE Base(gasPayerForm, parties.gasPayer[1], limits)
         @@ ("body" :> (body @@ ("from" :> parties.from)))

BuildTransferFungible(parties, to, tokenId, amount, limits) ==
    ForParties(TransferFungible, TransferFungible_GasPayer, parties, limits,
               [to |-> to, tokenId |-> tokenId, amount |-> amount])

\* One instance has a type of its own; no instance is refused: <<>>.
BuildTransferNonFungible(parties, to, tokenId, instanceIds, limits) ==
    IF instanceIds = <<>> THEN <<>>
    ELSE IF Len(instanceIds) = 1
         THEN <<ForParties(TransferNonFungible_Single, TransferNonFungible_Single_GasPayer,
                           parties, limits,
                           [to |-> to, tokenId |-> tokenId, instanceId |-> instanceIds[1].id])>>
    ELSE <<ForParties(TransferNonFungible_Multi, TransferNonFungible_Multi_GasPayer,
                      parties, limits,
                      [to |-> to, tokenId |-> tokenId, instanceIds |-> instanceIds])>>

BuildMintFungible(owner, to, tokenId, amount, limits) ==
    Base(MintFungible, owner, limits)
    @@ ("body" :> [tokenId |-> tokenId, to |-> to, amount |-> amount])

BuildBurnFungible(parties, tokenId, amount, limits) ==
    ForParties(BurnFungible, BurnFungible_GasPayer, parties, limits,
               [tokenId |-> tokenId, amount |-> amount])

BuildBurnNonFungible(parties, tokenId, instanceId, limits) ==
    ForParties(BurnNonFungible, BurnNonFungible_GasPayer, parties, limits,
               [tokenId |-> tokenId, instanceId |-> instanceId])

BuildMintNonFungible(tokenId, seriesId, sender, receiver, rom, ram, limits) ==
    Base(MintNonFungible, sender, limits)
    @@ ("body" :> [tokenId |-> tokenId, to |-> receiver, seriesId |-> seriesId,
                   rom |-> rom, ram |-> ram])

\* A call of the token module with these bytes as its arguments.
TokenModule == Num(1)
CreateToken == Num(2)
CreateTokenSeries == Num(6)
MintPhantasmaNonFungible == Num(27)
TokenCall(method, sender, args, limits) ==
    Base(Call, sender, limits)
    @@ ("body" :> [moduleId |-> TokenModule, methodId |-> method, args |-> args,
                   sections |-> <<>>])

BuildCreateToken(token, creator, limits) ==
    TokenCall(CreateToken, creator, WriteTokenInfo(token), limits)

BuildCreateTokenSeries(tokenId, series, creator, limits) ==
    TokenCall(CreateTokenSeries, creator,
              <<Word(8, tokenId)>> \o WriteItems(SeriesInfo, series), limits)

\* No tokens are refused: <<>>.
BuildMintPhantasmaNonFungible(tokenId, sender, receiver, tokens, limits) ==
    IF tokens = <<>> THEN <<>>
    ELSE <<TokenCall(MintPhantasmaNonFungible, sender,
               <<Word(8, tokenId), Word(32, receiver)>>
               \o WriteItem(List("", PhantasmaNftMintInfo, 1), tokens), limits)>>

-----------------------------------------------------------------------------
(* Results and addresses.                                                  *)

\* TokenHelper::GetNftAddress as its three parts, and the syntactic test.
GetNftAddress(tokenId, instanceId) == <<"nft", tokenId, instanceId>>
IsNftAddress(address) == address[1] = "nft" /\ address[2] # Num(0) /\ address[3] # Num(0)

ParseCreateToken(image) == ReadBytes(Reader(image), 8)
ParseCreateTokenSeries(image) == ReadBytes(Reader(image), 4)

\* ReadLengthFor throws where ReadArrayLength answers false.
ParseMintNonFungible(tokenId, image) ==
    Then(ReadItem(List("", <<U8("id")>>, 8), Reader(image)), LAMBDA ids :
         Answer(ids, [i \in DOMAIN ids.got |-> GetNftAddress(tokenId, ids.got[i]["id"])]))

ParseMintPhantasmaNonFungible(image) ==
    ReadItem(List("", <<Key("phantasmaNftId"), U8("carbonInstanceId")>>, 32 + 8),
             Reader(image))

=============================================================================

---------------------------- MODULE RpcArguments ----------------------------
(***************************************************************************)
(* The payloads of extended events, and among them the arguments of the    *)
(* calls of a special resolution (include/Rpc).  Every record here is      *)
(* filled by name, each member from the key of its own name; every         *)
(* argument may be absent, and is then empty.                              *)
(***************************************************************************)
EXTENDS RpcReadings

Arguments(keys) == MaybeStrings(keys)
Metadata(key)   == Maybe(Of("VmMetadata", key))

\* governance
GasConfigArguments == Arguments(<<"version", "maxNameLength", "maxTokenSymbolLength", "feeShift",
    "maxStructureSize", "feeMultiplier", "gasTokenId", "dataTokenId", "minimumGasOffer",
    "dataEscrowPerRow", "gasFeeTransfer", "gasFeeQuery", "gasFeeCreateTokenBase",
    "gasFeeCreateTokenSymbol", "gasFeeCreateTokenSeries", "gasFeePerByte", "gasFeeRegisterName",
    "gasBurnRatioMul", "gasBurnRatioShift", "minimumGasBill", "gasProducerRatioMul",
    "gasProducerRatioShift", "gasDappRatioMul", "gasDappRatioShift", "policyFeeCreateTokenBase",
    "policyFeeCreateTokenSymbol", "policyFeeCreateTokenSeries", "policyFeeRegisterName",
    "legacyDataEscrowPerRow">>)
ChainConfigArguments == Arguments(<<"version", "reserved1", "reserved2", "reserved3", "allowedTxTypes",
    "expiryWindow", "blockRateTarget">>)
NestedResolutionArguments == Arguments(<<"resolutionId">>)
MetadataArguments == <<Metadata("metadata")>>
ConsensusNode == Arguments(<<"id", "type">>)
NodeConfigArguments == <<List("nodes", "ConsensusNode")>>
RegisterNameArguments == Arguments(<<"address", "name">>)
AddressArguments == Arguments(<<"address">>)
NameArguments == Arguments(<<"name">>)

\* token; the identity of the token comes first in most of them.
TokenReference == Arguments(<<"token", "tokenId">>)
TokenReferenceArguments == TokenReference
TokenSeriesReferenceArguments == TokenReference \o Arguments(<<"seriesId">>)
SymbolArguments == Arguments(<<"symbol">>)
TransferFungibleArguments == TokenReference \o Arguments(<<"from", "to", "amount">>)
TransferNonFungibleArguments == TokenReference \o Arguments(<<"from", "to">>)
    \o <<List("instanceIds", "String")>>
MintFungibleArguments == TokenReference \o Arguments(<<"to", "amount">>)
BurnFungibleArguments == TokenReference \o Arguments(<<"from", "amount">>)
BalanceArguments == TokenReference \o Arguments(<<"address">>)
CreateTokenArguments == Arguments(<<"symbol", "owner", "maxSupply", "decimals", "flags">>)
    \o <<Metadata("metadata")>> \o Arguments(<<"tokenSchemas">>)
TokenSeriesFields == TokenReference \o Arguments(<<"owner", "maxMint", "maxSupply">>)
    \o <<Metadata("metadata")>> \o Arguments(<<"seriesId", "metadataRaw">>)
TokenSeriesArguments == TokenSeriesFields
CreateMintedTokenSeriesArguments == TokenSeriesFields \o Arguments(<<"recipient">>)
    \o <<List("roms", "String"), List("rams", "String")>>
NftMint == Arguments(<<"seriesId", "rom", "ram">>)
PhantasmaNftMint == Arguments(<<"phantasmaSeriesId", "rom", "ram">>)
MintNonFungibleArguments == TokenReference \o Arguments(<<"owner">>) \o <<List("tokens", "NftMint")>>
MintPhantasmaNonFungibleArguments == TokenReference \o Arguments(<<"owner">>)
    \o <<List("tokens", "PhantasmaNftMint")>>
BurnNonFungibleArguments == TokenReference \o Arguments(<<"address">>)
    \o <<List("instanceIds", "String")>>
NonFungibleInfoArguments == TokenReference \o Arguments(<<"instanceId", "getSchemas">>)
NonFungibleInfoByRomIdArguments == TokenReference \o Arguments(<<"romId", "getSchemas">>)
SeriesInfoByMetaIdArguments == TokenReference \o Arguments(<<"romId">>)
TokensConfigArguments == Arguments(<<"flags">>) \o <<List("flagsNames", "String")>>
UpdateTokenMetadataArguments == TokenReference \o <<Metadata("metadata")>>
UpdateSeriesMetadataArguments == TokenReference \o Arguments(<<"seriesId", "metadata">>)

\* phantasma_vm
ExecuteScriptArguments == Arguments(<<"maxGas", "gasFrom", "script">>)
RegisterTokenContractArguments == Arguments(<<"tokenId", "symbol", "script", "abi", "token">>)
DeployContractArguments == Arguments(<<"from", "contractName", "script", "abi">>)
PhantasmaVmConfigArguments == Arguments(<<"featureLevel", "gasConstructor", "gasNexus",
    "gasOrganization", "gasAccount", "gasLeaderboard", "gasStandard", "gasOracle",
    "fuelPerContractDeploy">>)
ContractStorageRow == Arguments(<<"key", "value">>)
ContractStorageTable == Arguments(<<"name">>) \o <<List("rows", "ContractStorageRow")>>
ImportedContract == Arguments(<<"name", "address", "owner", "script", "abi">>)
    \o <<List("rootVariables", "ContractStorageRow"), List("tables", "ContractStorageTable")>>
ImportContractsArguments == Arguments(<<"contractsCount">>) \o <<List("contracts", "ImportedContract")>>
SeriesSupplement == Arguments(<<"token", "tokenId", "phantasmaSeriesId", "maxSupply", "mintCount",
    "mode", "script", "abi", "rom">>)
SeriesMintCountRepair == Arguments(<<"token", "tokenId", "phantasmaSeriesId", "importedLiveCount",
    "script", "abi">>)
RepairSeriesArguments == Arguments(<<"supplementsCount">>)
    \o <<List("supplements", "SeriesSupplement")>> \o Arguments(<<"repairsCount">>)
    \o <<List("repairs", "SeriesMintCountRepair")>>
TokenRepair == Arguments(<<"token", "tokenId", "symbol", "script", "abi", "tokenFlags", "repairMask">>)
RepairTokenArguments == Arguments(<<"repairsCount">>) \o <<List("repairs", "TokenRepair")>>
RawArguments == Arguments(<<"rawArgs">>)

ArgumentRecords == [
    GasConfigArguments |-> Assigned(GasConfigArguments),
    ChainConfigArguments |-> Assigned(ChainConfigArguments),
    NestedResolutionArguments |-> Assigned(NestedResolutionArguments),
    MetadataArguments |-> Assigned(MetadataArguments), ConsensusNode |-> Assigned(ConsensusNode),
    NodeConfigArguments |-> Assigned(NodeConfigArguments),
    RegisterNameArguments |-> Assigned(RegisterNameArguments),
    AddressArguments |-> Assigned(AddressArguments), NameArguments |-> Assigned(NameArguments),
    TokenReferenceArguments |-> Assigned(TokenReferenceArguments),
    TokenSeriesReferenceArguments |-> Assigned(TokenSeriesReferenceArguments),
    SymbolArguments |-> Assigned(SymbolArguments),
    TransferFungibleArguments |-> Assigned(TransferFungibleArguments),
    TransferNonFungibleArguments |-> Assigned(TransferNonFungibleArguments),
    MintFungibleArguments |-> Assigned(MintFungibleArguments),
    BurnFungibleArguments |-> Assigned(BurnFungibleArguments),
    BalanceArguments |-> Assigned(BalanceArguments),
    CreateTokenArguments |-> Assigned(CreateTokenArguments),
    TokenSeriesArguments |-> Assigned(TokenSeriesArguments),
    CreateMintedTokenSeriesArguments |-> Assigned(CreateMintedTokenSeriesArguments),
    NftMint |-> Assigned(NftMint), PhantasmaNftMint |-> Assigned(PhantasmaNftMint),
    MintNonFungibleArguments |-> Assigned(MintNonFungibleArguments),
    MintPhantasmaNonFungibleArguments |-> Assigned(MintPhantasmaNonFungibleArguments),
    BurnNonFungibleArguments |-> Assigned(BurnNonFungibleArguments),
    NonFungibleInfoArguments |-> Assigned(NonFungibleInfoArguments),
    NonFungibleInfoByRomIdArguments |-> Assigned(NonFungibleInfoByRomIdArguments),
    SeriesInfoByMetaIdArguments |-> Assigned(SeriesInfoByMetaIdArguments),
    TokensConfigArguments |-> Assigned(TokensConfigArguments),
    UpdateTokenMetadataArguments |-> Assigned(UpdateTokenMetadataArguments),
    UpdateSeriesMetadataArguments |-> Assigned(UpdateSeriesMetadataArguments),
    ExecuteScriptArguments |-> Assigned(ExecuteScriptArguments),
    RegisterTokenContractArguments |-> Assigned(RegisterTokenContractArguments),
    DeployContractArguments |-> Assigned(DeployContractArguments),
    PhantasmaVmConfigArguments |-> Assigned(PhantasmaVmConfigArguments),
    ContractStorageRow |-> Assigned(ContractStorageRow),
    ContractStorageTable |-> Assigned(ContractStorageTable),
    ImportedContract |-> Assigned(ImportedContract),
    ImportContractsArguments |-> Assigned(ImportContractsArguments),
    SeriesSupplement |-> Assigned(SeriesSupplement),
    SeriesMintCountRepair |-> Assigned(SeriesMintCountRepair),
    RepairSeriesArguments |-> Assigned(RepairSeriesArguments),
    TokenRepair |-> Assigned(TokenRepair),
    RepairTokenArguments |-> Assigned(RepairTokenArguments),
    RawArguments |-> Assigned(RawArguments)]

-----------------------------------------------------------------------------
\* Which record the arguments of a call are.
SpecialResolutionArgumentsTable == [
    governance |-> [SetGasConfig |-> "GasConfigArguments",
        SetChainConfig |-> "ChainConfigArguments",
        SpecialResolution |-> "NestedResolutionArguments", SetMetadata |-> "MetadataArguments",
        SetNodeConfig |-> "NodeConfigArguments", RegisterName |-> "RegisterNameArguments",
        LookupName |-> "AddressArguments", LookupAddress |-> "NameArguments"],
    phantasma_vm |-> [ExecuteScript |-> "ExecuteScriptArguments",
        RegisterTokenContract |-> "RegisterTokenContractArguments",
        DeployContract |-> "DeployContractArguments", IsContractDeployed |-> "NameArguments",
        SetConfig |-> "PhantasmaVmConfigArguments",
        ImportContracts |-> "ImportContractsArguments", RepairSeries |-> "RepairSeriesArguments",
        RepairToken |-> "RepairTokenArguments"],
    token |-> [TransferFungible |-> "TransferFungibleArguments",
        TransferNonFungible |-> "TransferNonFungibleArguments",
        CreateToken |-> "CreateTokenArguments", MintFungible |-> "MintFungibleArguments",
        BurnFungible |-> "BurnFungibleArguments", GetBalance |-> "BalanceArguments",
        CreateTokenSeries |-> "TokenSeriesArguments",
        DeleteTokenSeries |-> "TokenSeriesReferenceArguments",
        MintNonFungible |-> "MintNonFungibleArguments",
        BurnNonFungible |-> "BurnNonFungibleArguments",
        GetNonFungibleInfo |-> "NonFungibleInfoArguments",
        GetNonFungibleInfoByRomId |-> "NonFungibleInfoByRomIdArguments",
        GetSeriesInfo |-> "TokenSeriesReferenceArguments",
        GetSeriesInfoByMetaId |-> "SeriesInfoByMetaIdArguments",
        GetTokenInfo |-> "TokenReferenceArguments", GetTokenInfoBySymbol |-> "SymbolArguments",
        GetTokenSupply |-> "TokenReferenceArguments",
        GetSeriesSupply |-> "TokenSeriesReferenceArguments",
        GetTokenIdBySymbol |-> "SymbolArguments", GetBalances |-> "AddressArguments",
        CreateMintedTokenSeries |-> "CreateMintedTokenSeriesArguments",
        ApplyInflation |-> "TokenReferenceArguments",
        UpdateTokenMetadata |-> "UpdateTokenMetadataArguments",
        GetNextTokenInflation |-> "TokenReferenceArguments",
        SetTokensConfig |-> "TokensConfigArguments",
        UpdateSeriesMetadata |-> "UpdateSeriesMetadataArguments",
        MintPhantasmaNonFungible |-> "MintPhantasmaNonFungibleArguments"]]

\* The arguments a node could not decode are told by their content; a pair that
\* is not in the table has no record.
Unmodelled == "unmodelled"
Methods(module) ==
    IF module \in DOMAIN SpecialResolutionArgumentsTable THEN DOMAIN SpecialResolutionArgumentsTable[module] ELSE {}
ArgumentsOf(module, method) ==
    IF method \in Methods(module) THEN SpecialResolutionArgumentsTable[module][method] ELSE Unmodelled
ArgumentsShape(value, module, method) ==
    IF value.shape = "object" /\ "rawArgs" \in DOMAIN value.of THEN "RawArguments"
    ELSE ArgumentsOf(module, method)

-----------------------------------------------------------------------------
\* Extended events and what they carry.
ParseTokenCreateData ==
    Strings(<<"symbol", "maxSupply">>)
    \o <<UInt32("decimals"), Bool("isNonFungible"), UInt64("carbonTokenId"), Maybe(Of("EventMetadata", "metadata"))>>
ParseTokenSeriesCreateData ==
    Strings(<<"symbol", "seriesId">>)
    \o <<UInt32("maxMint"), UInt32("maxSupply"), String("owner"), UInt64("carbonTokenId"),
         UInt32("carbonSeriesId"), Maybe(Of("EventMetadata", "metadata"))>>
ParseMarketOrderData ==
    Strings(<<"baseSymbol", "quoteSymbol", "tokenId">>)
    \o UInt64s(<<"carbonBaseTokenId", "carbonQuoteTokenId", "carbonInstanceId">>)
    \o Strings(<<"seller", "buyer", "price", "endPrice">>)
    \o <<Int64("startDate"), Int64("endDate"), String("type")>>
ParseSpecialResolutionCall ==
    <<UInt32("moduleId"), String("module"), UInt32("methodId"), String("method"), Kept("arguments"),
      List("calls", "SpecialResolutionCall")>>
ParseSpecialResolutionData ==
    <<UInt64("resolutionId"), Maybe(String("description")), List("calls", "SpecialResolutionCall")>>
ParseEventExtended ==
    <<String("address"), String("contract"), Maybe(String("kind")), Kept("data")>>

EventRecords == [
    TokenCreateData |-> Assigned(ParseTokenCreateData),
    TokenSeriesCreateData |-> Assigned(ParseTokenSeriesCreateData),
    MarketOrderData |-> Assigned(ParseMarketOrderData),
    SpecialResolutionCall |-> Assigned(ParseSpecialResolutionCall),
    SpecialResolutionData |-> Assigned(ParseSpecialResolutionData),
    EventExtended |-> Assigned(ParseEventExtended)]

\* The record an event's data is, by its kind.
EventShapes == [
    TokenCreate |-> "TokenCreateData", TokenSeriesCreate |-> "TokenSeriesCreateData",
    OrderCreated |-> "MarketOrderData", OrderCancelled |-> "MarketOrderData",
    OrderFilled |-> "MarketOrderData", SpecialResolution |-> "SpecialResolutionData"]
DataShape(kind) == IF kind \in DOMAIN EventShapes THEN EventShapes[kind] ELSE Unmodelled

\* What a member says, the empty text when it is absent or says none.
Says(value, key) ==
    IF key \in DOMAIN value.of /\ value.of[key].shape \in {"string", "digits", "number"}
    THEN value.of[key].of ELSE ""

\* The record of a kept payload, from the members beside it.
PayloadShape(value, key) ==
    IF key = "arguments" THEN ArgumentsShape(value.of[key], Says(value, "module"), Says(value, "method"))
    ELSE DataShape(Says(value, "kind"))

=============================================================================

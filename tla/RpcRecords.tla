----------------------------- MODULE RpcRecords -----------------------------
(***************************************************************************)
(* The records of the answers (include/PhantasmaAPI.h): for each struct the *)
(* order of its members and the deserializer that fills them, and Read,    *)
(* which applies them to a value of an answer.                             *)
(***************************************************************************)
EXTENDS RpcArguments

Balance == <<"chain", "amount", "symbol", "decimals", "ids">>
DeserializeBalance == Strings(<<"chain", "amount", "symbol">>) \o <<UInt32("decimals"),
    List("ids", "String")>>
Interop == <<"local", "external">>
DeserializeInterop == <<String("local"), String("external")>>
Platform == <<"platform", "chain", "fuel", "tokens", "interop">>
DeserializePlatform == Strings(<<"platform", "chain", "fuel">>) \o <<List("tokens", "String"),
    List("interop", "Interop")>>
Governance == <<"name", "value">>
DeserializeGovernance == <<String("name"), String("value")>>
Organization == <<"name", "owner", "carbonOwner", "metadata", "memberCount">>
DeserializeOrganization == MaybeStrings(<<"name", "owner", "carbonOwner">>)
    \o <<List("metadata", "TokenProperty"), Maybe(String("memberCount"))>>
OrganizationMember == <<"address", "carbonAddress", "isMember", "memberTime">>
DeserializeOrganizationMember == <<Maybe(String("address")), Maybe(String("carbonAddress")),
    Maybe(Bool("isMember")), Maybe(UInt64("memberTime"))>>
Nexus == <<"name", "platforms", "tokens", "chains", "governance", "organizations">>
DeserializeNexus == <<String("name"), List("platforms", "Platform"), List("tokens", "Token"),
    List("chains", "Chain"), List("governance", "Governance"), List("organizations", "String")>>
Stake == <<"amount", "time", "unclaimed">>
DeserializeStakeOutOfOrder == <<String("unclaimed"), UInt32("time"), String("amount")>>
DeserializeStake == <<String("amount"), UInt32("time"), String("unclaimed")>>
Storage == <<"available", "used", "avatar", "archives">>
DeserializeStorage == <<UInt32("available"), UInt32("used"), String("avatar"),
    List("archives", "Archive")>>
AccountInfo == <<"address", "name", "stake">>
DeserializeAccountInfo == <<String("address"), String("name"), Of("Stake", "stake")>>
Account == <<"address", "name", "stakes", "stake", "unclaimed", "relay", "validator", "storage",
    "balances", "txs">>
DeserializeAccount == <<String("address"), String("name"), Of("Stake", "stakes"), String("stake"),
    String("unclaimed"), Maybe(String("relay")), String("validator"), Of("Storage", "storage"),
    List("balances", "Balance"), List("txs", "String")>>
LeaderboardRow == <<"address", "value">>
DeserializeLeaderboardRow == <<String("address"), String("value")>>
Leaderboard == <<"name", "rows">>
DeserializeLeaderboard == <<String("name"), List("rows", "LeaderboardRow")>>
Dapp == <<"name", "address", "chain">>
DeserializeDapp == Strings(<<"name", "address", "chain">>)
Chain == <<"name", "address", "parent", "height", "organization", "contracts", "dapps">>
DeserializeChain == <<String("name"), String("address"), Maybe(String("parent")), UInt32("height"),
    String("organization"), List("contracts", "String"), List("dapps", "String")>>
Event == <<"address", "contract", "kind", "name", "data">>
DeserializeEvent == <<String("address"), String("contract")>> \o MaybeStrings(<<"kind", "name",
    "data">>)
Oracle == <<"url", "content">>
DeserializeOracle == <<String("url"), String("content")>>
Signature == <<"kind", "data">>
DeserializeSignature == <<Maybe(String("kind")), Maybe(String("data"))>>
Transaction == <<"hash", "chainAddress", "timestamp", "blockHeight", "blockHash", "script", "payload",
    "carbonTxType", "carbonTxData", "events", "extendedEvents", "result", "debugComment", "fee",
    "signatures", "expiration", "state", "sender", "gasPayer", "gasTarget", "gasPrice", "gasLimit">>
DeserializeTransaction == <<String("hash"), String("chainAddress"), UInt32("timestamp"),
    Int32("blockHeight")>> \o Strings(<<"blockHash", "script", "payload">>)
    \o <<Maybe(UInt32("carbonTxType")), Maybe(String("carbonTxData")), List("events", "Event"),
    List("extendedEvents", "EventExtended"), String("result"), Maybe(String("debugComment")),
    String("fee"), List("signatures", "Signature"), UInt32("expiration")>> \o Strings(<<"state",
    "sender", "gasPayer", "gasTarget", "gasPrice", "gasLimit">>)
AccountTransactions == <<"address", "txs">>
DeserializeAccountTransactions == <<String("address"), List("txs", "Transaction")>>
Paginated == <<"page", "pageSize", "total", "totalPages", "result">>
DeserializePaginated == <<UInt32("page"), UInt32("pageSize"), UInt32("total"), UInt32("totalPages"),
    Of("Value", "result")>>
VmNamedVariableSchemaResult == <<"name", "schema">>
DeserializeVmNamedVariableSchemaResult == <<String("name"), Of("VmVariableSchemaResult", "schema")>>
VmStructSchemaResult == <<"fields", "flags">>
DeserializeVmStructSchemaResult == <<List("fields", "VmNamedVariableSchemaResult"), Int32("flags")>>
Block == <<"hash", "previousHash", "timestamp", "height", "chainAddress", "protocol", "txs",
    "validatorAddress", "producerAddress", "reward", "events", "oracles">>
DeserializeBlock == <<String("hash"), String("previousHash"), UInt32("timestamp"), UInt32("height"),
    String("chainAddress"), UInt32("protocol"), List("txs", "Transaction"), String("validatorAddress"),
    Maybe(String("producerAddress")), String("reward"), List("events", "Event"),
    List("oracles", "Oracle")>>
Token == <<"symbol", "name", "decimals", "currentSupply", "maxSupply", "carbonId", "burnedSupply",
    "address", "owner", "flags", "script", "series", "metadata", "tokenSchemas">>
DeserializeToken == <<String("symbol"), String("name"), Int32("decimals"), String("currentSupply"),
    String("maxSupply"), Maybe(String("carbonId"))>> \o Strings(<<"burnedSupply", "address", "owner",
    "flags", "script">>) \o <<List("series", "TokenSeries"), List("metadata", "TokenProperty"),
    Maybe(Of("TokenSchemas", "tokenSchemas"))>>
TokenSeries == <<"seriesId", "currentSupply", "maxSupply", "burnedSupply", "mode", "ownerAddress",
    "maxMint", "mintCount", "carbonTokenId", "carbonSeriesId", "script", "methods", "metadata">>
DeserializeTokenSeries == <<Maybe(String("seriesId")), String("currentSupply"), String("maxSupply"),
    Maybe(String("burnedSupply")), Maybe(Of("TokenSeriesMode", "mode"))>>
    \o MaybeStrings(<<"ownerAddress", "maxMint", "mintCount">>) \o <<String("carbonTokenId"),
    String("carbonSeriesId"), Maybe(String("script")), List("methods", "ABIMethod"),
    List("metadata", "TokenProperty")>>
BuildInfoResult == <<"version", "commit", "buildTimeUtc">>
DeserializeBuildInfoResult == Strings(<<"version", "commit", "buildTimeUtc">>)
PhantasmaVmConfig == <<"isStored", "featureLevel", "gasConstructor", "gasNexus", "gasOrganization",
    "gasAccount", "gasLeaderboard", "gasStandard", "gasOracle", "fuelPerContractDeploy">>
DeserializePhantasmaVmConfig == <<Bool("isStored"), Int32("featureLevel")>>
    \o Strings(<<"gasConstructor", "gasNexus", "gasOrganization", "gasAccount", "gasLeaderboard",
    "gasStandard", "gasOracle", "fuelPerContractDeploy">>)
TokenSchemas == <<"seriesMetadata", "rom", "ram">>
DeserializeTokenSchemas == <<Of("VmStructSchemaResult", "seriesMetadata"),
    Of("VmStructSchemaResult", "rom"), Of("VmStructSchemaResult", "ram")>>
TokenProperty == <<"key", "value">>
DeserializeTokenProperty == <<Maybe(String("key")), Maybe(Of("VmValue", "value"))>>
TokenData == <<"id", "series", "carbonTokenId", "carbonSeriesId", "carbonNftAddress", "mint",
    "chainName", "ownerAddress", "creatorAddress", "ram", "rom", "status", "infusion", "properties">>
DeserializeTokenData == <<Maybe(String("id")), String("series")>> \o MaybeStrings(<<"carbonTokenId",
    "carbonSeriesId", "carbonNftAddress">>) \o Strings(<<"mint", "chainName", "ownerAddress",
    "creatorAddress", "ram", "rom", "status">>) \o <<List("infusion", "TokenProperty"),
    List("properties", "TokenProperty")>>
SendRawTx == <<"hash", "error">>
DeserializeSendRawTx == <<String("hash"), String("error")>>
SendCarbonTx == <<"hash", "error">>
DeserializeSendCarbonTx == <<String("hash"), String("error")>>
Auction == <<"creatorAddress", "chainAddress", "startDate", "endDate", "baseSymbol", "quoteSymbol",
    "tokenId", "price", "rom", "ram">>
DeserializeAuction == <<String("creatorAddress"), String("chainAddress"), UInt32("startDate"),
    UInt32("endDate")>> \o Strings(<<"baseSymbol", "quoteSymbol", "tokenId", "price", "rom", "ram">>)
Script == <<"events", "result", "results", "oracles">>
DeserializeScript == <<List("events", "Event"), String("result"), List("results", "String"),
    List("oracles", "Oracle")>>
Archive == <<"name", "hash", "time", "size", "encryption", "blockCount", "missingBlocks", "owners">>
DeserializeArchive == <<String("name"), String("hash"), UInt32("time"), UInt32("size"),
    String("encryption"), Int32("blockCount"), List("missingBlocks", "Int32"),
    List("owners", "String")>>
ABIParameter == <<"name", "type">>
DeserializeABIParameter == <<String("name"), String("type")>>
ABIMethod == <<"name", "returnType", "parameters">>
DeserializeABIMethod == <<String("name"), String("returnType"), List("parameters", "ABIParameter")>>
ABIEvent == <<"value", "name", "returnType", "description">>
DeserializeABIEvent == <<Int32("value")>> \o Strings(<<"name", "returnType", "description">>)
Contract == <<"name", "address", "script", "methods", "events">>
DeserializeContract == Strings(<<"name", "address", "script">>) \o <<List("methods", "ABIMethod"),
    List("events", "ABIEvent")>>
Channel == <<"creatorAddress", "targetAddress", "name", "chain", "creationTime", "symbol", "fee",
    "balance", "active", "index">>
DeserializeChannel == Strings(<<"creatorAddress", "targetAddress", "name", "chain">>)
    \o <<UInt32("creationTime")>> \o Strings(<<"symbol", "fee", "balance">>) \o <<Bool("active"),
    Int32("index")>>
Receipt == <<"nexus", "channel", "index", "timestamp", "sender", "receiver", "script">>
DeserializeReceipt == Strings(<<"nexus", "channel", "index">>) \o <<UInt32("timestamp")>>
    \o Strings(<<"sender", "receiver", "script">>)
Peer == <<"url", "version", "flags", "fee", "pow">>
DeserializePeer == Strings(<<"url", "version", "flags", "fee">>) \o <<UInt32("pow")>>
Validator == <<"address", "type">>
DeserializeValidator == <<String("address"), String("type")>>
Swap == <<"sourcePlatform", "sourceChain", "sourceHash", "sourceAddress", "destinationPlatform",
    "destinationChain", "destinationHash", "destinationAddress", "symbol", "value">>
DeserializeSwap == Strings(<<"sourcePlatform", "sourceChain", "sourceHash", "sourceAddress",
    "destinationPlatform", "destinationChain", "destinationHash", "destinationAddress", "symbol",
    "value">>)
\* The gas configuration has a tail from version 1 on, and then every price of it is needed.
HasV2Fields(value) == Says(value, "version") \notin {"", "0"}
GasConfigTail == <<UInt64("minimumGasBill"), UInt64("gasProducerRatioMul"), UInt32("gasProducerRatioShift"),
    UInt64("gasDappRatioMul"), UInt32("gasDappRatioShift")>> \o UInt64s(<<"policyFeeCreateTokenBase",
    "policyFeeCreateTokenSymbol", "policyFeeCreateTokenSeries", "policyFeeRegisterName",
    "legacyDataEscrowPerRow">>)
DeserializeGasConfigData == UInt32s(<<"version", "maxNameLength", "maxTokenSymbolLength", "feeShift",
    "maxStructureSize">>) \o UInt64s(<<"feeMultiplier", "gasTokenId", "dataTokenId", "minimumGasOffer",
    "dataEscrowPerRow", "gasFeeTransfer", "gasFeeQuery", "gasFeeCreateTokenBase", "gasFeeCreateTokenSymbol",
    "gasFeeCreateTokenSeries", "gasFeePerByte", "gasFeeRegisterName", "gasBurnRatioMul">>)
    \o <<UInt32("gasBurnRatioShift")>> \o [i \in DOMAIN GasConfigTail |-> Strict(GasConfigTail[i])]
DeserializeGasConfigResult == <<UInt32("gasModelVersion"), Of("GasConfigData", "gasConfig"),
    UInt32("blockRateTarget"), UInt32("expiryWindow"), Maybe(UInt32("unitsPerBlockDataByte"))>>
DeserializeEstimateTransactionResult == <<Bool("wouldAbort"), Maybe(String("abortReason"))>>
    \o UInt64s(<<"gasBillKcalBase", "dataRows", "dataEscrowAtoms", "dataRefundAtoms",
    "recommendedMaxGas", "recommendedMaxData">>)
DeserializeVmVariableSchemaResult == <<String("type"), Maybe(Of("VmStructSchemaResult", "schema"))>>

-----------------------------------------------------------------------------
Records == ArgumentRecords @@ EventRecords @@ [
    Balance |-> Aggregate(Balance, DeserializeBalance),
    Interop |-> Aggregate(Interop, DeserializeInterop),
    Platform |-> Aggregate(Platform, DeserializePlatform),
    Governance |-> Aggregate(Governance, DeserializeGovernance),
    Organization |-> Aggregate(Organization, DeserializeOrganization),
    OrganizationMember |-> Aggregate(OrganizationMember, DeserializeOrganizationMember),
    Nexus |-> Aggregate(Nexus, DeserializeNexus), Stake |-> Aggregate(Stake, DeserializeStake),
    Storage |-> Aggregate(Storage, DeserializeStorage),
    AccountInfo |-> Aggregate(AccountInfo, DeserializeAccountInfo),
    Account |-> Aggregate(Account, DeserializeAccount),
    LeaderboardRow |-> Aggregate(LeaderboardRow, DeserializeLeaderboardRow),
    Leaderboard |-> Aggregate(Leaderboard, DeserializeLeaderboard),
    Dapp |-> Aggregate(Dapp, DeserializeDapp), Chain |-> Aggregate(Chain, DeserializeChain),
    Event |-> Aggregate(Event, DeserializeEvent), Oracle |-> Aggregate(Oracle, DeserializeOracle),
    Signature |-> Aggregate(Signature, DeserializeSignature),
    Transaction |-> Aggregate(Transaction, DeserializeTransaction),
    AccountTransactions |-> Aggregate(AccountTransactions, DeserializeAccountTransactions),
    Paginated |-> Aggregate(Paginated, DeserializePaginated),
    VmNamedVariableSchemaResult |-> Aggregate(VmNamedVariableSchemaResult, DeserializeVmNamedVariableSchemaResult),
    VmStructSchemaResult |-> Aggregate(VmStructSchemaResult, DeserializeVmStructSchemaResult),
    Block |-> Aggregate(Block, DeserializeBlock), Token |-> Aggregate(Token, DeserializeToken),
    TokenSeries |-> Aggregate(TokenSeries, DeserializeTokenSeries),
    BuildInfoResult |-> Aggregate(BuildInfoResult, DeserializeBuildInfoResult),
    PhantasmaVmConfig |-> Aggregate(PhantasmaVmConfig, DeserializePhantasmaVmConfig),
    TokenSchemas |-> Aggregate(TokenSchemas, DeserializeTokenSchemas),
    TokenProperty |-> Aggregate(TokenProperty, DeserializeTokenProperty),
    TokenData |-> Aggregate(TokenData, DeserializeTokenData),
    SendRawTx |-> Aggregate(SendRawTx, DeserializeSendRawTx),
    SendCarbonTx |-> Aggregate(SendCarbonTx, DeserializeSendCarbonTx),
    Auction |-> Aggregate(Auction, DeserializeAuction), Script |-> Aggregate(Script, DeserializeScript),
    Archive |-> Aggregate(Archive, DeserializeArchive),
    ABIParameter |-> Aggregate(ABIParameter, DeserializeABIParameter),
    ABIMethod |-> Aggregate(ABIMethod, DeserializeABIMethod),
    ABIEvent |-> Aggregate(ABIEvent, DeserializeABIEvent),
    Contract |-> Aggregate(Contract, DeserializeContract),
    Channel |-> Aggregate(Channel, DeserializeChannel),
    Receipt |-> Aggregate(Receipt, DeserializeReceipt), Peer |-> Aggregate(Peer, DeserializePeer),
    Validator |-> Aggregate(Validator, DeserializeValidator), Swap |-> Aggregate(Swap, DeserializeSwap),
    GasConfigData |-> Assigned(DeserializeGasConfigData),
    GasConfigResult |-> Assigned(DeserializeGasConfigResult),
    EstimateTransactionResult |-> Assigned(DeserializeEstimateTransactionResult),
    VmVariableSchemaResult |-> Assigned(DeserializeVmVariableSchemaResult)]

-----------------------------------------------------------------------------
\* The values a reading reads, in order: none when there is nothing to read.
ValuesOf(reading, value) ==
    CASE reading.key \notin DOMAIN value.of -> <<>>
      [] reading.key \in DOMAIN value.of /\ reading.need # "list" -> <<value.of[reading.key]>>
      [] OTHER -> IF value.of[reading.key].shape = "array" THEN Elements(value.of[reading.key].of) ELSE <<>>
ShapeOf(reading, value) ==
    IF reading.need = "kept" /\ reading.key \in DOMAIN value.of THEN PayloadShape(value, reading.key)
    ELSE reading.as

\* A payload that is not what its siblings say stays JSON, and the answer that
\* carries it does not fail for it.
SettleStrict(value, answer) == answer
Settle(value, answer) == IF answer.bad THEN Answer(KeptJson(value), FALSE) ELSE answer

\* A member from what was read for it.
Missing(reading) == Answer(Unset, reading.need \in {"always", "strict"} /\ reading.as # "Value")
Listed(answers)  == Answer(Array([i \in DOMAIN answers |-> answers[i].value]), \E i \in DOMAIN answers : answers[i].bad)
Member(reading, values, answers) ==
    CASE reading.need = "list" -> Listed(answers)
      [] reading.need # "list" /\ values = <<>> -> Missing(reading)
      [] reading.need = "kept" /\ values # <<>> -> Settle(values[1], answers[1])
      [] OTHER -> answers[1]

\* The i-th reading fills the i-th member.
Filled(members, answers) ==
    Answer(Object([m \in ToSet(members) |-> answers[CHOOSE i \in DOMAIN members : members[i] = m].value]),
           \E i \in DOMAIN answers : answers[i].bad)

\* The tail of a gas configuration of version 0 is not looked for.
Needed(as, record, value) ==
    IF as = "GasConfigData" /\ ~HasV2Fields(value)
    THEN SelectSeq(record.readings, LAMBDA r : r.need # "strict") ELSE record.readings

RECURSIVE Read(_, _)
ReadMember(reading, as, values, value) ==
    Member(reading, values, [i \in DOMAIN values |-> Read(as, values[i])])
ReadMembers(members, readings, value) ==
    Filled(SubSeq(members, 1, Len(readings)),
        [i \in DOMAIN readings |->
            ReadMember(readings[i], ShapeOf(readings[i], value), ValuesOf(readings[i], value), value)])
Read(as, value) ==
    CASE as \in Scalars -> Convert(as, value)
      [] as \in DOMAIN Records /\ value.shape = "object" ->
            ReadMembers(Records[as].members, Needed(as, Records[as], value), value)
      [] OTHER -> Answer(Unset, TRUE)

-----------------------------------------------------------------------------
(* Documents of the node's making: every member a record declares, under   *)
(* its own name and with a text of its own, some records deep.             *)
RECURSIVE Sample(_, _, _)
SampleList(as, depth) ==
    Array(IF depth = 0 THEN <<>> ELSE <<Sample(as, "first", depth - 1), Sample(as, "second", depth - 1)>>)
SampleMember(reading, member, depth) ==
    IF reading.need = "list" THEN SampleList(reading.as, depth)
    ELSE Sample(reading.as, member, IF depth = 0 THEN 0 ELSE depth - 1)
Shown(reading, depth) == depth > 0 \/ reading.need # "maybe" \/ reading.as \in Scalars
SampleRecord(members, readings, depth) ==
    Object([m \in {members[i] : i \in {j \in DOMAIN members : Shown(readings[j], depth)}} |->
        SampleMember(readings[CHOOSE i \in DOMAIN members : members[i] = m], m, depth)])
Sample(as, text, depth) ==
    CASE as \in {"String", "Payload"} -> Str(text)
      [] as \in Numbers -> Num(text)
      [] as = "Bool"    -> Boolean(text)
      [] as = "TokenSeriesMode" -> Str("Duplicated")
      [] as \in {"Value", "EventMetadata"} -> Object([inner |-> Str(text)])
      [] as \in {"VmValue", "VmMetadata"}  ->
            Object([inner |-> Array(<<Str(text), Num("12"), Object([deep |-> Quoted(text)])>>)])
      [] OTHER -> SampleRecord(Records[as].members, Records[as].readings, depth)
Document(as) == Sample(as, as, 2)

\* A document with one member left out, or given otherwise.
Otherwise == <<Null, Str("Unique"), Quoted("1"), Num("0"), Boolean("true"), Array(<<>>),
    Array(<<Num("12"), Null, Str("Unique")>>), Object([x \in {} |-> Null])>>
Without(doc, member) == Object([m \in DOMAIN doc.of \ {member} |-> doc.of[m]])
With(doc, member, value) ==
    Object([m \in DOMAIN doc.of \cup {member} |-> IF m = member THEN value ELSE doc.of[m]])
Ways == 0 .. Len(Otherwise)
Variant(doc, member, way) == IF way = 0 THEN Without(doc, member) ELSE With(doc, member, Otherwise[way])

\* What was read says what the document says: every member its own text, a
\* mode's number the word for it, and a list that is not one no elements.
Empty(read) == \/ read.shape = "content" /\ read.of = ""
               \/ read.shape = "array" /\ read.of = <<>>
Same(text, said) == text = said \/ <<text, said>> \in {<<"Duplicated", "1">>, <<"Unique", "0">>}
RECURSIVE Agrees(_, _)
AgreeInOrder(read, said) == DOMAIN read = DOMAIN said /\ \A i \in DOMAIN read : Agrees(read[i], said[i])
Agrees(read, said) ==
    CASE read.shape = "kept"    -> read.of = said
      [] read.shape = "content" -> said.shape \notin {"array", "object"} /\ Same(read.of, said.of)
      [] read.shape = "array"   -> IF said.shape = "array" THEN AgreeInOrder(read.of, Elements(said.of)) ELSE Empty(read)
      [] read.shape = "object"  -> said.shape = "object" /\ \A k \in DOMAIN read.of :
            IF k \in DOMAIN said.of THEN Agrees(read.of[k], said.of[k]) ELSE Empty(read.of[k])

\* A gas configuration of a later version has every price its fees are made of.
PricesAreWhole(read, as) ==
    as = "GasConfigData" /\ read.of["version"].of # "0" =>
        \A i \in DOMAIN GasConfigTail : ~Empty(read.of[GasConfigTail[i].key])
AnswerIsRead(as, doc, intact, answer) ==
    /\ ~answer.bad => Agrees(answer.value, doc) /\ PricesAreWhole(answer.value, as)
    /\ intact => ~answer.bad /\ DOMAIN answer.value.of = DOMAIN doc.of
RecordIsRead(as, doc, intact) == AnswerIsRead(as, doc, intact, Read(as, doc))

\* A payload: a record's, or with a member given otherwise, or another value.
Payload(doc, member, way) ==
    CASE member # "" -> Variant(doc, member, way)
      [] member = "" /\ way = 0 -> doc
      [] OTHER -> Otherwise[way]
SampleFor(as) == IF as = Unmodelled THEN Document("RawArguments") ELSE Document(as)
MembersFor(as) == DOMAIN SampleFor(as).of \cup {"", "rawArgs"}

\* An extended event, and one whose only call has the arguments.
EventOf(kind, data) == Object([address |-> Str("a"), contract |-> Str("c"), kind |-> Str(kind), data |-> data])
CallOf(module, method, arguments) ==
    Object([moduleId |-> Num("12"), module |-> Str(module), methodId |-> Num("12"), method |-> Str(method),
            arguments |-> arguments])
ResolutionOf(call) == EventOf("SpecialResolution", Object([resolutionId |-> Num("12"), calls |-> Array(<<call>>)]))
ArgumentsIn(event) == event.of["data"].of["calls"].of[1].of["arguments"]

\* A payload is kept as it was or read for what it says; a whole one of a known
\* record is read and loses nothing.
PayloadIsHeld(read, said, whole) ==
    /\ Agrees(read, said)
    /\ whole => read.shape = "object" /\ DOMAIN read.of = DOMAIN said.of
EventIsHeld(event, whole, answer) == ~answer.bad /\ PayloadIsHeld(answer.value.of["data"], event.of["data"], whole)
CallIsHeld(event, whole, answer) == ~answer.bad /\ PayloadIsHeld(ArgumentsIn(answer.value), ArgumentsIn(event), whole)
EventIsTotal(event, whole) == EventIsHeld(event, whole, Read("EventExtended", event))
CallIsTotal(event, whole)  == CallIsHeld(event, whole, Read("EventExtended", event))

=============================================================================

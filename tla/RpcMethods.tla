----------------------------- MODULE RpcMethods -----------------------------
(***************************************************************************)
(* The methods of the node (include/PhantasmaAPI.h): what a request asks,  *)
(* how its answer is parsed, and the calls of class PhantasmaAPI, which    *)
(* post the one and parse the other.  The envelope of an answer is         *)
(* JsonRpc's; here an answer is the result in it, or refused.              *)
(***************************************************************************)
EXTENDS RpcRecords

\* A parameter of a request, in its place.  An optional one is the last, and is
\* left out when the caller has none to give.
Param(type, name) == [type |-> type, name |-> name, optional |-> FALSE]
Text(name)   == Param("Text", name)
Texts(name)  == Param("Texts", name)
Flag(name)   == Param("Flag", name)
Number(name) == Param("Number", name)
Optional(param) == [param EXCEPT !.optional = TRUE]

\* A result is one value, a list, a list with the cursor of the next page, or
\* what a numbered page holds; one transaction, which must have halted.
Result(form, as) == [form |-> form, as |-> as]
One(as)    == Result("one", as)
Halted(as) == Result("halted", as)
Many(as)   == Result("list", as)
Cursor(as) == Result("cursor", as)
Page(as)   == Result("page", as)
Pages(as)  == Result("pages", as)

Method(wire, params, result) == [wire |-> wire, params |-> params, result |-> result]
Calls(method, arguments)     == [method |-> method, arguments |-> arguments]

-----------------------------------------------------------------------------
GetAccountInfo == Method("getAccountInfo", <<Text("account")>>, One("AccountInfo"))
GetAccountInfos == Method("getAccountInfos", <<Texts("addresses")>>, Many("AccountInfo"))
GetAccountInfosOfTypeText == Method("getAccountInfos", <<Texts("addresses"),
    Flag("checkAddressReservedByte"), Text("addressType")>>, Many("AccountInfo"))
GetAccountInfosOfType == Method("getAccountInfos", <<Texts("addresses"),
    Flag("checkAddressReservedByte"), Text("addressType")>>, Many("AccountInfo"))
GetAccount == Method("getAccount", <<Text("account")>>, One("Account"))
GetAccounts == Method("getAccounts", <<Text("accountText"), Flag("extended"),
    Flag("checkAddressReservedByte")>>, Many("Account"))
LookUpName == Method("lookUpName", <<Text("name")>>, One("String"))
GetBlockHeight == Method("getBlockHeight", <<Text("chainInput")>>, One("Int32"))
GetBlockTransactionCountByHash == Method("getBlockTransactionCountByHash", <<Text("chainAddressOrName"),
    Text("blockHash")>>, One("Int32"))
GetBlockByHash == Method("getBlockByHash", <<Text("blockHash")>>, One("Block"))
GetBlockByHeight == Method("getBlockByHeight", <<Text("chainInput"), Text("height")>>, One("Block"))
GetLatestBlock == Method("getLatestBlock", <<Text("chainInput")>>, One("Block"))
GetTransactionByBlockHashAndIndex == Method("getTransactionByBlockHashAndIndex",
    <<Text("chainAddressOrName"), Text("blockHash"), Number("index")>>, One("Transaction"))
GetAddressTransactions == Method("getAddressTransactions", <<Text("account"), Number("page"),
    Number("pageSize")>>, Page("AccountTransactions"))
GetAddressTransactionCount == Method("getAddressTransactionCount", <<Text("account"),
    Text("chainInput")>>, One("Int32"))
SendRawTransaction == Method("sendRawTransaction", <<Text("txData")>>, One("String"))
SendCarbonTransaction == Method("sendCarbonTransaction", <<Text("txData")>>, One("String"))
InvokeRawScript == Method("invokeRawScript", <<Text("chainInput"), Text("scriptData")>>, One("Script"))
GetTransaction == Method("getTransaction", <<Text("hashText")>>, Halted("Transaction"))
GetChains == Method("getChains", <<>>, Many("Chain"))
GetChain == Method("getChain", <<Text("name"), Flag("extended")>>, One("Chain"))
GetGasConfig == Method("getGasConfig", <<>>, One("GasConfigResult"))
EstimateTransaction == Method("estimateTransaction", <<Text("txData")>>,
    One("EstimateTransactionResult"))
GetNexus == Method("getNexus", <<Flag("extended")>>, One("Nexus"))
GetOrganization == Method("getOrganization", <<Text("name"), Flag("includeMemberCount")>>,
    One("Organization"))
GetOrganizations == Method("getOrganizations", <<Number("pageSize"), Text("cursor"),
    Flag("includeMemberCount")>>, Cursor("Organization"))
GetOrganizationMembers == Method("getOrganizationMembers", <<Text("name"), Number("pageSize"),
    Text("cursor"), Flag("includeMemberTime")>>, Cursor("OrganizationMember"))
GetOrganizationMember == Method("getOrganizationMember", <<Text("name"), Text("address"),
    Flag("checkAddressReservedByte"), Text("addressType")>>, One("OrganizationMember"))
GetOrganizationMemberOfType == Method("getOrganizationMember", <<Text("name"), Text("address"),
    Flag("checkAddressReservedByte"), Text("addressType")>>, One("OrganizationMember"))
GetLeaderboard == Method("getLeaderboard", <<Text("name")>>, One("Leaderboard"))
GetTokens == Method("getTokens", <<Flag("extended"), Optional(Text("ownerAddress"))>>, Many("Token"))
GetToken == Method("getToken", <<Text("symbol"), Flag("extended"), Optional(Number("carbonTokenId"))>>,
    One("Token"))
GetTokenSeries == Method("getTokenSeries", <<Text("symbol"), Number("carbonTokenId"),
    Number("pageSize"), Text("cursor")>>, Cursor("TokenSeries"))
GetTokenSeriesById == Method("getTokenSeriesById", <<Text("symbol"), Number("carbonTokenId"),
    Text("seriesId"), Number("carbonSeriesId")>>, One("TokenSeries"))
GetTokenNFTs == Method("getTokenNFTs", <<Number("carbonTokenId"), Number("carbonSeriesId"),
    Number("pageSize"), Text("cursor"), Flag("extended")>>, Cursor("TokenData"))
GetTokenData == Method("getTokenData", <<Text("symbol"), Text("IDtext")>>, One("TokenData"))
GetNFT == Method("getNFT", <<Text("symbol"), Text("IDtext"), Flag("extended")>>, One("TokenData"))
GetNFTs == Method("getNFTs", <<Text("symbol"), Text("IDtext"), Flag("extended")>>, Many("TokenData"))
GetTokenBalance == Method("getTokenBalance", <<Text("account"), Text("tokenSymbol"),
    Text("chainInput")>>, One("Balance"))
GetTokenBalanceOfType == Method("getTokenBalance", <<Text("account"), Text("tokenSymbol"),
    Text("chainInput"), Flag("checkAddressReservedByte"), Text("addressType")>>, One("Balance"))
GetAccountFungibleTokens == Method("getAccountFungibleTokens", <<Text("account"), Text("tokenSymbol"),
    Number("carbonTokenId"), Number("pageSize"), Text("cursor"), Flag("checkAddressReservedByte")>>,
    Cursor("Balance"))
GetAccountFungibleTokensOfType == Method("getAccountFungibleTokens", <<Text("account"),
    Text("tokenSymbol"), Number("carbonTokenId"), Number("pageSize"), Text("cursor"),
    Flag("checkAddressReservedByte"), Text("addressType")>>, Cursor("Balance"))
GetAccountNFTs == Method("getAccountNFTs", <<Text("account"), Text("tokenSymbol"),
    Number("carbonTokenId"), Number("carbonSeriesId"), Number("pageSize"), Text("cursor"),
    Flag("extended"), Flag("checkAddressReservedByte")>>, Cursor("TokenData"))
GetAccountNFTsOfType == Method("getAccountNFTs", <<Text("account"), Text("tokenSymbol"),
    Number("carbonTokenId"), Number("carbonSeriesId"), Number("pageSize"), Text("cursor"),
    Flag("extended"), Flag("checkAddressReservedByte"), Text("addressType")>>, Cursor("TokenData"))
GetAccountOwnedTokens == Method("getAccountOwnedTokens", <<Text("account"), Text("tokenSymbol"),
    Number("carbonTokenId"), Number("pageSize"), Text("cursor"), Flag("checkAddressReservedByte")>>,
    Cursor("Token"))
GetAccountOwnedTokensOfType == Method("getAccountOwnedTokens", <<Text("account"), Text("tokenSymbol"),
    Number("carbonTokenId"), Number("pageSize"), Text("cursor"), Flag("checkAddressReservedByte"),
    Text("addressType")>>, Cursor("Token"))
GetAccountOwnedTokenSeries == Method("getAccountOwnedTokenSeries", <<Text("account"),
    Text("tokenSymbol"), Number("carbonTokenId"), Number("pageSize"), Text("cursor"),
    Flag("checkAddressReservedByte")>>, Cursor("TokenSeries"))
GetAccountOwnedTokenSeriesOfType == Method("getAccountOwnedTokenSeries", <<Text("account"),
    Text("tokenSymbol"), Number("carbonTokenId"), Number("pageSize"), Text("cursor"),
    Flag("checkAddressReservedByte"), Text("addressType")>>, Cursor("TokenSeries"))
GetAuctionsCount == Method("getAuctionsCount", <<Text("chainAddressOrName"), Text("symbol")>>,
    One("Int32"))
GetAuctions == Method("getAuctions", <<Text("chainAddressOrName"), Text("symbol"), Number("page"),
    Number("pageSize")>>, Pages("Auction"))
GetAuction == Method("getAuction", <<Text("chainAddressOrName"), Text("symbol"), Text("IDtext")>>,
    One("Auction"))
GetArchive == Method("getArchive", <<Text("hashText")>>, One("Archive"))
WriteArchive == Method("writeArchive", <<Text("hashText"), Number("blockIndex"), Text("blockContent")>>,
    One("Bool"))
ReadArchive == Method("readArchive", <<Text("hashText"), Number("blockIndex")>>, One("String"))
GetContract == Method("getContract", <<Text("chainAddressOrName"), Text("contractName")>>,
    One("Contract"))
GetContracts == Method("getContracts", <<Text("chainAddressOrName"), Flag("extended")>>,
    Many("Contract"))
GetContractByAddress == Method("getContractByAddress", <<Text("chainAddressOrName"),
    Text("contractAddress")>>, One("Contract"))
GetVersion == Method("getVersion", <<>>, One("BuildInfoResult"))
GetPhantasmaVmConfig == Method("getPhantasmaVmConfig", <<Text("chainAddressOrName")>>,
    One("PhantasmaVmConfig"))

Requests == << GetAccountInfo, GetAccountInfos, GetAccountInfosOfTypeText, GetAccountInfosOfType,
    GetAccount, GetAccounts, LookUpName, GetBlockHeight, GetBlockTransactionCountByHash, GetBlockByHash,
    GetBlockByHeight, GetLatestBlock, GetTransactionByBlockHashAndIndex, GetAddressTransactions,
    GetAddressTransactionCount, SendRawTransaction, SendCarbonTransaction, InvokeRawScript,
    GetTransaction, GetChains, GetChain, GetGasConfig, EstimateTransaction, GetNexus, GetOrganization,
    GetOrganizations, GetOrganizationMembers, GetOrganizationMember, GetOrganizationMemberOfType,
    GetLeaderboard, GetTokens, GetToken, GetTokenSeries, GetTokenSeriesById, GetTokenNFTs, GetTokenData,
    GetNFT, GetNFTs, GetTokenBalance, GetTokenBalanceOfType, GetAccountFungibleTokens,
    GetAccountFungibleTokensOfType, GetAccountNFTs, GetAccountNFTsOfType, GetAccountOwnedTokens,
    GetAccountOwnedTokensOfType, GetAccountOwnedTokenSeries, GetAccountOwnedTokenSeriesOfType,
    GetAuctionsCount, GetAuctions, GetAuction, GetArchive, WriteArchive, ReadArchive, GetContract,
    GetContracts, GetContractByAddress, GetVersion, GetPhantasmaVmConfig>>

-----------------------------------------------------------------------------
\* The calls of class PhantasmaAPI, by the arguments of their signatures.
CallGetAccountInfo == Calls(GetAccountInfo, <<"account">>)
CallGetAccountInfos == Calls(GetAccountInfos, <<"addresses">>)
CallGetAccount == Calls(GetAccount, <<"account">>)
CallGetAccounts == Calls(GetAccounts, <<"accountText", "extended", "checkAddressReservedByte">>)
CallLookUpName == Calls(LookUpName, <<"name">>)
CallGetBlockHeight == Calls(GetBlockHeight, <<"chainInput">>)
CallGetBlockTransactionCountByHash == Calls(GetBlockTransactionCountByHash, <<"chainAddressOrName",
    "blockHash">>)
CallGetBlockByHash == Calls(GetBlockByHash, <<"blockHash">>)
CallGetBlockByHeight == Calls(GetBlockByHeight, <<"chainInput", "height">>)
CallGetLatestBlock == Calls(GetLatestBlock, <<"chainInput">>)
CallGetTransactionByBlockHashAndIndex == Calls(GetTransactionByBlockHashAndIndex,
    <<"chainAddressOrName", "blockHash", "index">>)
CallGetAddressTransactions == Calls(GetAddressTransactions, <<"account", "page", "pageSize">>)
CallGetAddressTransactionCount == Calls(GetAddressTransactionCount, <<"account", "chainInput">>)
CallSendRawTransaction == Calls(SendRawTransaction, <<"txData">>)
CallSendCarbonTransaction == Calls(SendCarbonTransaction, <<"txData">>)
CallInvokeRawScript == Calls(InvokeRawScript, <<"chainInput", "scriptData">>)
CallGetTransaction == Calls(GetTransaction, <<"hashText">>)
CallGetChains == Calls(GetChains, <<>>)
CallGetChain == Calls(GetChain, <<"name", "extended">>)
CallGetGasConfig == Calls(GetGasConfig, <<>>)
CallEstimateTransaction == Calls(EstimateTransaction, <<"txData">>)
CallGetNexus == Calls(GetNexus, <<"extended">>)
CallGetOrganizationPlain == Calls(GetOrganization, <<"name", "includeMemberCount">>)
CallGetOrganization == Calls(GetOrganization, <<"name", "includeMemberCount">>)
CallGetOrganizations == Calls(GetOrganizations, <<"pageSize", "cursor", "includeMemberCount">>)
CallGetOrganizationMembers == Calls(GetOrganizationMembers, <<"name", "pageSize", "cursor",
    "includeMemberTime">>)
CallGetOrganizationMember == Calls(GetOrganizationMember, <<"name", "address",
    "checkAddressReservedByte", "addressType">>)
CallGetOrganizationMemberOfType == Calls(GetOrganizationMemberOfType, <<"name", "address",
    "checkAddressReservedByte", "addressType">>)
CallGetLeaderboard == Calls(GetLeaderboard, <<"name">>)
CallGetTokens == Calls(GetTokens, <<"extended">>)
CallGetTokensOwned == Calls(GetTokens, <<"extended", "ownerAddress">>)
CallGetToken == Calls(GetToken, <<"symbol", "extended">>)
CallGetTokenNumbered == Calls(GetToken, <<"symbol", "extended", "carbonTokenId">>)
CallGetTokenSeries == Calls(GetTokenSeries, <<"symbol", "carbonTokenId", "pageSize", "cursor">>)
CallGetTokenSeriesById == Calls(GetTokenSeriesById, <<"symbol", "carbonTokenId", "seriesId",
    "carbonSeriesId">>)
CallGetTokenNFTs == Calls(GetTokenNFTs, <<"carbonTokenId", "carbonSeriesId", "pageSize", "cursor",
    "extended">>)
CallGetTokenData == Calls(GetTokenData, <<"symbol", "IDtext">>)
CallGetNFT == Calls(GetNFT, <<"symbol", "IDtext", "extended">>)
CallGetNFTs == Calls(GetNFTs, <<"symbol", "IDtext", "extended">>)
CallGetTokenBalance == Calls(GetTokenBalance, <<"account", "tokenSymbol", "chainInput">>)
CallGetTokenBalanceOfType == Calls(GetTokenBalanceOfType, <<"account", "tokenSymbol", "chainInput",
    "checkAddressReservedByte", "addressType">>)
CallGetAccountFungibleTokens == Calls(GetAccountFungibleTokens, <<"account", "tokenSymbol",
    "carbonTokenId", "pageSize", "cursor", "checkAddressReservedByte">>)
CallGetAccountFungibleTokensOfType == Calls(GetAccountFungibleTokensOfType, <<"account", "tokenSymbol",
    "carbonTokenId", "pageSize", "cursor", "checkAddressReservedByte", "addressType">>)
CallGetAccountNFTs == Calls(GetAccountNFTs, <<"account", "tokenSymbol", "carbonTokenId",
    "carbonSeriesId", "pageSize", "cursor", "extended", "checkAddressReservedByte">>)
CallGetAccountNFTsOfType == Calls(GetAccountNFTsOfType, <<"account", "tokenSymbol", "carbonTokenId",
    "carbonSeriesId", "pageSize", "cursor", "extended", "checkAddressReservedByte", "addressType">>)
CallGetAccountOwnedTokens == Calls(GetAccountOwnedTokens, <<"account", "tokenSymbol", "carbonTokenId",
    "pageSize", "cursor", "checkAddressReservedByte">>)
CallGetAccountOwnedTokensOfType == Calls(GetAccountOwnedTokensOfType, <<"account", "tokenSymbol",
    "carbonTokenId", "pageSize", "cursor", "checkAddressReservedByte", "addressType">>)
CallGetAccountOwnedTokenSeries == Calls(GetAccountOwnedTokenSeries, <<"account", "tokenSymbol",
    "carbonTokenId", "pageSize", "cursor", "checkAddressReservedByte">>)
CallGetAccountOwnedTokenSeriesOfType == Calls(GetAccountOwnedTokenSeriesOfType, <<"account",
    "tokenSymbol", "carbonTokenId", "pageSize", "cursor", "checkAddressReservedByte", "addressType">>)
CallGetAuctionsCount == Calls(GetAuctionsCount, <<"chainAddressOrName", "symbol">>)
CallGetAuctions == Calls(GetAuctions, <<"chainAddressOrName", "symbol", "page", "pageSize">>)
CallGetAuction == Calls(GetAuction, <<"chainAddressOrName", "symbol", "IDtext">>)
CallGetArchive == Calls(GetArchive, <<"hashText">>)
CallWriteArchive == Calls(WriteArchive, <<"hashText", "blockIndex", "blockContent">>)
CallReadArchive == Calls(ReadArchive, <<"hashText", "blockIndex">>)
CallGetContract == Calls(GetContract, <<"chainAddressOrName", "contractName">>)
CallGetContracts == Calls(GetContracts, <<"chainAddressOrName", "extended">>)
CallGetContractByAddress == Calls(GetContractByAddress, <<"chainAddressOrName", "contractAddress">>)
CallGetVersion == Calls(GetVersion, <<>>)
CallGetPhantasmaVmConfig == Calls(GetPhantasmaVmConfig, <<"chainAddressOrName">>)

Api == << CallGetAccountInfo, CallGetAccountInfos, CallGetAccount, CallGetAccounts, CallLookUpName,
    CallGetBlockHeight, CallGetBlockTransactionCountByHash, CallGetBlockByHash, CallGetBlockByHeight,
    CallGetLatestBlock, CallGetTransactionByBlockHashAndIndex, CallGetAddressTransactions,
    CallGetAddressTransactionCount, CallSendRawTransaction, CallSendCarbonTransaction,
    CallInvokeRawScript, CallGetTransaction, CallGetChains, CallGetChain, CallGetGasConfig,
    CallEstimateTransaction, CallGetNexus, CallGetOrganizationPlain, CallGetOrganization,
    CallGetOrganizations, CallGetOrganizationMembers, CallGetOrganizationMember,
    CallGetOrganizationMemberOfType, CallGetLeaderboard, CallGetTokens, CallGetTokensOwned,
    CallGetToken, CallGetTokenNumbered, CallGetTokenSeries, CallGetTokenSeriesById, CallGetTokenNFTs,
    CallGetTokenData, CallGetNFT, CallGetNFTs, CallGetTokenBalance, CallGetTokenBalanceOfType,
    CallGetAccountFungibleTokens, CallGetAccountFungibleTokensOfType, CallGetAccountNFTs,
    CallGetAccountNFTsOfType, CallGetAccountOwnedTokens, CallGetAccountOwnedTokensOfType,
    CallGetAccountOwnedTokenSeries, CallGetAccountOwnedTokenSeriesOfType, CallGetAuctionsCount,
    CallGetAuctions, CallGetAuction, CallGetArchive, CallWriteArchive, CallReadArchive, CallGetContract,
    CallGetContracts, CallGetContractByAddress, CallGetVersion, CallGetPhantasmaVmConfig>>

-----------------------------------------------------------------------------
\* A list ends with its first element in error.
Failed(answers)  == {i \in DOMAIN answers : answers[i].bad}
Until(answers)   == IF Failed(answers) = {} THEN answers ELSE SubSeq(answers, 1, Min(Failed(answers)))
ListOf(answers)  == Answer(Array([i \in DOMAIN answers |-> answers[i].value]), Failed(answers) # {})
ListUnchecked(as, value) == Answer(Array([i \in DOMAIN Elements(value.of) |-> Read(as, Elements(value.of)[i]).value]), FALSE)
ElementsRead(as, value) == [i \in DOMAIN Elements(value.of) |-> Read(as, Elements(value.of)[i])]
ReadList(as, value) == ListOf(Until(ElementsRead(as, value)))

\* What a lookup finds, the absent value in what is not an object.
Absent == Tree("absent", "")
Lookup(value, key) == IF value.shape = "object" /\ key \in DOMAIN value.of THEN value.of[key] ELSE Absent
NoList == Answer(Array(<<>>), TRUE)
ParseList(as, value) == IF value.shape = "array" THEN ReadList(as, value) ELSE NoList

\* A cursor left out is the empty one, of the last page.
WithCursor(list, cursor) ==
    Answer(Object([result |-> list.value, cursor |-> cursor.value]), list.bad \/ cursor.bad)
CursorOf(value) == IF value.shape = "absent" THEN Answer(Unset, FALSE) ELSE Read("String", value)
ParseCursor(as, value) ==
    IF Lookup(value, "result").shape # "array" THEN Answer(Object([result |-> Array(<<>>), cursor |-> Unset]), TRUE)
    ELSE WithCursor(ParseList(as, Lookup(value, "result")), CursorOf(Lookup(value, "cursor")))

\* The numbers of a page are read and let go, with their errors; a transaction
\* that is not halted is an error of the call that asks for it.
InPage(page, answer) == Answer(answer.value, page.bad \/ answer.bad)
Halting(answer) == Answer(answer.value, answer.bad \/ answer.value.of["state"].of # "Halt")
ParseResponse(result, value) ==
    CASE result.form = "one"    -> Read(result.as, value)
      [] result.form = "halted" -> Halting(Read(result.as, value))
      [] result.form = "list"   -> ParseList(result.as, value)
      [] result.form = "cursor" -> ParseCursor(result.as, value)
      [] result.form = "page"   -> InPage(Read("Paginated", value), Read(result.as, Lookup(value, "result")))
      [] result.form = "pages"  -> InPage(Read("Paginated", value), ParseList(result.as, Lookup(value, "result")))

\* A call posts its request whatever error the caller's object still holds, and
\* parses the answer only when it holds none.
Outcome(output, failed) == [output |-> output, failed |-> failed]
Parsed(answer) == Outcome(answer.value, answer.bad)
Called(call, held, posted, value) ==
    IF held \/ ~posted THEN Outcome(Unset, TRUE) ELSE Parsed(ParseResponse(call.method.result, value))

\* The arguments of a request, each in the place of a parameter.
Given(call) ==
    [i \in DOMAIN call.arguments |-> [type |-> call.method.params[i].type, text |-> call.arguments[i]]]

-----------------------------------------------------------------------------
(* The answer to a call: its element whole, short of a member or with one  *)
(* that is null, or another value in its place.                            *)
Element(as)  == Sample(as, as, 1)
Names(method) == [i \in DOMAIN method.params |-> method.params[i].name]
Counts(method) == {i \in 0 .. Len(method.params) : \A j \in i + 1 .. Len(method.params) : method.params[j].optional}
CallOn(method, n) == Calls(method, SubSeq(Names(method), 1, n))
Asked(call)  == SubSeq(call.method.params, 1, Len(call.arguments))
PageOf(value) == Object([page |-> Num("12"), pageSize |-> Num("12"), total |-> Num("12"), totalPages |-> Num("12"),
    result |-> value])
ResultOf(result, element) ==
    CASE result.form = "one"    -> element
      [] result.form = "list"   -> Array(<<element, Element(result.as)>>)
      [] result.form = "cursor" ->
            Object([result |-> Array(<<element, Element(result.as)>>), cursor |-> Str("next")])
      [] result.form = "halted" -> With(element, "state", Str("Halt"))
      [] result.form = "page"   -> PageOf(element)
      [] result.form = "pages"  -> PageOf(Array(<<Element(result.as), element>>))
Held(result, value) == IF result.form \in {"page", "pages"} THEN Lookup(value, "result") ELSE value
ElementFor(i)    == Element(Api[i].method.result.as)
AnswerWith(i, element) == ResultOf(Api[i].method.result, element)
AnswerFor(i)     == AnswerWith(i, ElementFor(i))
\* One call for each kind of result.
Results == {i \in DOMAIN Api : \A j \in 1 .. i - 1 : Api[j].method.result # Api[i].method.result}
MembersIn(value) == IF value.shape = "object" THEN DOMAIN value.of ELSE {}
Around(i) == {""} \cup IF Api[i].method.result.form \in {"one", "halted"} THEN {} ELSE MembersIn(AnswerFor(i))

\* A call that reports no error was answered, and returns all of the answer; a
\* whole answer to a caller that holds no error is returned without one.
CallIsHonest(call, held, posted, value, whole, outcome) ==
    /\ ~outcome.failed => ~held /\ posted /\ Agrees(outcome.output, Held(call.method.result, value))
    /\ whole /\ ~held /\ posted => ~outcome.failed
IsHonest(call, held, posted, value, whole) ==
    CallIsHonest(call, held, posted, value, whole, Called(call, held, posted, value))

=============================================================================

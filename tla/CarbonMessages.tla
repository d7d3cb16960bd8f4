--------------------------- MODULE CarbonMessages ---------------------------
(***************************************************************************)
(* The transaction messages of src/include/Carbon/DataBlockchain.h: how    *)
(* each is written, how it is read back, the three witness layouts of a    *)
(* signed envelope, its size, and TxMsgSigner.                             *)
(*                                                                         *)
(* The Write and the Read of a type are two lists of fields, given         *)
(* separately as the source gives them; WriteItems and ReadItems follow    *)
(* the one or the other. A message is its header's fields and `body`.      *)
(***************************************************************************)
EXTENDS VmData

\* A field of the record: how it is written, and its name.
Fixed(width, name) == [form |-> "word", width |-> width, name |-> name]
U1(name) == Fixed(1, name)
U4(name) == Fixed(4, name)
U8(name) == Fixed(8, name)
Key(name) == Fixed(32, name)
Signature(name) == Fixed(64, name)
Small(name) == [form |-> "small", name |-> name]
Blob(name) == [form |-> "bytes", name |-> name]
Amount(name) == [form |-> "intx", name |-> name]
Schema(name) == [form |-> "schema", name |-> name]
Variable(name) == [form |-> "variable", name |-> name]
\* A counted list; a reader holds its count against the bytes that remain, `least` an item.
List(name, layout, least) ==
    [form |-> "list", name |-> name, layout |-> layout, least |-> least]
Part(name, layout) == [form |-> "part", name |-> name, layout |-> layout]
Calls == [form |-> "calls", name |-> "calls"]

RECURSIVE WriteItems(_, _), ReadItems(_, _, _, _), ReadList(_, _, _, _)

\* Sections of arguments have a negative count; without them the length of
\* the arguments is not negative.
WriteCall(call) ==
    <<Word(4, call.moduleId), Word(4, call.methodId)>>
    \o IF call.sections = <<>> THEN WriteArray(call.args)
       ELSE <<Word(4, Num(-Len(call.sections)))>>
            \o FlattenSeq([i \in DOMAIN call.sections |->
                   LET section == call.sections[i]
                   IN  IF section.registerOffset < 0
                       THEN <<Word(4, Num(section.registerOffset))>>
                       ELSE WriteArray(section.args)])

WriteItem(item, x) ==
    CASE item.form = "word"     -> <<Word(item.width, x)>>
      [] item.form = "small"    -> WriteSmall(x)
      [] item.form = "bytes"    -> WriteArray(x)
      [] item.form = "intx"     -> WriteIntX(x)
      [] item.form = "schema"   -> WriteSchema(x)
      [] item.form = "variable" -> WriteVariable(x)
      [] item.form = "part"     -> WriteItems(item.layout, x)
      [] item.form = "list"     ->
           <<Word(4, Num(Len(x)))>>
           \o FlattenSeq([i \in DOMAIN x |-> WriteItems(item.layout, x[i])])
      [] item.form = "calls"    ->
           <<Word(4, Num(Len(x)))>> \o FlattenSeq([i \in DOMAIN x |-> WriteCall(x[i])])

WriteItems(layout, v) ==
    FlattenSeq([i \in DOMAIN layout |-> WriteItem(layout[i], v[layout[i].name])])

\* One section: a register where the number is negative, else the arguments
\* whose length it is, read again from the mark.
ReadSection(r) ==
    Then(ReadNumber(r, 4), LAMBDA value :
         IF value.got < 0 THEN Answer(value, [registerOffset |-> value.got, args |-> <<>>])
         ELSE Then(ReadArray(r), LAMBDA args :
                   Answer(args, [registerOffset |-> 0, args |-> args.got])))

RECURSIVE ReadSections(_, _, _), ReadCalls(_, _, _)
ReadSections(r, count, sections) ==
    IF count = 0 \/ ~r.ok THEN Answer(r, sections)
    ELSE Then(ReadSection(r), LAMBDA section :
              ReadSections(section, count - 1, Append(sections, section.got)))

\* The arguments of a call, as its two fields `args` and `sections`.
ReadArguments(r) ==
    Then(ReadNumber(r, 4), LAMBDA length :
         IF length.got >= 0 THEN Then(ReadArray(r), LAMBDA args : Answer(args, <<args.got, <<>>>>))
         ELSE IF -length.got > length.length \div 4 THEN Refuse(length)
         ELSE Then(ReadSections(length, -length.got, <<>>), LAMBDA sections :
                   Answer(sections, <<<<>>, sections.got>>)))

ReadCall(r) ==
    Then(ReadBytes(r, 4), LAMBDA module :
    Then(ReadBytes(module, 4), LAMBDA method :
    Then(ReadArguments(method), LAMBDA arguments :
         Answer(arguments, [moduleId |-> module.got, methodId |-> method.got,
                            args |-> arguments.got[1], sections |-> arguments.got[2]]))))

ReadCalls(r, count, calls) ==
    IF count = 0 \/ ~r.ok THEN Answer(r, calls)
    ELSE Then(ReadCall(r), LAMBDA call : ReadCalls(call, count - 1, Append(calls, call.got)))

ReadList(r, count, layout, items) ==
    IF count = 0 \/ ~r.ok THEN Answer(r, items)
    ELSE Then(ReadItems(layout, r, 1, <<>>), LAMBDA item :
              ReadList(item, count - 1, layout, Append(items, item.got)))

ReadItem(item, r) ==
    CASE item.form = "word"     -> ReadBytes(r, item.width)
      [] item.form = "small"    -> ReadSmall(r)
      [] item.form = "bytes"    -> ReadArray(r)
      [] item.form = "intx"     -> ReadIntX(r)
      [] item.form = "part"     -> ReadItems(item.layout, r, 1, <<>>)
      [] item.form = "list"     ->
           Then(ReadArrayLength(r, item.least), LAMBDA count :
                ReadList(count, count.got, item.layout, <<>>))
      [] item.form = "calls"    ->
           Then(ReadArrayLength(r, 12), LAMBDA count : ReadCalls(count, count.got, <<>>))

\* Field after field while the answers are true (&&).
ReadItems(layout, r, i, record) ==
    IF i > Len(layout) \/ ~r.ok THEN Answer(r, record)
    ELSE Then(ReadItem(layout[i], r), LAMBDA item :
              ReadItems(layout, item, i + 1, record @@ (layout[i].name :> item.got)))

Read(layout, r) == ReadItems(layout, r, 1, <<>>)

-----------------------------------------------------------------------------
(* The payloads, as they are written.                                      *)

WriteTransferFungible == <<Key("to"), U8("tokenId"), U8("amount")>>
WriteTransferFungible_GasPayer == <<Key("to"), Key("from"), U8("tokenId"), U8("amount")>>
WriteTransferNonFungible_Single == <<Key("to"), U8("tokenId"), U8("instanceId")>>
WriteTransferNonFungible_Single_GasPayer ==
    <<Key("to"), Key("from"), U8("tokenId"), U8("instanceId")>>
WriteTransferNonFungible_Multi ==
    <<Key("to"), U8("tokenId"), List("instanceIds", <<U8("id")>>, 8)>>
WriteTransferNonFungible_Multi_GasPayer ==
    <<Key("to"), Key("from"), U8("tokenId"), List("instanceIds", <<U8("id")>>, 8)>>
WriteMintFungible == <<U8("tokenId"), Key("to"), Amount("amount")>>
WriteBurnFungible == <<U8("tokenId"), Amount("amount")>>
WriteBurnFungible_GasPayer == <<U8("tokenId"), Key("from"), Amount("amount")>>
WriteMintNonFungible ==
    <<U8("tokenId"), Key("to"), U4("seriesId"), Blob("rom"), Blob("ram")>>
WriteBurnNonFungible == <<U8("tokenId"), U8("instanceId")>>
WriteBurnNonFungible_GasPayer == <<U8("tokenId"), Key("from"), U8("instanceId")>>
WriteTrade ==
    <<List("transferF", WriteTransferFungible_GasPayer, 1),
      List("transferN", WriteTransferNonFungible_Single_GasPayer, 1),
      List("mintF", WriteMintFungible, 1), List("burnF", WriteBurnFungible_GasPayer, 1),
      List("mintN", WriteMintNonFungible, 1),
      List("burnN", WriteBurnNonFungible_GasPayer, 1)>>
WritePhantasma == <<Small("nexus"), Small("chain"), Blob("script")>>
WritePhantasma_Raw == <<Blob("transaction")>>
WriteSpecialResolution == <<U8("resolutionId"), Calls>>

(* The payloads, as they are read. The address of a mint and of a burn for *)
(* a gas payer comes before the amount.                                    *)

ReadTransferFungible == <<Key("to"), U8("tokenId"), U8("amount")>>
ReadTransferFungible_GasPayer == <<Key("to"), Key("from"), U8("tokenId"), U8("amount")>>
ReadTransferNonFungible_Single == <<Key("to"), U8("tokenId"), U8("instanceId")>>
ReadTransferNonFungible_Single_GasPayer ==
    <<Key("to"), Key("from"), U8("tokenId"), U8("instanceId")>>
ReadInstanceIds == List("instanceIds", <<U8("id")>>, 8)
ReadTransferNonFungible_Multi == <<Key("to"), U8("tokenId"), ReadInstanceIds>>
ReadTransferNonFungible_Multi_GasPayer ==
    <<Key("to"), Key("from"), U8("tokenId"), ReadInstanceIds>>
\* The slip the comment there warns of: it parses, as another amount.
ReadAmountFirst == <<U8("tokenId"), Amount("amount"), Key("to")>>
ReadMintFungible == <<U8("tokenId"), Key("to"), Amount("amount")>>
ReadBurnFungible == <<U8("tokenId"), Amount("amount")>>
ReadBurnFungible_GasPayer == <<U8("tokenId"), Key("from"), Amount("amount")>>
ReadMintNonFungible ==
    <<U8("tokenId"), Key("to"), U4("seriesId"), Blob("rom"), Blob("ram")>>
ReadBurnNonFungible == <<U8("tokenId"), U8("instanceId")>>
ReadBurnNonFungible_GasPayer == <<U8("tokenId"), Key("from"), U8("instanceId")>>
MinBytesTradeTransferFungible == 32 * 2 + 8 + 8
MinBytesTradeTransferNonFungible == 32 * 2 + 8 + 8
MinBytesTradeMintFungible == 8 + 32 + 9
MinBytesTradeBurnFungible == 8 + 32 + 9
MinBytesTradeMintNonFungible == 8 + 32 + 4 + 4 + 4
MinBytesTradeBurnNonFungible == 8 + 32 + 8
ReadTrade ==
    <<List("transferF", ReadTransferFungible_GasPayer, MinBytesTradeTransferFungible),
      List("transferN", ReadTransferNonFungible_Single_GasPayer,
           MinBytesTradeTransferNonFungible),
      List("mintF", ReadMintFungible, MinBytesTradeMintFungible),
      List("burnF", ReadBurnFungible_GasPayer, MinBytesTradeBurnFungible),
      List("mintN", ReadMintNonFungible, MinBytesTradeMintNonFungible),
      List("burnN", ReadBurnNonFungible_GasPayer, MinBytesTradeBurnNonFungible)>>
ReadPhantasma == <<Small("nexus"), Small("chain"), Blob("script")>>
ReadPhantasma_Raw == <<Blob("transaction")>>
ReadSpecialResolution == <<U8("resolutionId"), Calls>>

-----------------------------------------------------------------------------
(* The message: enum class TxTypes, the header, the payload by type.       *)

Call == 0
Call_Multi == 1
Trade == 2
TransferFungible == 3
TransferFungible_GasPayer == 4
TransferNonFungible_Single == 5
TransferNonFungible_Single_GasPayer == 6
TransferNonFungible_Multi == 7
TransferNonFungible_Multi_GasPayer == 8
MintFungible == 9
BurnFungible == 10
BurnFungible_GasPayer == 11
MintNonFungible == 12
BurnNonFungible == 13
BurnNonFungible_GasPayer == 14
Phantasma == 15
Phantasma_Raw == 16
TxTypes == Call .. Phantasma_Raw

WritePayload ==
    (Trade :> WriteTrade) @@ (Call_Multi :> <<Calls>>)
    @@ (TransferFungible :> WriteTransferFungible)
    @@ (TransferFungible_GasPayer :> WriteTransferFungible_GasPayer)
    @@ (TransferNonFungible_Single :> WriteTransferNonFungible_Single)
    @@ (TransferNonFungible_Single_GasPayer :> WriteTransferNonFungible_Single_GasPayer)
    @@ (TransferNonFungible_Multi :> WriteTransferNonFungible_Multi)
    @@ (TransferNonFungible_Multi_GasPayer :> WriteTransferNonFungible_Multi_GasPayer)
    @@ (MintFungible :> WriteMintFungible) @@ (BurnFungible :> WriteBurnFungible)
    @@ (BurnFungible_GasPayer :> WriteBurnFungible_GasPayer)
    @@ (MintNonFungible :> WriteMintNonFungible)
    @@ (BurnNonFungible :> WriteBurnNonFungible)
    @@ (BurnNonFungible_GasPayer :> WriteBurnNonFungible_GasPayer)
    @@ (Phantasma :> WritePhantasma) @@ (Phantasma_Raw :> WritePhantasma_Raw)

ReadPayload ==
    (Trade :> ReadTrade) @@ (Call_Multi :> <<Calls>>)
    @@ (TransferFungible :> ReadTransferFungible)
    @@ (TransferFungible_GasPayer :> ReadTransferFungible_GasPayer)
    @@ (TransferNonFungible_Single :> ReadTransferNonFungible_Single)
    @@ (TransferNonFungible_Single_GasPayer :> ReadTransferNonFungible_Single_GasPayer)
    @@ (TransferNonFungible_Multi :> ReadTransferNonFungible_Multi)
    @@ (TransferNonFungible_Multi_GasPayer :> ReadTransferNonFungible_Multi_GasPayer)
    @@ (MintFungible :> ReadMintFungible) @@ (BurnFungible :> ReadBurnFungible)
    @@ (BurnFungible_GasPayer :> ReadBurnFungible_GasPayer)
    @@ (MintNonFungible :> ReadMintNonFungible)
    @@ (BurnNonFungible :> ReadBurnNonFungible)
    @@ (BurnNonFungible_GasPayer :> ReadBurnNonFungible_GasPayer)
    @@ (Phantasma :> ReadPhantasma) @@ (Phantasma_Raw :> ReadPhantasma_Raw)

WriteHeader ==
    <<U1("type"), U8("expiry"), U8("maxGas"), U8("maxData"), Key("gasFrom"), Small("payload")>>
ReadHeader ==
    <<U1("type"), U8("expiry"), U8("maxGas"), U8("maxData"), Key("gasFrom"), Small("payload")>>

SerializeTx(msg) ==
    WriteItems(WriteHeader, msg)
    \o IF msg.type = Num(Call) THEN WriteCall(msg.body)
       ELSE WriteItems(WritePayload[msg.type[2]], msg.body)

\* A type byte the SDK does not know names no payload.
ReadMsg(r) ==
    Then(Read(ReadHeader, r), LAMBDA header :
         IF ~IsNumber(header.got["type"]) \/ header.got["type"][2] \notin TxTypes
         THEN Refuse(header)
         ELSE Then(IF header.got["type"] = Num(Call) THEN ReadCall(header)
                   ELSE Read(ReadPayload[header.got["type"][2]], header), LAMBDA body :
                   Answer(body, header.got @@ ("body" :> body.got))))

ParseTx(image) == ReadMsg(Reader(image))

-----------------------------------------------------------------------------
(* The signed envelope.                                                    *)

GasPayerTypes ==
    {TransferFungible_GasPayer, TransferNonFungible_Single_GasPayer,
     TransferNonFungible_Multi_GasPayer, BurnFungible_GasPayer, BurnNonFungible_GasPayer}

\* RequiredWitnessCount: <<n>> where the type fixes it, else <<>>.
RequiredWitnessCount(type) ==
    IF type \in GasPayerTypes THEN <<2>>
    ELSE IF type = Phantasma_Raw THEN <<0>>
    ELSE IF type \in {Call, Call_Multi, Trade, Phantasma} THEN <<>>
    ELSE <<1>>

\* TryGetGasPayerFrom: the account that owns the assets.
TryGetGasPayerFrom(msg) == IF msg.type[2] \in GasPayerTypes THEN <<msg.body["from"]>> ELSE <<>>

\* Who has to have signed a message whose type fixes it: the payer first.
NamedSigners(msg) == <<msg.gasFrom>> \o TryGetGasPayerFrom(msg)

\* The assertions of Write(SignedTxMsg), which throw.
WitnessesFit(msg, witnesses) ==
    LET required == RequiredWitnessCount(msg.type[2])
    IN  \/ required = <<>>
        \/ required = <<0>> /\ witnesses = <<>>
        \/ /\ required[1] > 0
           /\ [i \in DOMAIN witnesses |-> witnesses[i].address] = NamedSigners(msg)

WriteSigned(msg, witnesses) ==
    SerializeTx(msg)
    \o IF RequiredWitnessCount(msg.type[2]) = <<>>
       THEN WriteItem(List("", <<Key("address"), Signature("signature")>>, 1), witnesses)
       ELSE [i \in DOMAIN witnesses |-> Word(64, witnesses[i].signature)]

EnvelopeBytes(msg, witnessCount) ==
    LET required == RequiredWitnessCount(msg.type[2])
    IN  Size(SerializeTx(msg))
        + IF required # <<>> THEN 64 * required[1] ELSE 4 + (32 + 64) * witnessCount

\* Reads a signed envelope: the message, the part that was signed, and the
\* witnesses in the layout of the type; the signers of the types that append
\* bare signatures are the ones the message names.
SignatureNames == <<"first", "second">>
ReadWitnesses(r, required, named) ==
    IF required = <<>>
    THEN ReadItem(List("", <<Key("address"), Signature("signature")>>, 32 + 64), r)
    ELSE Then(Read([i \in 1 .. required[1] |-> Signature(SignatureNames[i])], r), LAMBDA read :
              Answer(read, [i \in 1 .. required[1] |->
                  [address |-> named[i], signature |-> read.got[SignatureNames[i]]]]))
ParseSignedTx(image) ==
    Then(ReadMsg(Reader(image)), LAMBDA msg :
    Then(ReadWitnesses(msg, RequiredWitnessCount(msg.got.type[2]), NamedSigners(msg.got)),
         LAMBDA witnesses :
             Answer(witnesses, [msg |-> msg.got,
                                signedPortion |-> Cut(image, Size(image) - msg.length),
                                witnesses |-> witnesses.got])))

-----------------------------------------------------------------------------
(* TxMsgSigner. A key is the account it belongs to, or "null".             *)

AboveInt64 == Val("2^63 or more")
AmountRefused(msg) ==
    /\ msg.type[2] \in {TransferFungible, TransferFungible_GasPayer}
    /\ msg.body["amount"] \in {Num(0), AboveInt64}

SignedBy(key, image) == <<"signature", key, image>>

\* The refusals in their order; nothing is signed before the last of them.
SignRefused(msg, keys) ==
    LET required == RequiredWitnessCount(msg.type[2])
    IN  \/ msg.maxGas = Num(0)
        \/ AmountRefused(msg)
        \/ keys = <<>>
        \/ \E i \in DOMAIN keys : keys[i] = "null"
        \/ /\ required # <<>>
           /\ \/ Len(keys) # required[1]
              \/ required[1] >= 1 /\ Val(keys[1]) # msg.gasFrom
              \/ required[1] = 2 /\ <<Val(keys[2])>> # TryGetGasPayerFrom(msg)

WitnessesOf(serialized, keys) ==
    [i \in DOMAIN keys |->
        [address |-> Val(keys[i]), signature |-> SignedBy(keys[i], serialized)]]
Witnesses(msg, keys) == WitnessesOf(SerializeTx(msg), keys)

SignAndSerialize(msg, keys) == WriteSigned(msg, Witnesses(msg, keys))

=============================================================================

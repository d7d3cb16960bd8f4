----------------------------- MODULE CarbonImages ---------------------------
(***************************************************************************)
(* Samples of everything Carbon writes, and what is asked of their images. *)
(***************************************************************************)
EXTENDS CarbonRecords

-----------------------------------------------------------------------------
(* Samples: every field of a layout holds its own name, so that one read   *)
(* in place of another shows; lists and byte arrays have n elements.       *)

RECURSIVE Sample(_, _, _)
Sample(layout, tag, n) ==
    [name \in {layout[i].name : i \in DOMAIN layout} |->
        LET item == layout[CHOOSE i \in DOMAIN layout : layout[i].name = name]
            mark == tag \o name
        IN  CASE item.form = "word"     -> Val(mark)
              [] item.form = "small"    -> IF n = 0 THEN "" ELSE mark
              [] item.form = "bytes"    -> IF n = 0 THEN <<>> ELSE <<Word(n + 1, Val(mark))>>
              [] item.form = "intx"     -> <<IF n = 2 THEN 32 ELSE 8, mark>>
              [] item.form = "part"     -> Sample(item.layout, mark, n)
              [] item.form = "list"     ->
                   [k \in 1 .. n |-> Sample(item.layout, mark \o <<"1", "2">>[k], n)]
              [] item.form = "calls"    ->
                   [k \in 1 .. n |-> [moduleId |-> Val(mark \o "module"),
                        methodId |-> Val(mark \o "method"), args |-> <<Word(k, Val(mark))>>,
                        sections |-> <<>>]]
              [] item.form = "schema"   ->
                   SortSchema(<<[name |-> "b", type |-> Int8, structure |-> NoSchema]>>, n = 1)
              [] item.form = "variable" -> <<Int64, Val(mark)>>]

Sections == <<[registerOffset |-> -1, args |-> <<>>], [registerOffset |-> 0, args |-> <<>>],
    [registerOffset |-> 0, args |-> <<Word(5, Val("section"))>>],
    [registerOffset |-> -7, args |-> <<>>]>>
CallBodies ==
    <<[moduleId |-> Val("module"), methodId |-> Val("method"), args |-> <<>>, sections |-> <<>>],
      [moduleId |-> Val("module"), methodId |-> Val("method"), args |-> <<Word(9, Val("args"))>>,
       sections |-> <<>>],
      [moduleId |-> Val("module"), methodId |-> Val("method"), args |-> <<>>,
       sections |-> Sections],
      [moduleId |-> Val("module"), methodId |-> Val("method"), args |-> <<>>,
       sections |-> <<Sections[3]>>]>>

Bodies(type) ==
    IF type = Call THEN CallBodies
    ELSE [n \in 1 .. 3 |-> Sample(WritePayload[type], "", n - 1)]
         \o IF type = Call_Multi THEN <<[calls |-> CallBodies]>> ELSE <<>>

Message(type, body) ==
    [type |-> Num(type), expiry |-> Val("expiry"), maxGas |-> Val("maxGas"),
     maxData |-> Val("maxData"), gasFrom |-> Val("payer"), payload |-> "memo", body |-> body]

-----------------------------------------------------------------------------
(* What a reader has to do with an image: the value back and every byte    *)
(* used, whatever follows it, and no proper prefix taken for the whole.    *)

CutPoints(image) ==
    UNION {{Size(SubSeq(image, 1, i)) - image[i][1], Size(SubSeq(image, 1, i)) - 1} :
               i \in DOMAIN image}

IsExact(back, value) == back.ok /\ back.length = 0 /\ back.got = value

MessageIsExact(msg, image) ==
    /\ IsExact(ParseTx(image), msg)
    /\ ParseTx(image \o <<Word(5, Val("rest"))>>).length = 5
    /\ \A n \in CutPoints(image) : ~ParseTx(Cut(image, n)).ok

\* What the chain admits: a gas offer, an amount a native transfer can have,
\* and the signatures of the accounts the message takes assets or gas from.
Admitted(msg, keys) ==
    /\ msg.maxGas # Num(0) /\ ~AmountRefused(msg)
    /\ CASE RequiredWitnessCount(msg.type[2]) = <<>> -> keys # <<>>
         [] msg.type = Num(Phantasma_Raw) -> FALSE
         [] OTHER -> [i \in DOMAIN keys |-> Val(keys[i])] = NamedSigners(msg)

\* An envelope that is signed is admitted, has the size that was quoted, and
\* reads back as the message and its signers, each over the whole message.
EnvelopeReadsBack(envelope, read) ==
    /\ IsExact(ParseSignedTx(envelope), read)
    /\ \A n \in CutPoints(envelope) : ~ParseSignedTx(Cut(envelope, n)).ok
EnvelopeIsExact(msg, witnesses, image, envelope) ==
    /\ WitnessesFit(msg, witnesses)
    /\ Size(envelope) = EnvelopeBytes(msg, Len(witnesses))
    /\ EnvelopeReadsBack(envelope, [msg |-> msg, signedPortion |-> image, witnesses |-> witnesses])

SigningIsExact(msg, keys) ==
    IF SignRefused(msg, keys) THEN ~Admitted(msg, keys) \/ "null" \in ToSet(keys)
    ELSE /\ Admitted(msg, keys) /\ "null" \notin ToSet(keys)
         /\ EnvelopeIsExact(msg, Witnesses(msg, keys), SerializeTx(msg),
                            SignAndSerialize(msg, keys))

\* The samples that are signed: a message of each type, with no gas offered,
\* and with the amounts that a transfer cannot have.
Ways == {"as it is", "no gas", "nothing", "above"}
Signed(type, way) ==
    LET body == Bodies(type)[2]
        own  == IF type \in GasPayerTypes THEN ("from" :> Val("owner")) @@ body ELSE body
        msg  == Message(type, own)
        native == type \in {TransferFungible, TransferFungible_GasPayer}
    IN  CASE way = "no gas"  -> [msg EXCEPT !.maxGas = Num(0)]
          [] way = "nothing" /\ native -> [msg EXCEPT !.body = ("amount" :> Num(0)) @@ @]
          [] way = "above" /\ native -> [msg EXCEPT !.body = ("amount" :> AboveInt64) @@ @]
          [] OTHER           -> msg
KeyLists == {<<>>, <<"payer">>, <<"owner">>, <<"payer", "owner">>, <<"owner", "payer">>,
    <<"payer", "null">>, <<"payer", "owner", "other">>}

-----------------------------------------------------------------------------
(* Records: a layout is written and read field by field; the ones with a   *)
(* reader of their own have it.                                            *)

Layouts ==
    <<WriteChainConfig, TokensConfig, TokenInfo_FlagsOnly, TokenSchemas, SeriesInfo, SeriesImport,
      SeriesSupply, NftMintInfo, PhantasmaNftMintInfo, PhantasmaNftMintResult, NftInstance,
      NftState, NftInfo, NftSchema>>

RECURSIVE ReadRecord(_, _, _, _)
\* A record with the values of the VM among its fields, which only the chain
\* reads: field by field.
ReadRecord(layout, r, i, record) ==
    IF i > Len(layout) \/ ~r.ok THEN Answer(r, record)
    ELSE Then(CASE layout[i].form = "schema"   -> ReadSchema(r)
                [] layout[i].form = "variable" -> ReadVariable(r)
                [] layout[i].form = "part"     -> ReadRecord(layout[i].layout, r, 1, <<>>)
                [] OTHER                       -> ReadItem(layout[i], r),
              LAMBDA item : ReadRecord(layout, item, i + 1, record @@ (layout[i].name :> item.got)))

LayoutReadsBack(layout, value, image) ==
    /\ IsExact(ReadRecord(layout, Reader(image), 1, <<>>), value)
    /\ \A n \in CutPoints(image) : ~ReadRecord(layout, Reader(Cut(image, n)), 1, <<>>).ok
LayoutIsExact(layout, value) == LayoutReadsBack(layout, value, WriteItems(layout, value))

\* A listing's two layouts agree.
ListingReadsBack(value, image) ==
    /\ IsExact(Read(ReadTokenListing, Reader(image)), value)
    /\ \A n \in CutPoints(image) : ~Read(ReadTokenListing, Reader(Cut(image, n))).ok
ListingIsExact(value) == ListingReadsBack(value, WriteItems(WriteTokenListing, value))

\* So do those of a special resolution, which the fee planner reads in a call.
ResolutionOf(i) == [resolutionId |-> Val("resolution"), calls |-> SubSeq(CallBodies, 1, i)]
ResolutionIsExact(value, image) ==
    /\ IsExact(Read(ReadSpecialResolution, Reader(image)), value)
    /\ \A n \in CutPoints(image) : ~Read(ReadSpecialResolution, Reader(Cut(image, n))).ok

ConfigOf(version) ==
    ("version" :> Num(version)) @@ Sample(GasConfigBase, "", 1) @@ Sample(GasConfigTail, "", 1)
\* A configuration of version 0 reads back without the fields it never had,
\* and a later one does not read back without them.
ConfigAsRead(config) ==
    [name \in DOMAIN config |->
        IF config["version"] # Num(0) \/ name \in NamesOf(GasConfigBase) THEN config[name]
        ELSE Num(0)]
ConfigIsExact(config, image) ==
    /\ IsExact(ReadGasConfig(Reader(image)), ConfigAsRead(config))
    /\ \A n \in CutPoints(image) : ~ReadGasConfig(Reader(Cut(image, n))).ok

TokenOf(flags, n) ==
    ("flags" :> Num(flags))
    @@ ("tokenSchemas" :> IF flags >= NonFungible THEN <<Word(n + 1, Val("schemas"))>> ELSE <<>>)
    @@ Sample(WriteTokenInfoBase, "", n)
TokenIsExact(token, image) ==
    /\ IsExact(ReadTokenInfo(Reader(image)), token)
    /\ \A n \in CutPoints(image) : ~ReadTokenInfo(Reader(Cut(image, n))).ok

\* The configuration of a chain with its two tokens, one after the other.
ConfigWithTokensIsExact(v, image) ==
    IsExact(Then(ReadGasConfig(Reader(image)), LAMBDA config :
            Then(ReadTokenInfo(config), LAMBDA gas :
            Then(ReadTokenInfo(gas), LAMBDA data :
                 Answer(data, <<config.got, gas.got, data.got>>)))),
            <<ConfigAsRead(v.config), v.gasToken, v.dataToken>>)

-----------------------------------------------------------------------------
(* Builders: what is built is a message of the type asked for, whole on    *)
(* the wire, admitted when those it was built for sign it.                 *)

Limits == [maxGas |-> Val("offer"), maxData |-> Val("data"), expiry |-> Num(0)]
Parties(paid) ==
    [from |-> Val("owner"), gasPayer |-> IF paid THEN <<Val("payer")>> ELSE <<>>]
Ids(n) == [i \in 1 .. n |-> [id |-> Val(<<"i", "j">>[i])]]
SeriesOf(n) == Sample(SeriesInfo, "", n)
MintsOf(n) == [i \in 1 .. n |-> Sample(PhantasmaNftMintInfo, <<"1", "2">>[i], n)]
Wide == <<8, "amount">>

\* The messages of one sample: a sequence that is empty where none is built.
Builders(paid, n) ==
    LET parties == Parties(paid)
        token == Val("token")
        to == Val("receiver")
        owner == Val("owner")
    IN  <<<<BuildTransferFungible(parties, to, token, Val("amount"), Limits)>>,
          BuildTransferNonFungible(parties, to, token, Ids(n), Limits),
          <<BuildMintFungible(owner, to, token, Wide, Limits)>>,
          <<BuildBurnFungible(parties, token, Wide, Limits)>>,
          <<BuildBurnNonFungible(parties, token, Val("instance"), Limits)>>,
          <<BuildMintNonFungible(token, Val("series"), owner, to, <<Word(2, Val("rom"))>>, <<>>,
                                 Limits)>>,
          <<BuildCreateToken(TokenOf(NonFungible, n), owner, Limits)>>,
          <<BuildCreateTokenSeries(token, SeriesOf(n), owner, Limits)>>,
          BuildMintPhantasmaNonFungible(token, owner, to, MintsOf(n), Limits)>>

\* The keys of those it is for sign what is built, and no other keys can.
BuiltIsExact(msg, paid) ==
    LET signers == IF paid /\ msg.type[2] \in GasPayerTypes THEN <<"payer", "owner">>
                   ELSE <<"owner">>
    IN  /\ paid => msg.type[2] \in GasPayerTypes \cup {Call, MintFungible, MintNonFungible}
        /\ msg.expiry # Num(0)
        /\ MessageIsExact(msg, SerializeTx(msg))
        /\ ~SignRefused(msg, signers)
        /\ \A keys \in KeyLists : RequiredWitnessCount(msg.type[2]) # <<>> /\ ~SignRefused(msg, keys)
                                    => keys = signers

\* Nothing is built of nothing, and the arguments of a call are what its
\* method takes.
BuildersAreExact(built, paid, n) ==
    LET Args(i) == Reader(built[i][1].body.args)
    IN  /\ \A i \in DOMAIN built :
             /\ built[i] = <<>> <=> i \in {2, 9} /\ n = 0
             /\ built[i] # <<>> => BuiltIsExact(built[i][1], paid)
        /\ IsExact(ReadTokenInfo(Args(7)), TokenOf(NonFungible, n))
        /\ IsExact(ReadRecord(<<U8("tokenId"), Part("info", SeriesInfo)>>, Args(8), 1, <<>>),
                   [tokenId |-> Val("token"), info |-> SeriesOf(n)])
        /\ n > 0 => IsExact(Read(<<U8("tokenId"), Key("to"), List("tokens", PhantasmaNftMintInfo, 1)>>,
                                 Args(9)),
                            [tokenId |-> Val("token"), to |-> Val("receiver"), tokens |-> MintsOf(n)])

\* Results of a mint: as many addresses as instances, each of its token.
ResultOf(n) == [i \in 1 .. n |-> Sample(PhantasmaNftMintResult, <<"1", "2">>[i], 0)]
AddressesOf(n) == [i \in 1 .. n |-> GetNftAddress(Val("token"), Ids(n)[i].id)]
ResultIsExact(n, ids, image) ==
    /\ IsExact(ParseMintNonFungible(Val("token"), ids), AddressesOf(n))
    /\ \A i \in 1 .. n : IsNftAddress(AddressesOf(n)[i])
    /\ \A m \in CutPoints(ids) : ~ParseMintNonFungible(Val("token"), Cut(ids, m)).ok
    /\ IsExact(ParseMintPhantasmaNonFungible(image), ResultOf(n))
    /\ \A m \in CutPoints(image) : ~ParseMintPhantasmaNonFungible(Cut(image, m)).ok
    /\ IsExact(ParseCreateToken(<<Word(8, Val("id"))>>), Val("id"))
    /\ IsExact(ParseCreateTokenSeries(<<Word(4, Val("id"))>>), Val("id"))
ResultsAreExact(n) ==
    ResultIsExact(n, WriteItem(List("", <<U8("id")>>, 1), Ids(n)),
                  WriteItem(List("", PhantasmaNftMintResult, 1), ResultOf(n)))

\* An expiry within a window is one the chain still admits, or none.
ExpiryIsExact(now, window, margin) ==
    LET expiry == ExpiryWithin(now, window, margin)
    IN  expiry # 0 => expiry > now /\ expiry <= now + window - margin /\ margin >= 0

=============================================================================

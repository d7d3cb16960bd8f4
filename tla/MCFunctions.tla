---------------------------- MODULE MCFunctions ----------------------------
(***************************************************************************)
(* The parts of the SDK that keep no state, each against what it is meant  *)
(* to compute, over bounded inputs: a behaviour begins with the kind of    *)
(* its input, chooses one input of that kind, and the invariants say what  *)
(* the operators answer for it.                                            *)
(***************************************************************************)
EXTENDS FeeWords

Kinds == {"words", "decimal", "json", "garbage", "record", "variant", "event", "call", "calling",
    "asking", "bent", "other", "message", "signing", "stored", "built", "variable", "struct", "merge",
    "bytes", "text", "pair", "single", "power", "image", "numeral",
    "widepair", "wide", "header", "widetext", "given", "token", "texts", "icon", "standard", "creation",
    "object", "blob", "script", "invocation", "transaction"}
Init == input \in [next : Kinds]
UpTo(n, S) == UNION {[1 .. k -> S] : k \in 0 .. n}

-----------------------------------------------------------------------------
(* Fee arithmetic (FeeWords): every pair of words of WordBits bits, every   *)
(* shift to one past the word; every text of three symbols.                 *)
Texts == UNION {[1 .. n -> {0, 1, 3, 4, 9, NotADigit}] : n \in 0 .. 3}
Digit == For("decimal") /\ \E text \in Texts : input' = [kind |-> "decimal", text |-> text]

\* The value of a text of digits, with no bound.
Positional(t) == FoldLeft(LAMBDA v, c : v * 10 + c, 0, t)
\* The number they spell when it fits the word; every other text is refused.
DecimalIsExact(text) ==
    ParseDecimalU64(text) =
        IF text # <<>> /\ (\A i \in DOMAIN text : text[i] \in Digits) /\ Positional(text) <= kU64Max
        THEN Positional(text) ELSE Refused

-----------------------------------------------------------------------------
(* JSON: scalars, arrays and objects of them, and one level more of a few;  *)
(* with and without blanks, alone or followed by more of a document; and    *)
(* every text of three symbols.                                              *)
Json == INSTANCE JsonText
Scalars == {Json!Scalar(t) : t \in {<<"true">>, <<"null">>, <<"1", "2">>, <<"-", "1">>, <<"\"", "\"">>,
    <<"\"", "a", "\"">>, <<"\"", "}", "]", ",", "\"">>, <<"\"", "\\", "\"", "\"">>, <<"\"", "\\", "u", "1", "1", "1", "1", "\"">>}}
Keys == {<<"k">>, <<"k", "e">>}
ListsOf(S)   == {Json!Array(p) : p \in UNION {[1 .. n -> S] : n \in 0 .. 2}}
ObjectsOf(S) == {Json!Object(<<>>)} \cup {Json!Object(<<<<k, x>>>>) : k \in Keys, x \in S}
    \cup {Json!Object(<<<<<<"k">>, x>>, <<<<"k", "e">>, y>>>>) : x \in S, y \in S}
Nested == {Json!Scalar(<<"1">>), Json!Array(<<>>), Json!Object(<<>>),
    Json!Array(<<Json!Scalar(<<"\"", "]", "\"">>), Json!Scalar(<<"null">>)>>),
    Json!Object(<<<<<<"k", "e">>, Json!Scalar(<<"false">>)>>>>),
    Json!Object(<<<<<<"k">>, Json!Array(<<Json!Scalar(<<"2">>)>>)>>>>)}
Trees == Scalars \cup ListsOf(Scalars) \cup ObjectsOf(Scalars) \cup ListsOf(Nested) \cup ObjectsOf(Nested)
Symbols == {"{", "}", "[", "]", "\"", "\\", ",", ":", " ", "1", "true", "u"}

Document == For("json") /\ \E tree \in Trees, gap \in {<<>>, <<" ">>}, rest \in {<<>>, <<",", "1">>, <<" ", "}">>, <<"]", "}">>} :
    input' = [kind |-> "json", tree |-> tree, gap |-> gap, rest |-> rest]
Garbage == For("garbage") /\ \E n \in 1 .. 3 : \E text \in [1 .. n -> Symbols] : input' = [kind |-> "garbage", text |-> text]

\* The built-in JSON reader finds what a document says (the scanners, LookupValue,
\* VisitObjectFields, ArraySize and IndexArray, the conversions): it ends a value
\* where it ends, a field's slice begins at the field's value whatever the values
\* before it hold (quotes, braces and commas in strings, blanks anywhere), and an
\* array has as many elements as it has, of any kind but true, false and null,
\* which these two functions skip.  And on any text at all every scan moves
\* forward, so that no reader loops for ever on a malformed answer.
JsonIsRead ==
    /\ Is("json") => Json!TreeIsRead(input.tree, input.gap, input.rest)
    /\ Is("garbage") => Json!Advances(input.text)

-----------------------------------------------------------------------------
(* Answers of the node: every record intact, and with one member at a time  *)
(* left out or of another shape; every kind of event and every call of a    *)
(* special resolution with such a payload.                                  *)
Rpc == INSTANCE RpcMethods
Intact == For("record") /\ \E as \in DOMAIN Rpc!Records : input' = [kind |-> "record", as |-> as]
Variant == For("variant") /\ \E as \in DOMAIN Rpc!Records : \E m \in DOMAIN Rpc!Document(as).of, way \in Rpc!Ways :
    input' = [kind |-> "variant", as |-> as, member |-> m, way |-> way]

\* A record is read for what the node says (the deserializers of PhantasmaAPI.h
\* and Rpc): when no error is reported every member holds the text given under
\* its own name, however the answer is short of a member or bent in one, and a
\* whole answer is read without error and without loss; the prices a later gas
\* configuration must have are never silently zero.
RecordsAreRead ==
    /\ Is("record") => Rpc!RecordIsRead(input.as, Rpc!Document(input.as), TRUE)
    /\ Is("variant") => Rpc!RecordIsRead(input.as, Rpc!Variant(Rpc!Document(input.as), input.member, input.way), FALSE)

Event == For("event") /\ \E event \in DOMAIN Rpc!EventShapes \cup {"Other"} :
    \E m \in Rpc!MembersFor(Rpc!DataShape(event)), way \in Rpc!Ways :
        input' = [kind |-> "event", event |-> event, member |-> m, way |-> way]
Call == For("call") /\ \E module \in DOMAIN Rpc!SpecialResolutionArgumentsTable \cup {"other"} :
    \E method \in Rpc!Methods(module) \cup {"Other"} :
    \E m \in Rpc!MembersFor(Rpc!ArgumentsOf(module, method)), way \in Rpc!Ways :
        input' = [kind |-> "call", module |-> module, method |-> method, member |-> m, way |-> way]
PayloadOf(as) == Rpc!Payload(Rpc!SampleFor(as), input.member, input.way)
Whole(as)     == as # Rpc!Unmodelled /\ input.member = "" /\ input.way = 0

\* No payload fails the answer that carries it (ExtendedEvents.h, shapeErr;
\* SpecialResolutionArguments.h, "decoding is total"): whatever an event's data
\* or a call's arguments are, the event is read without error, and the payload
\* is kept as it came or its record holds what it says; a whole one is typed.
EventsAreTotal ==
    /\ Is("event") => Rpc!EventIsTotal(Rpc!EventOf(input.event, PayloadOf(Rpc!DataShape(input.event))),
                        Whole(Rpc!DataShape(input.event)))
    /\ Is("call") => Rpc!CallIsTotal(
            Rpc!ResolutionOf(Rpc!CallOf(input.module, input.method, PayloadOf(Rpc!ArgumentsOf(input.module, input.method)))),
            Whole(Rpc!ArgumentsOf(input.module, input.method)))

-----------------------------------------------------------------------------
(* Calls of the node: every call of class PhantasmaAPI, by a caller that    *)
(* holds an earlier error or none, its request posted or not, its answer    *)
(* whole, bent in one member, or another value altogether; every request.  *)
Builder == INSTANCE JsonBuilder
Calling == For("calling") /\ \E i \in DOMAIN Rpc!Api, held, posted \in BOOLEAN : input' = [kind |-> "calling", call |-> i, held |-> held, posted |-> posted]
Asking == For("asking") /\ \E i \in DOMAIN Rpc!Requests : \E n \in Rpc!Counts(Rpc!Requests[i]) : input' = [kind |-> "asking", request |-> i, given |-> n]
BentAnswer == For("bent") /\ \E i \in Rpc!Results : \E m \in Rpc!MembersIn(Rpc!ElementFor(i)), way \in Rpc!Ways :
    input' = [kind |-> "bent", call |-> i, member |-> m, way |-> way]
OtherAnswer == For("other") /\ \E i \in Rpc!Results : \E m \in Rpc!Around(i), way \in Rpc!Ways :
    input' = [kind |-> "other", call |-> i, member |-> m, way |-> way]

RequestIsWritten(call, values) ==
    Builder!RequestSays(Builder!MakeRequest(call.method.wire, "1", Rpc!Given(call), values),
        Builder!RequestDocument(call.method.wire, "1", Rpc!Asked(call), values))

CallMade == IF Is("calling") THEN Rpc!Api[input.call] ELSE Rpc!CallOn(Rpc!Requests[input.request], input.given)
AnswerGiven ==
    CASE Is("calling") -> Rpc!AnswerFor(input.call)
      [] Is("bent") -> Rpc!AnswerWith(input.call, Rpc!Variant(Rpc!ElementFor(input.call), input.member, input.way))
      [] Is("other") -> Rpc!Payload(Rpc!AnswerFor(input.call), input.member, input.way)

\* What a call writes is one JSON document that asks the node for its method with
\* the arguments of its signature, each in the place of its parameter (the
\* Make*Request functions over JSONBuilder), the list of addresses nested,
\* whatever its length.  A call that reports no error was posted, held no error
\* before, and returns all that the node answered, in every element of a list;
\* and a whole answer to a caller that holds no error is returned without one
\* (the wrappers of class PhantasmaAPI and the Parse*Response functions).
CallsAreHonest ==
    /\ Is("calling") \/ Is("asking") =>
         \A values \in {<<>>, <<"a">>, <<"a", "b">>} : RequestIsWritten(CallMade, values)
    /\ Is("calling") \/ Is("bent") \/ Is("other") =>
         Rpc!IsHonest(Rpc!Api[input.call], Is("calling") /\ input.held, Is("calling") => input.posted, AnswerGiven, Is("calling"))

-----------------------------------------------------------------------------
(* What Carbon writes: every transaction message and signed envelope, with  *)
(* lists of up to two elements; every record of the contracts; what the     *)
(* builders make for one party and for two; variables of every type and     *)
(* structs with their schemas, short of fields or with more of them.        *)
Images == INSTANCE CarbonImages
Vm     == INSTANCE VmImages
Message == For("message") /\ \E type \in Images!TxTypes : \E i \in DOMAIN Images!Bodies(type) :
    input' = [kind |-> "message", type |-> type, body |-> i]
Signing == For("signing") /\ \E type \in Images!TxTypes, way \in Images!Ways, keys \in Images!KeyLists :
    input' = [kind |-> "signing", type |-> type, way |-> way, keys |-> keys]
Stored == For("stored") /\ \E n \in 0 .. 2, i \in DOMAIN Images!Layouts, flags, other \in 0 .. 3 :
    input' = [kind |-> "stored", n |-> n, layout |-> i, flags |-> flags, other |-> other]
Built == For("built") /\ \E paid \in BOOLEAN, n \in 0 .. 2, window, margin \in 0 .. 3 :
    input' = [kind |-> "built", paid |-> paid, n |-> n, window |-> window - 1, margin |-> margin - 1]
ConfigWithTokensIsExact(v) == Images!ConfigWithTokensIsExact(v, Images!WriteGasConfigWithTokens(v))
ImageOf(type, i) == Images!Message(type, Images!Bodies(type)[i])

\* Every byte the SDK writes is read back as what was written, to the last byte,
\* whatever follows it, and no message, record or envelope cut short passes for a
\* whole one (DataBlockchain.h, "The payload readers below mirror the Write of the
\* same type, field for field"); an envelope has the size that was quoted for it
\* and names its signers in order, and nothing the chain would refuse is signed;
\* what the builders make is a message of its form that those it was built for,
\* and no others, can sign, and its arguments are what the contract reads.
ImagesAreExact ==
    /\ Is("message") => Images!MessageIsExact(ImageOf(input.type, input.body), Images!SerializeTx(ImageOf(input.type, input.body)))
    /\ Is("signing") => Images!SigningIsExact(Images!Signed(input.type, input.way), input.keys)
    /\ Is("stored") => LET layout == Images!Layouts[input.layout] n == input.n IN
        /\ Images!LayoutIsExact(layout, Images!Sample(layout, "", n))
        /\ Images!ListingIsExact(Images!Sample(Images!WriteTokenListing, "", n))
        /\ Images!ResolutionIsExact(Images!ResolutionOf(n), Images!WriteItems(Images!WriteSpecialResolution, Images!ResolutionOf(n)))
        /\ Images!ConfigIsExact(Images!ConfigOf(n), Images!WriteGasConfig(Images!ConfigOf(n)))
        /\ Images!TokenIsExact(Images!TokenOf(input.flags, n), Images!WriteTokenInfo(Images!TokenOf(input.flags, n)))
        /\ ConfigWithTokensIsExact([config |-> Images!ConfigOf(n), gasToken |-> Images!TokenOf(input.flags, n),
                                    dataToken |-> Images!TokenOf(input.other, n)])
    /\ Is("built") => /\ Images!BuildersAreExact(Images!Builders(input.paid, input.n), input.paid, input.n)
                      /\ Images!ResultsAreExact(input.n)
                      /\ Images!ExpiryIsExact(2, input.window, input.margin)

Variable == For("variable") /\ \E of \in Vm!Variables_ : input' = [kind |-> "variable", of |-> of]
Struct == For("struct") /\ \E type \in Vm!Types, structure \in 1 .. 3, other \in {Vm!Int8, Vm!String}, extras, sorted, more \in BOOLEAN,
                            a \in 0 .. 4, c \in 0 .. 1 :
    /\ structure = 1 \/ Vm!HasStructure(type)
    /\ input' = [kind |-> "struct", type |-> type, structure |-> structure, other |-> other,
                  extras |-> extras, sorted |-> sorted, more |-> more, a |-> a, c |-> c]
Merging == For("merge") /\ \E old, updates \in [1 .. 3 -> 0 .. 3] : input' = [kind |-> "merge", old |-> old, updates |-> updates]
ValueOfA == <<<<>>, <<input.type, 1>>, <<input.type, 2>>, <<Vm!Int16, 2>>, <<Vm!Array + Vm!Dynamic, 2>>>>[input.a + 1]
StructInput == Vm!StructOf(ValueOfA, IF input.c = 0 THEN <<>> ELSE <<input.other, 2>>, input.more)

\* Values, scripts and transactions of the script VM: every value of one kind and
\* structs of two children, bytes as long as they are looked at, two calls of the
\* builder (three of those with labels, or two behind a long LOAD), two arguments of
\* a contract's method.
Scripts == INSTANCE ScriptImages WITH Throws <- ("throws" \in DOMAIN input => input.throws)
Object == For("object") /\ \E throws \in BOOLEAN :
    \/ \E of \in DOMAIN Scripts!Scalars : input' = [kind |-> "object", of |-> of, pairs |-> <<>>, throws |-> throws]
    \/ \E pairs \in UpTo(2, (1 .. 4) \X (DOMAIN Scripts!Few)) :
         input' = [kind |-> "object", of |-> 0, pairs |-> pairs, throws |-> throws]
Blob == For("blob") /\ \E throws \in BOOLEAN, type \in 0 .. 9 : \E rest \in UpTo(3, {0, 1, 2, 6, 35, 61, 63}) :
    input' = [kind |-> "blob", bytes |-> <<type>> \o rest, throws |-> throws]
Script == For("script") /\ \E throws \in BOOLEAN :
    \E calls \in UpTo(2, DOMAIN Scripts!BuilderCalls) \cup [1 .. 3 -> Scripts!FlowCalls]
        \cup {<<first>> \o flow : first \in Scripts!Loads, flow \in [1 .. 2 -> Scripts!FlowCalls]} :
        input' = [kind |-> "script", calls |-> calls, throws |-> throws]
\* A method's arguments are the listed ones, or those of a call known by name.
Invocation == For("invocation") /\
    \/ \E args \in UpTo(2, DOMAIN Scripts!ArgSamples), method \in {<<"", "Runtime.BurnToken">>, <<"stake", "Stake">>} :
         input' = [kind |-> "invocation", way |-> "call", method |-> method, args |-> args, known |-> 0, throws |-> TRUE]
    \/ \E way \in {"call", "read", "write"}, i \in DOMAIN Scripts!Helpers :
         input' = [kind |-> "invocation", way |-> way, known |-> i, throws |-> TRUE]
MethodOf == CASE input.known = 0 -> Scripts!Method(input.method[1], input.method[2], [i \in DOMAIN input.args |-> i])
              [] input.known # 0 /\ input.way = "call" -> Scripts!Helpers[input.known]
              [] OTHER -> IF input.way = "read" THEN Scripts!ReadsRam ELSE Scripts!Helpers[10]
GivenTo == IF input.known # 0 THEN Scripts!GivenParameters ELSE [i \in DOMAIN input.args |-> Scripts!ArgSamples[input.args[i]]]
Transaction == For("transaction") /\ \E throws \in BOOLEAN, script \in {<<>>, <<0>>, <<60, 61, 62, 63>>} :
    input' = [kind |-> "transaction", script |-> script, throws |-> throws]
ObjectInput ==
    CASE Is("blob") -> Scripts!BlobOf(Scripts!DeserializeData(input.bytes, 1))
      [] Is("object") /\ input.of # 0 -> Scripts!Scalars[input.of]
      [] OTHER -> Scripts!StructOf(input.pairs)

\* Values of the VM survive the wire (DataVm.h): a variable of any type reads back
\* as it is, a struct as its schema says - each field it names with the value given
\* if that has its type and with the zero of the type otherwise, the others only
\* where extras are allowed - a schema as itself; none cut short is accepted; what
\* is written by name is found by name, sorted or not, and a merged struct has the
\* update's value wherever the update names the field.  The script VM's values too
\* (VM/VMObject.h), which are maps and arrays as their keys say and lose nothing in
\* a cast; and a script (VM/ScriptBuilder.h) is the instructions it was asked for,
\* with every jump where its label is, or refused, and gives the contract it calls
\* the arguments it was given, in their order; its transaction is read as written
\* (Transaction.h) and, cut inside its signatures, as unsigned - but without exceptions
\* as one with as many as are announced, of which only those in the bytes are whole,
\* and with an error in the caller's reader.
StructsAreExact ==
    /\ Is("variable") => Vm!VariableIsExact(Vm!VariableOf(input.of), Vm!WriteVariable(Vm!VariableOf(input.of)))
    /\ Is("struct") => Vm!SchemaAndStructAreExact(StructInput,
            Vm!SchemaOf(input.type, Vm!Structures[input.structure], input.other, input.extras, input.sorted))
    /\ Is("merge") => Vm!MergeIsExact(Vm!Merging(input.old), Vm!Merging(input.updates))
    /\ Is("object") \/ Is("blob") => Scripts!ObjectIsExact(ObjectInput)
    /\ Is("script") => Scripts!ScriptIsExact(input.calls, Scripts!EndScript(Scripts!Built(input.calls)))
    /\ Is("invocation") => Scripts!CallIsExact(input.way, MethodOf, GivenTo, input.known - 1)
    /\ Is("transaction") => Scripts!TransactionsAreExact(input.script)

-----------------------------------------------------------------------------
(* Bytes as text, in each of the three codes, and texts of them, good and   *)
(* bad. Base58 has six letters for eight bytes, so that its numbers fit.    *)
Codes == INSTANCE TextCodes WITH Radix58 <- 6, ByteValues <- 8
ByteSamples == ("16" :> {0, 9, 10, 171, 255}) @@ ("58" :> {0, 1, 6, 7}) @@ ("64" :> {0, 1, 63, 64, 255})
TextSamples == ("16" :> {0, 1, 9, 10, 26, 31, Codes!X, Codes!Bad}) @@ ("58" :> {0, 1, 4, 5, Codes!Bad})
    @@ ("64" :> {0, 1, 4, 16, 63, Codes!Pad, Codes!Bad})
Bytes == For("bytes") /\ \E code \in {"16", "58", "64"} : \E bytes \in UpTo(3, ByteSamples[code]) :
    input' = [kind |-> "bytes", code |-> code, bytes |-> bytes]
Text == For("text") /\ \E code \in {"16", "58", "64"} : \E text \in UpTo(4, TextSamples[code]) :
    \E first \in IF code = "64" THEN {<<>>, <<1, 2, 3, 4>>, <<5, 16, Codes!Pad, Codes!Pad>>} ELSE {<<>>} :
        input' = [kind |-> "text", code |-> code, text |-> first \o text]

\* Bytes that are written as text are read back as they were, and a text is
\* accepted exactly if it is one of the code, for the bytes it says (Base16.h,
\* Base58.h, Base64.h): whatever the case, the prefix, an odd length, leading
\* zeros, a padding and the room in the reader's buffer; a checked text with a
\* letter changed is not accepted for what it was.
TextsAreExact ==
    /\ Is("bytes") => LET bytes == input.bytes IN
        CASE input.code = "16" -> \A lowercase \in BOOLEAN :
                bytes # <<>> => Codes!HexIsExact(bytes, lowercase, Codes!Encode16(bytes, lowercase))
          [] input.code = "58" -> Codes!Base58IsExact(bytes, Codes!Encode58(bytes), Codes!CheckEncode(bytes))
          [] input.code = "64" -> bytes # <<>> => Codes!Base64IsExact(bytes, Codes!Encode64(bytes))
    /\ Is("text") =>
        CASE input.code = "16" -> Codes!HexTextIsRead(input.text, Codes!Decode16(input.text))
          [] input.code = "58" -> Codes!Base58TextIsRead(input.text, Codes!Decode58(input.text))
          [] input.code = "64" -> Codes!Base64TextIsRead(input.text, Codes!Decode64(input.text))

-----------------------------------------------------------------------------
(* Unbounded integers of up to three words, their bytes and their texts.    *)
Big == INSTANCE BigInteger
Edges == {0, 1, 2, 3, 4, 7, 8, 9, 10, 15, 16, 17, 31, 63, 64, 100, 127, 128, 129, 143, 239, 240, 255, 256, 257, 300,
    511, 1000, 2047, 2048, 2303, 3839, 4095}
Numbers == Edges \cup {-n : n \in Edges}
Dividends == {4080 - 37 * k : k \in 0 .. 80}
Pair == For("pair") /\ \E m \in Numbers \cup Dividends, n \in Numbers \cup {18 + 13 * k : k \in 0 .. 17} :
    /\ m \in Numbers <=> n \in Numbers
    /\ input' = [kind |-> "pair", m |-> m, n |-> n]
Single == For("single") /\ \E n \in Numbers \cup Dividends : input' = [kind |-> "single", n |-> n]
Power == For("power") /\ \E n \in -12 .. 40, e \in {-2, -1, 0, 1, 2, 3, 5, 6, 8}, m \in {-1, 0, 1, 2, 7, 10, 16, 17, 33} :
    input' = [kind |-> "power", m |-> n, e |-> e, n |-> m]
Image == For("image") /\ \E bytes \in UpTo(4, 0 .. 3) : input' = [kind |-> "image", bytes |-> bytes]
Numeral == For("numeral") /\ \E text \in UpTo(4, {0, 1, 9, Big!Hyphen, Big!Point, Big!Comma, Big!PlusMark, Big!NewLine, Big!Other}) :
    input' = [kind |-> "numeral", text |-> text]

\* Those of a fixed width: every number of twelve bits, the edges in pairs.
Wide == INSTANCE WideInts
WideEdges == {0, 1, 2, 7, 8, 9, 15, 16, 17, 100, 127, 128, 129, 240, 255, 256, 257, 300, 999, 2047, 2048, 2049, 2176, 3840, 3967, 3968, 3969, 4080, 4094, 4095}
WidePair == For("widepair") /\ \E m \in WideEdges \cup {4095 - 211 * k : k \in 1 .. 19}, n \in WideEdges :
    input' = [kind |-> "widepair", m |-> m, n |-> n]
WideNumber == For("wide") /\ \E n \in 0 .. 4095 : (n % 13 = 0 \/ n \in WideEdges) /\ input' = [kind |-> "wide", n |-> n]
Header == For("header") /\ \E negative, reserved \in BOOLEAN, length \in 0 .. 7 : \E bytes \in UpTo(2, {0, 1, 3}), last \in UpTo(5, {0, 3}) :
    input' = [kind |-> "header", of |-> [negative |-> negative, reserved |-> reserved, length |-> length, bytes |-> bytes \o last]]
WideText == For("widetext") /\ \E text \in UpTo(5, {0, 1, 9, Wide!Hyphen, Wide!PlusMark, Wide!NewLine, Wide!Other}) :
    input' = [kind |-> "widetext", text |-> text]

\* Numbers are what they are in every form (FeeInfusions.h, ParseDecimalU64;
\* BigInteger.h): the decimal texts of the fee tables; sums, products, quotients
\* and remainders of any signs and any number of words, comparison, bits, shifts,
\* powers, inverses and roots, with their carries, their corrected digits and
\* their guards; bytes in two's complement and texts with a sign or a point, read
\* back as the number written - but for the answers BigInteger.tla names.
NumbersAreExact ==
    /\ Is("decimal") => DecimalIsExact(input.text)
    /\ Is("pair") => /\ Big!PairIsExact(Big!Of(input.m), Big!Of(input.n), input.m, input.n)
                     /\ Big!BitwiseIsExact(Big!Of(input.m), Big!Of(input.n), input.m, input.n)
    /\ Is("single") => LET x == Big!Of(input.n) IN
        /\ Big!SingleIsExact(x, input.n)
        /\ Big!BytesAreExact(x, input.n, Big!ToSignedByteArray(x), Big!ToUnsignedByteArray(x))
        /\ \A decimals \in 0 .. 3, always \in BOOLEAN :
             input.n >= 0 => Big!DecimalsAreExact(Big!DecimalText(x, decimals, always), input.n, decimals, always)
    /\ Is("power") => Big!PowersAreExact(Big!Of(input.m), input.m, input.e, input.n)
    /\ Is("image") => Big!FromBytesIsExact(input.bytes, Big!FromSignedArray(input.bytes))
    /\ Is("numeral") => /\ \A radix \in {10, 8} : Big!TextIsRead(input.text, radix, Big!Parse(input.text, radix))
                        /\ \A decimals \in 0 .. 2 : Big!DecimalTextIsRead(input.text, decimals, Big!DecimalValue(input.text, decimals, Big!Comma))
    /\ Is("widepair") => Wide!PairIsExact(Wide!OfInt(input.m), Wide!OfInt(input.n), input.m, input.n)
    /\ Is("wide") => LET a == Wide!OfInt(input.n) IN
        /\ Wide!NumberIsExact(a, input.n, Wide!SignedOf(input.n))
        /\ Wide!CodecIsExact(a, Wide!SignedOf(input.n), Wide!Write256(a), Wide!WriteIntX(Wide!Big(a)))
    /\ Is("header") => Wide!ImageIsRead(input.of, Wide!Read256(input.of), Wide!ReadIntX(input.of, TRUE), Wide!ReadIntX(input.of, FALSE))
    /\ Is("widetext") =>
        /\ Wide!TextIsRead(input.text, Wide!FromString(input.text, 10), Wide!IntXFromString(input.text, Len(input.text), 10))
        /\ Wide!RadixIsTen(input.text, Wide!FromString(input.text, 8))

-----------------------------------------------------------------------------
(* Tokens: every value for a field of every type, as each of some metadata; *)
(* schemas with the standard fields in every place and one more or wrong;   *)
(* what the parts of a creation are given.                                  *)
Tokens == INSTANCE TokenImages WITH Throws <- ("throws" \in DOMAIN input => input.throws)
Given == For("given") /\ \E type \in Vm!Types, structure \in 1 .. 3, k \in DOMAIN Tokens!Values, way \in 1 .. 9, form \in {"sorted", "plain", "ROM too"}, throws \in BOOLEAN :
    /\ structure = 1 \/ Vm!HasStructure(type)
    /\ form = "ROM too" => k \in {3, 24}
    /\ way = 1 \/ k \in {3, 4, 14, 24, 48}
    /\ input' = [kind |-> "given", type |-> type, structure |-> structure, of |-> k, way |-> way, form |-> form, throws |-> throws]
Places == {"series", "rom", "both", "none"}
Token == For("token") /\ \E name, royalties \in Places, twist \in Tokens!Twists, type \in Vm!Types :
    /\ type = Vm!Int8 \/ (twist \in Tokens!OfAnyType /\ name = "rom" /\ royalties = "series")
    /\ input' = [kind |-> "token", places |-> ("name" :> name) @@ ("royalties" :> royalties), twist |-> twist, type |-> type]
TokenTexts == For("texts") /\ \E given \in [{"url", "name", "icon", "description"} -> 1 .. 7], extra \in BOOLEAN :
    /\ given["url"] \in {1, 3, 5}
    /\ input' = [kind |-> "texts", given |-> given, extra |-> extra]
IconText == For("icon") /\ \E first \in {<<>>, <<1, 2, 3, 4>>, <<5, 16, Codes!Pad, Codes!Pad>>}, rest \in UpTo(4, TextSamples["64"]) :
    input' = [kind |-> "icon", payload |-> first \o rest]
Standard == For("standard") /\ \E royalties \in 0 .. 15, blank \in {"", "name", "description", "imageURL", "infoURL"}, choice \in 1 .. 4, rom \in {0, 2} :
    input' = [kind |-> "standard", royalties |-> royalties, blank |-> blank, choice |-> choice, rom |-> rom]
Creation == For("creation") /\ \E symbol \in {"", "SOUL", "soul", "256"}, supply \in {0, 1, 15, 16, 17, 31, 32, 48, 63}, isNFT \in BOOLEAN, metadata, schemas \in {0, 2} :
    input' = [kind |-> "creation", symbol |-> symbol, supply |-> supply - 32, isNFT |-> isNFT, metadata |-> metadata, schemas |-> schemas]

\* The places of the standard fields; a wrong field is before them in the series.
SeriesAt == Tokens!More(input.twist, "series", input.type) \o Tokens!AtPlaces("series", input.places)
RomAt == Tokens!AtPlaces("rom", input.places) \o Tokens!More(input.twist, "rom", input.type)
RamAt == Tokens!More(input.twist, "ram", input.type)
SchemasBuilt == Tokens!BuildFromFields(SeriesAt, RomAt, RamAt)
TokenCase == IF Is("token") THEN Tokens!CaseFor(SchemasBuilt[1], input.type)
          ELSE Tokens!CaseOf(input.type, Tokens!Structures[input.structure], input.form, Tokens!MetadataWays(Tokens!Values[input.of])[input.way])
MetaFields == Tokens!MetaFields(input.given, input.extra)

\* What a caller gives for a token is what the chain will have (TokenSchemas.h,
\* Token.h): a value is stored under the name and in the type the schema asks for,
\* holding what was given, or the builder refuses - never a zero, another field's
\* value, a text trimmed or a number cut, but for the text of even length that is no
\* hexadecimal one, which without exceptions is stored as no bytes (TakenForNone) -
\* and the identity, the mode and the ROM are the derived ones; schemas are accepted exactly if a token with them has its
\* standard metadata in one place, in the case and type the chain looks for, and
\* then series and NFTs can be made with them; the icon is an encoding; and the
\* creation asks for the token its caller described.
TokensAreBuilt ==
    /\ Is("given") \/ (Is("token") /\ SchemasBuilt # Tokens!Refused) => Tokens!CaseIsExact(TokenCase, 5, Is("token"))
    /\ Is("token") => Tokens!SchemasAreExact(SeriesAt, RomAt, RamAt, SchemasBuilt)
    /\ Is("texts") => Tokens!TextsAreStored(MetaFields, Tokens!BuildTokenMetadata(MetaFields))
    /\ Is("icon") => Tokens!IconIsAnEncoding(input.payload)
    /\ Is("standard") => Tokens!StandardIsExact(Tokens!TextsBut(input.blank), input.royalties, Tokens!BlobOf(input.rom), Tokens!SchemaChoices[input.choice])
    /\ Is("creation") => Tokens!CreationIsExact(input.symbol, input.supply, input.isNFT, Tokens!BlobOf(input.metadata), Tokens!BlobOf(input.schemas))

-----------------------------------------------------------------------------
Next == Words \/ Digit \/ Document \/ Garbage \/ Intact \/ Variant \/ Event \/ Call
    \/ Calling \/ Asking \/ BentAnswer \/ OtherAnswer
    \/ Object \/ Blob \/ Script \/ Invocation \/ Transaction
    \/ Message \/ Signing \/ Stored \/ Built \/ Variable \/ Struct \/ Merging
    \/ Bytes \/ Text \/ Pair \/ Single \/ Power \/ Image \/ Numeral
    \/ WidePair \/ WideNumber \/ Header \/ WideText
    \/ Given \/ Token \/ TokenTexts \/ IconText \/ Standard \/ Creation
Spec == Init /\ [][Next]_input

=============================================================================

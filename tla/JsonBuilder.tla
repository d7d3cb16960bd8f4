---------------------------- MODULE JsonBuilder ----------------------------
(***************************************************************************)
(* The JSON writer the SDK uses when the application brings none           *)
(* (include/Rpc/Prelude.h, JSONBuilder), and the requests written with it. *)
(* The text written is a sequence of symbols, as JsonText reads them; a    *)
(* text, a number or a flag is one symbol.                                 *)
(***************************************************************************)
EXTENDS JsonText

Comma == <<",", " ">>
BeginObject == [s |-> <<"{">>, empty |-> TRUE]
Put(builder, text) == [builder EXCEPT !.s = @ \o text]
AddKey(builder, key) ==
    [s |-> builder.s \o (IF builder.empty THEN <<>> ELSE Comma) \o Quoted(<<key>>) \o <<":", " ">>,
     empty |-> FALSE]
EndObject(builder) == Put(builder, <<"}">>)
AddString(builder, key, value) == Put(AddKey(builder, key), Quoted(<<value>>))

\* Texts are quoted, without escapes; numbers and flags are not.
Value(arg)   == IF arg.type = "Text" THEN Quoted(<<arg.text>>) ELSE <<arg.text>>
InList(texts) == FlattenSeq([i \in DOMAIN texts |-> (IF i = 1 THEN <<>> ELSE Comma) \o texts[i]])
AddValues(args) == InList([i \in DOMAIN args |-> Value(args[i])])
AddArray(builder, key, args) == Put(AddKey(builder, key), <<"[">> \o AddValues(args) \o <<"]">>)

\* A list of texts inside the list, before the other arguments.
AddNestedStrings(values) == <<"[">> \o InList([i \in DOMAIN values |-> Quoted(<<values[i]>>)]) \o <<"]">>
NestedThen(values, args, gap) == AddNestedStrings(values) \o (IF args = <<>> THEN <<>> ELSE gap \o AddValues(args))
AddArrayWithNestedStringArray(builder, key, values, args) ==
    Put(AddKey(builder, key), <<"[">> \o NestedThen(values, args, Comma) \o <<"]">>)

\* The beginning of every request, and its end with the arguments given.
AddJsonRpcRequestId(builder, id) == AddString(builder, "id", id)
Begun(wire, id) == AddJsonRpcRequestId(AddString(AddString(BeginObject, "jsonrpc", "2.0"), "method", wire), id)
AddParams(builder, args, values) ==
    IF args # <<>> /\ args[1].type = "Texts" THEN AddArrayWithNestedStringArray(builder, "params", values, Tail(args))
    ELSE AddArray(builder, "params", args)
MakeRequest(wire, id, args, values) == EndObject(AddParams(Begun(wire, id), args, values)).s

-----------------------------------------------------------------------------
\* The document a request is, with the parameters in their order.
Leaf(text) == Scalar(Quoted(<<text>>))
ParamDocument(param, values) ==
    CASE param.type = "Text"  -> Leaf(param.name)
      [] param.type = "Texts" -> Array([i \in DOMAIN values |-> Leaf(values[i])])
      [] OTHER -> Scalar(<<param.name>>)
RequestDocument(wire, id, params, values) ==
    Object(<<<<<<"jsonrpc">>, Leaf("2.0")>>, <<<<"method">>, Leaf(wire)>>, <<<<"id">>, Leaf(id)>>,
             <<<<"params">>, Array([i \in DOMAIN params |-> ParamDocument(params[i], values)])>>>>)

\* What is written is that document, blanks apart.
RequestSays(text, document) == SelectSeq(text, LAMBDA s : s # " ") = Written(document, <<>>)

=============================================================================

------------------------------ MODULE VmImages ------------------------------
(***************************************************************************)
(* Samples of the values of VmData, and what is asked of their images.     *)
(***************************************************************************)
EXTENDS VmData

\* A schema that a struct of a sample has, and one it does not name its
\* fields in order of.
Pair == SortSchema(<<Typed("b", Int8, NoSchema), Typed("a", String, NoSchema)>>, FALSE)
Loose == [fields |-> <<Typed("b", Int8, NoSchema), Typed("a", Bytes, NoSchema)>>,
          extras |-> TRUE, sorted |-> FALSE]
PairStruct == <<Field("a", <<String, "text">>), Field("b", <<Int8, Val("byte")>>)>>

\* Two samples of the data of each type; the second of an array of structs has
\* the structs' own schema.
Plain(type) ==
    CASE type = Bytes -> <<Word(3, Val("blob"))>>
      [] type = String -> "string"
      [] type = Int256 -> <<17, "wide">>
      [] type = Struct -> <<Field("a", <<Bytes, <<>>>>), Field("b", <<Int8, Val("second")>>)>>
      [] type = Dynamic -> <<<<Int16, Val("inner")>>>>
      [] OTHER -> Val("number")
DataOf(type) ==
    CASE type = Array + Struct ->
           <<[schema |-> NoSchema, structs |-> <<>>],
             [schema |-> Pair, structs |-> <<PairStruct, <<>>>>]>>
      [] type = Array + Dynamic ->
           <<<<>>, <<<<Int64, Val("first")>>, <<Dynamic, <<>>>>, <<String, "">>>>>>
      [] IsArray(type) /\ Element(type) \notin {Dynamic, Struct} ->
           <<<<>>, <<Plain(Element(type)), DefaultData(Element(type))>>>>
      [] OTHER -> <<DefaultData(type), Plain(type)>>

Variables_ == {<<t, n>> : t \in Types, n \in 1 .. 2}
VariableOf(of) == <<of[1], DataOf(of[1])[of[2]]>>

\* The schemas of two fields and perhaps a third, of a type of its own.
Structures == <<NoSchema, Pair, Loose>>
SchemaOf(type, structure, other, extras, sorted) ==
    [fields |-> <<Typed("a", type, structure), Typed("c", other, NoSchema)>>,
     extras |-> extras, sorted |-> sorted]

\* The struct written by it: "a" of its type, of another or missing, "c", and
\* fields the schema does not name.
StructOf(a, c, more) ==
    (IF a = <<>> THEN <<>> ELSE <<Field("a", VariableOf(a))>>)
    \o (IF more THEN <<Field("b", <<Int32, Val("extra")>>)>> ELSE <<>>)
    \o (IF c = <<>> THEN <<>> ELSE <<Field("c", VariableOf(c))>>)
    \o (IF more THEN <<Field("d", <<Dynamic, <<>>>>)>> ELSE <<>>)

-----------------------------------------------------------------------------
(* What a reader is expected to find: each field the schema names, with    *)
(* the value given if it has the field's type and the zero of that type    *)
(* otherwise, and the others where the schema allows them, all in order.   *)
(* A null pointer is read back as an empty array.                          *)

RECURSIVE Expected(_, _, _), ExpectedStruct(_, _)
ExpectedVariable(v) == <<v[1], Expected(v[1], v, NoSchema)>>
ExpectedFields(fields) ==
    [i \in DOMAIN fields |-> Field(fields[i].name, ExpectedVariable(fields[i].value))]
Expected(type, v, schema) ==
    LET data == IF v[1] = type THEN v[2] ELSE DefaultData(type)
    IN  CASE type = Dynamic ->
               IF data = <<>> THEN <<<<Array + Dynamic, <<>>>>>>
               ELSE <<ExpectedVariable(data[1])>>
          [] type = Array + Dynamic -> [i \in DOMAIN data |-> ExpectedVariable(data[i])]
          [] type = Struct ->
               IF schema.fields = <<>> THEN ExpectedFields(Sort(data))
               ELSE ExpectedStruct(data, schema)
          [] type = Array + Struct ->
               LET used == IF schema.fields = <<>> THEN data.schema ELSE schema
               IN  IF data.structs = <<>> THEN [schema |-> NoSchema, structs |-> <<>>]
                   ELSE [schema |-> used,
                         structs |-> [i \in DOMAIN data.structs |->
                                         ExpectedStruct(data.structs[i], used)]]
          [] OTHER -> data
ExpectedStruct(fields, schema) ==
    LET given(name) == {fields[i].value : i \in {k \in DOMAIN fields : fields[k].name = name}}
        named == [i \in DOMAIN schema.fields |->
                     LET f == schema.fields[i]
                         v == IF given(f.name) = {} THEN <<f.type, DefaultData(f.type)>>
                              ELSE CHOOSE x \in given(f.name) : TRUE
                     IN  Field(f.name, <<f.type, Expected(f.type, v, f.structure)>>)]
        others == SelectSeq(fields, LAMBDA f :
                     \A i \in DOMAIN schema.fields : schema.fields[i].name # f.name)
    IN  IF schema.extras THEN Sort(named \o ExpectedFields(others)) ELSE Sort(named)

-----------------------------------------------------------------------------
CutPoints(image) ==
    UNION {{Size(SubSeq(image, 1, i)) - image[i][1], Size(SubSeq(image, 1, i)) - 1} :
               i \in DOMAIN image}

VariableIsExact(v, image) ==
    LET back == ReadVariable(Reader(image))
    IN  /\ back.ok /\ back.length = 0 /\ back.got = ExpectedVariable(v)
        /\ \A n \in CutPoints(image) : ~ReadVariable(Reader(Cut(image, n))).ok

\* A struct by its schema reads back field for field, whatever it was short of.
StructIsExact(fields, schema, image) ==
    LET back == ReadStruct(Reader(image), schema)
    IN  /\ back.ok /\ back.length = 0 /\ back.got = ExpectedStruct(fields, schema)
        /\ \A n \in CutPoints(image) : ~ReadStruct(Reader(Cut(image, n)), schema).ok

SchemaIsExact(schema, image) ==
    LET back == ReadSchema(Reader(image))
    IN  /\ back.ok /\ back.length = 0 /\ back.got = schema
        /\ \A n \in CutPoints(image) : ~ReadSchema(Reader(Cut(image, n))).ok

\* A schema finds each of its fields by name, sorted or not.
SchemaFinds(schema) ==
    \A i \in DOMAIN schema.fields :
        SchemaLookup(schema, schema.fields[i].name) = <<schema.fields[i]>>

SchemaAndStructAreExact(fields, schema) ==
    /\ SchemaFinds(schema)
    /\ SchemaIsExact(schema, WriteSchema(schema))
    /\ StructIsExact(fields, schema, WriteStruct(fields, schema))

\* A merged struct answers by name what the update says, else what the old
\* one said, and nothing where the update is null; lookups find every field
\* and no other, before one is erased and after.
MergeNames == {"a", "b", "c", "d", "url"}
OthersStay(old, erased, name) ==
    \A n \in MergeNames : Lookup(erased, n) = IF n = name THEN <<>> ELSE Lookup(old, n)
MergeIsExact(old, updates) ==
    LET merged == Merge(old, updates)
        expected(name) ==
            LET new == Lookup(updates, name)
            IN  IF new = <<>> THEN Lookup(old, name) ELSE IF IsNull(new[1]) THEN <<>> ELSE new
    IN  /\ InOrder(merged)
        /\ \A name \in MergeNames : Lookup(merged, name) = expected(name)
        /\ \A i \in DOMAIN old : /\ Lookup(old, old[i].name) = <<old[i].value>>
                               /\ OthersStay(old, Erase(old, i), old[i].name)

\* The structs of fields a, b, c with these values, none where 0.
MergeValues == <<<<Dynamic, <<>>>>, <<Int8, Val("x")>>, <<Int8, Val("y")>>>>
Merging(values) ==
    LET names == SelectSeq(<<1, 2, 3>>, LAMBDA i : values[i] # 0)
    IN  [k \in DOMAIN names |-> Field(<<"a", "b", "c">>[names[k]], MergeValues[values[names[k]]])]

=============================================================================

------------------------------- MODULE VmData -------------------------------
(***************************************************************************)
(* The self-describing values of src/include/Carbon/DataVm.h: schemas,     *)
(* dynamic variables, structs looked up by name, and their wire form with  *)
(* a schema and without one.                                               *)
(*                                                                         *)
(* A name is a string, ordered by its place in NameOrder (strcmp). A       *)
(* variable is <<type, data>>: the data of an array is the sequence of its *)
(* elements, of an array of structs [schema, structs], of Dynamic the      *)
(* variable it points at, in a sequence that is empty for a null pointer.  *)
(* A struct is the sequence of its fields.                                 *)
(***************************************************************************)
EXTENDS CarbonWire, FiniteSets

\* The field names that occur, as strcmp sorts them.
NameOrder == <<"A", "ID", "Name", "ROM", "_i", "a", "b", "c", "d", "description",
    "icon", "imageURL", "infoURL", "mode", "name", "rom", "royalties", "url">>

\* A field of a struct, and one of a schema.
Field(name, v) == [name |-> name, value |-> v]
Typed(name, type, structure) == [name |-> name, type |-> type, structure |-> structure]

\* enum class VmType
Dynamic == 0
Array == 1
Bytes == 2
Struct == 4
Int8 == 6
Int16 == 8
Int32 == 10
Int64 == 12
Int256 == 14
Bytes16 == 16
Bytes32 == 18
Bytes64 == 20
String == 22
Types == 0 .. 23

IsArray(type) == type % 2 = 1
Element(type) == type - (type % 2)
\* The words a fixed-width type is written in.
FixedWidth == (Int8 :> 1) @@ (Int16 :> 2) @@ (Int32 :> 4) @@ (Int64 :> 8)
              @@ (Bytes16 :> 16) @@ (Bytes32 :> 32) @@ (Bytes64 :> 64)

\* VmTypeFromString, on the text with its spaces and dashes gone and in lower
\* case: <<type>>, or <<>> where it fails.
TypeNames == ("dynamic" :> 0) @@ ("array" :> 1) @@ ("array_dynamic" :> 1)
    @@ ("bytes" :> 2) @@ ("struct" :> 4) @@ ("int8" :> 6) @@ ("int16" :> 8)
    @@ ("int32" :> 10) @@ ("int64" :> 12) @@ ("int256" :> 14) @@ ("bytes16" :> 16)
    @@ ("bytes32" :> 18) @@ ("bytes64" :> 20) @@ ("string" :> 22)
    @@ ("array_bytes" :> 3) @@ ("array_struct" :> 5) @@ ("array_int8" :> 7)
    @@ ("array_int16" :> 9) @@ ("array_int32" :> 11) @@ ("array_int64" :> 13)
    @@ ("array_int256" :> 15) @@ ("array_bytes16" :> 17) @@ ("array_bytes32" :> 19)
    @@ ("array_bytes64" :> 21) @@ ("array_string" :> 23)
VmTypeFromString(text) == IF text \in DOMAIN TypeNames THEN <<TypeNames[text]>> ELSE <<>>

-----------------------------------------------------------------------------
(* Names in order.                                                         *)

Place(name) == CHOOSE i \in DOMAIN NameOrder : NameOrder[i] = name
Before(a, b) == Place(a) < Place(b)

InOrder(fields) == \A i \in 2 .. Len(fields) : ~Before(fields[i].name, fields[i - 1].name)
Sort(fields) ==
    IF InOrder(fields) THEN fields
    ELSE SortSeq(fields, LAMBDA a, b : Before(a.name, b.name))

RECURSIVE LowerBound(_, _, _, _)
\* std::lower_bound over the `count` fields after `first`, by halves.
LowerBound(fields, name, first, count) ==
    IF count = 0 THEN first + 1
    ELSE LET half == count \div 2
         IN  IF Before(fields[first + half + 1].name, name)
             THEN LowerBound(fields, name, first + half + 1, count - half - 1)
             ELSE LowerBound(fields, name, first, half)

\* VmDynamicStruct::operator[]: a sequence with the value, or none. It is
\* right on sorted fields only.
Found(fields, name, i) ==
    IF i \in DOMAIN fields /\ fields[i].name = name THEN <<fields[i]>> ELSE <<>>
Lookup(fields, name) ==
    LET found == Found(fields, name, LowerBound(fields, name, 0, Len(fields)))
    IN  [i \in DOMAIN found |-> found[i].value]

\* VmStructSchema::Sort sets the flag that operator[] halves by; without it
\* the fields are searched in turn.
SortSchema(fields, allowDynamicExtras) ==
    [fields |-> Sort(fields), extras |-> allowDynamicExtras, sorted |-> TRUE]

SchemaLookup(schema, name) ==
    Found(schema.fields, name,
          IF schema.sorted THEN LowerBound(schema.fields, name, 0, Len(schema.fields))
          ELSE SelectInSeq(schema.fields, LAMBDA f : f.name = name))

IsNull(variable) == variable = <<Dynamic, <<>>>>

\* VmDynamicStruct::Merge: an update replaces its field, a null one removes it.
Merge(old, updates) ==
    LET kept  == SelectSeq(old, LAMBDA f : Lookup(updates, f.name) = <<>>)
        added == SelectSeq(updates, LAMBDA f : ~IsNull(f.value))
    IN  Sort(kept \o added)

\* VmDynamicStruct::Erase: the fields after it move up.
Erase(fields, i) == RemoveAt(fields, i)

-----------------------------------------------------------------------------
(* Schemas on the wire.                                                    *)

NoSchema == [fields |-> <<>>, extras |-> FALSE, sorted |-> FALSE]
HasStructure(type) == Element(type) = Struct
FlagsByte(schema) == (IF schema.extras THEN 1 ELSE 0) + (IF schema.sorted THEN 2 ELSE 0)

RECURSIVE WriteSchema(_)
WriteSchema(schema) ==
    <<Word(4, Num(Len(schema.fields)))>>
    \o FlattenSeq([i \in DOMAIN schema.fields |->
           LET field == schema.fields[i]
           IN  WriteSmall(field.name) \o <<Word(1, Num(field.type))>>
               \o IF HasStructure(field.type) THEN WriteSchema(field.structure) ELSE <<>>])
    \o <<Word(1, Num(FlagsByte(schema)))>>

RECURSIVE ReadSchema(_), ReadSchemaFields(_, _, _)
\* Read of VmNamedVariableSchema drops the answer for the name; the failure
\* sticks to the reader, so what follows it fails as well.
ReadSchemaFields(r, count, fields) ==
    IF count = 0 \/ ~r.ok THEN Answer(r, fields)
    ELSE Then(ReadSmall(r), LAMBDA name :
         Then(ReadNumber(name, 1), LAMBDA type :
         Then(IF HasStructure(type.got) THEN ReadSchema(type) ELSE Answer(type, NoSchema),
              LAMBDA inner :
                  ReadSchemaFields(inner, count - 1, Append(fields,
                      [name |-> name.got, type |-> type.got, structure |-> inner.got])))))

ReadSchema(r) ==
    Then(ReadArrayLength(r, 1), LAMBDA length :
    Then(ReadSchemaFields(length, length.got, <<>>), LAMBDA fields :
    Then(ReadNumber(fields, 1), LAMBDA flags :
         Answer(flags, [fields |-> fields.got, extras |-> flags.got % 2 = 1,
                        sorted |-> (flags.got \div 2) % 2 = 1]))))

-----------------------------------------------------------------------------
(* Variables on the wire.                                                  *)

\* VmDynamicVariable{} with only its type set.
DefaultData(type) ==
    CASE type = Array + Struct -> [schema |-> NoSchema, structs |-> <<>>]
      [] IsArray(type) \/ type \in {Dynamic, Bytes, Struct} -> <<>>
      [] type = Int256 -> <<0, "">>
      [] type = String -> ""
      [] OTHER -> Num(0)

RECURSIVE WriteTyped(_, _, _)
\* A value of another type is replaced by the zero of the type asked for.
WriteData(type, v, schema) ==
    WriteTyped(type, IF v[1] = type THEN v[2] ELSE DefaultData(type), schema)

\* Without a schema: the type, then the data.
WriteVariable(v) == <<Word(1, Num(v[1]))>> \o WriteData(v[1], v, NoSchema)

WriteNamed(fields) ==
    <<Word(4, Num(Len(fields)))>>
    \o FlattenSeq([i \in DOMAIN fields |->
           WriteSmall(fields[i].name) \o WriteVariable(fields[i].value)])

\* By the schema: its fields in its order, the zero of its type for one the
\* struct has not got (`named` is what it has), then the fields it does not
\* name if it allows them.
Named(fields, schema) == [i \in DOMAIN schema.fields |-> Lookup(fields, schema.fields[i].name)]
ExtraIfAllNamed(fields, schema, named) ==
    IF \A i \in DOMAIN named : named[i] # <<>> THEN <<>>
    ELSE SelectSeq(fields, LAMBDA f :
             \A i \in DOMAIN schema.fields : schema.fields[i].name # f.name)
Extra(fields, schema, named) ==
    IF Len(schema.fields) = Len(fields) /\ \A i \in DOMAIN named : named[i] # <<>> THEN <<>>
    ELSE SelectSeq(fields, LAMBDA f :
             \A i \in DOMAIN schema.fields : schema.fields[i].name # f.name)
WriteBySchema(fields, schema, named) ==
    FlattenSeq([i \in DOMAIN schema.fields |->
        WriteData(schema.fields[i].type,
                  IF named[i] # <<>> THEN named[i][1]
                  ELSE <<schema.fields[i].type, DefaultData(schema.fields[i].type)>>,
                  schema.fields[i].structure)])
    \o IF schema.extras THEN WriteNamed(Extra(fields, schema, named)) ELSE <<>>

\* A schema with no fields is no schema: the struct is sorted and written bare.
WriteStruct(fields, schema) ==
    IF schema.fields # <<>> THEN WriteBySchema(fields, schema, Named(fields, schema))
    ELSE WriteNamed(Sort(fields))

WriteStructs(array, schema) ==
    <<Word(4, Num(Len(array.structs)))>>
    \o (IF schema.fields = <<>> /\ array.schema.fields # <<>>
        THEN WriteSchema(array.schema) ELSE <<>>)
    \o FlattenSeq([i \in DOMAIN array.structs |->
           WriteStruct(array.structs[i],
                       IF schema.fields # <<>> THEN schema ELSE array.schema)])

WriteTyped(type, data, schema) ==
    CASE type = Dynamic ->
           IF data = <<>> THEN <<Word(1, Num(Array + Dynamic)), Word(4, Num(0))>>
           ELSE WriteVariable(data[1])
      [] type = Struct         -> WriteStruct(data, schema)
      [] type = Bytes          -> WriteArray(data)
      [] type = Int256         -> WriteInt256(data)
      [] type = String         -> WriteSz(data)
      [] type \in DOMAIN FixedWidth -> <<Word(FixedWidth[type], data)>>
      [] type = Array + Struct -> WriteStructs(data, schema)
      [] IsArray(type) /\ type # Array + Struct ->
           <<Word(4, Num(Len(data)))>>
           \o FlattenSeq([i \in DOMAIN data |->
                  IF Element(type) = Dynamic THEN WriteVariable(data[i])
                  ELSE WriteTyped(Element(type), data[i], NoSchema)])

RECURSIVE ReadData(_, _, _), ReadMany(_, _, _, _, _), ReadNamed(_, _, _),
          ReadSchemaData(_, _, _, _)
ReadVariable(r) ==
    Then(ReadNumber(r, 1), LAMBDA type :
    Then(ReadData(type, type.got, NoSchema), LAMBDA data :
         Answer(data, <<type.got, data.got>>)))

\* Name and variable, `count` times: the answer for the name is dropped.
ReadNamed(r, count, fields) ==
    IF count = 0 \/ ~r.ok THEN Answer(r, fields)
    ELSE Then(ReadSmall(r), LAMBDA name :
         Then(ReadVariable(name), LAMBDA value :
              ReadNamed(value, count - 1,
                        Append(fields, [name |-> name.got, value |-> value.got]))))

ReadFields(r) ==
    Then(ReadArrayLength(r, 1), LAMBDA length :
    Then(ReadNamed(length, length.got, <<>>), LAMBDA fields :
         Answer(fields, Sort(fields.got))))

\* `count` elements of one type.
ReadMany(r, count, type, schema, items) ==
    IF count = 0 \/ ~r.ok THEN Answer(r, items)
    ELSE Then(IF type = Dynamic THEN ReadVariable(r) ELSE ReadData(r, type, schema),
              LAMBDA item : ReadMany(item, count - 1, type, schema, Append(items, item.got)))

\* The fewest bytes ReadArrayLength allows an element of this type.
ElementBytes(type) ==
    CASE type = Bytes -> 4
      [] type \in DOMAIN FixedWidth -> FixedWidth[type]
      [] OTHER -> 1

ReadSchemaData(r, schema, i, fields) ==
    IF i > Len(schema.fields) \/ ~r.ok THEN Answer(r, fields)
    ELSE Then(ReadData(r, schema.fields[i].type, schema.fields[i].structure), LAMBDA data :
              ReadSchemaData(data, schema, i + 1, Append(fields,
                  [name |-> schema.fields[i].name,
                   value |-> <<schema.fields[i].type, data.got>>])))

\* By the schema: nothing at all for one without fields, not even the count
\* of the extras that Write puts after them.
ReadStruct(r, schema) ==
    IF schema.fields = <<>> THEN Answer(r, <<>>)
    ELSE Then(ReadSchemaData(r, schema, 1, <<>>), LAMBDA named :
         IF ~schema.extras
         THEN Answer(named, IF schema.sorted THEN named.got ELSE Sort(named.got))
         ELSE Then(ReadNumber(named, 4), LAMBDA length :
              IF length.got < 0 THEN Refuse(length)
              ELSE Then(ReadNamed(length, length.got, <<>>), LAMBDA extra :
                        Answer(extra, Sort(named.got \o extra.got)))))

ReadData(r, type, schema) ==
    CASE type = Dynamic -> Then(ReadVariable(r), LAMBDA inner : Answer(inner, <<inner.got>>))
      [] type = Bytes -> ReadArray(r)
      [] type = Struct ->
           IF schema.fields # <<>> THEN ReadStruct(r, schema) ELSE ReadFields(r)
      [] type = Int256 -> ReadInt256(r)
      [] type = String -> ReadSz(r)
      [] type \in DOMAIN FixedWidth -> ReadBytes(r, FixedWidth[type])
      [] type = Array + Struct ->
           Then(ReadArrayLength(r, 1), LAMBDA length :
                IF length.got = 0 THEN Answer(length, [schema |-> NoSchema, structs |-> <<>>])
                ELSE Then(IF schema.fields # <<>> THEN Answer(length, schema)
                          ELSE ReadSchema(length), LAMBDA own :
                     Then(ReadMany(own, length.got, Struct, own.got, <<>>), LAMBDA many :
                          Answer(many, [schema |-> own.got, structs |-> many.got]))))
      [] type \in Types /\ IsArray(type) /\ type # Array + Struct ->
           Then(ReadArrayLength(r, ElementBytes(Element(type))), LAMBDA length :
                ReadMany(length, length.got, Element(type), NoSchema, <<>>))
      [] OTHER -> Refuse(r)

=============================================================================

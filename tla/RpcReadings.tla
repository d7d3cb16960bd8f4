---------------------------- MODULE RpcReadings ----------------------------
(***************************************************************************)
(* How the members of a record are read from an answer of the node         *)
(* (include/PhantasmaAPI.h and include/Rpc), over the lookups and          *)
(* conversions of namespace json.                                          *)
(*                                                                         *)
(* A value of an answer is a tree.  What a string or a number says is a    *)
(* name: "digits" is a string that spells a number, and numbers fit the    *)
(* words they are read into.  What was read is a tree of the same form     *)
(* whose scalars are "content", and whose raw JSON is "kept".              *)
(***************************************************************************)
EXTENDS Naturals, SequencesExt

Tree(shape, of) == [shape |-> shape, of |-> of]
Str(t)     == Tree("string", t)
Quoted(t)  == Tree("digits", t)
Num(t)     == Tree("number", t)
Boolean(t) == Tree("bool", t)
Null       == Tree("null", "")
Array(s)   == Tree("array", s)
Object(f)  == Tree("object", f)
Content(t) == Tree("content", t)
KeptJson(value) == Tree("kept", value)

\* A member that was not read: an empty string, zero, false, no elements.
Unset == Content("")

\* What a conversion or a deserializer returns, and whether it has set jsonErr.
Answer(value, bad) == [value |-> value, bad |-> bad]

-----------------------------------------------------------------------------
\* One member: the key it is looked up by, what it is read as, and how much it
\* is needed.  "always" fails on an absent key, "maybe" asks HasField first,
\* "strict" asks and fails, "list" asks HasArrayField, and "kept" is a payload
\* whose shape is chosen by other members and that stays JSON when it is not it.
Reading(key, as, need) == [key |-> key, as |-> as, need |-> need]
String(key) == Reading(key, "String", "always")
Bool(key)   == Reading(key, "Bool", "always")
Int32(key)  == Reading(key, "Int32", "always")
UInt32(key) == Reading(key, "UInt32", "always")
Int64(key)  == Reading(key, "Int64", "always")
UInt64(key) == Reading(key, "UInt64", "always")
Of(as, key)   == Reading(key, as, "always")
List(key, as) == Reading(key, as, "list")
Kept(key)     == Reading(key, "Payload", "kept")
Maybe(reading)  == [reading EXCEPT !.need = "maybe"]
Strict(reading) == [reading EXCEPT !.need = "strict"]

Each(Make(_), keys) == [i \in DOMAIN keys |-> Make(keys[i])]
Strings(keys)       == Each(String, keys)
MaybeStrings(keys)  == [i \in DOMAIN keys |-> Maybe(String(keys[i]))]
UInt32s(keys)       == Each(UInt32, keys)
UInt64s(keys)       == Each(UInt64, keys)

\* A record is filled either by position, a braced list against the order in
\* which the struct declares its members, or by name, one assignment at a time.
Aggregate(members, readings) == [members |-> members, readings |-> readings]
Assigned(readings) == Aggregate([i \in DOMAIN readings |-> readings[i].key], readings)

-----------------------------------------------------------------------------
Numbers == {"Int32", "UInt32", "Int64", "UInt64"}
Scalars == Numbers \cup {"String", "Bool", "Value", "TokenSeriesMode", "EventMetadata", "VmValue", "VmMetadata"}

\* The conversions of namespace json: a number may be quoted, nothing else bends.
Converted(value, shapes) == Answer(Content(value.of), value.shape \notin shapes)
ScalarText(value) == Converted(value, {"string", "digits", "number", "bool", "null"})

\* A mode is a word or a number; an unknown word is Unique.
ModeOf(text) == CASE text = "0" -> "Unique" [] text = "1" -> "Duplicated" [] OTHER -> text
DeserializeTokenSeriesMode(value) ==
    CASE value.shape \in {"string", "digits"} ->
            Answer(Content(IF ModeOf(value.of) = "Duplicated" THEN "Duplicated" ELSE "Unique"), FALSE)
      [] value.shape = "number" -> Answer(Content(ModeOf(value.of)), FALSE)
      [] OTHER -> Answer(Unset, TRUE)

\* The elements ArraySize counts and IndexArray finds: true, false and null are
\* passed over, and an index stops at the first place with as many before it.
Passed(value) == value.shape \in {"bool", "null"}
CountBefore(elements, i) == Cardinality({j \in 1 .. i - 1 : ~Passed(elements[j])})
Elements(elements) ==
    [n \in 1 .. CountBefore(elements, Len(elements) + 1) |->
        elements[CHOOSE i \in DOMAIN elements : CountBefore(elements, i) = n - 1
                    /\ \A j \in 1 .. i - 1 : CountBefore(elements, j) # n - 1]]

\* A VM value is what its shape says; a null is the empty text.
RECURSIVE ParseVmValue(_)
ParseVmValue(value) ==
    CASE value.shape = "array"  -> Array([i \in DOMAIN Elements(value.of) |-> ParseVmValue(Elements(value.of)[i])])
      [] value.shape = "object" -> Object([k \in DOMAIN value.of |-> ParseVmValue(value.of[k])])
      [] OTHER -> Content(value.of)

\* A map of texts the node has already rendered.
ParseEventMetadata(value) ==
    IF value.shape # "object" THEN Answer(Unset, TRUE)
    ELSE Answer(Object([k \in DOMAIN value.of |-> ScalarText(value.of[k]).value]),
                \E k \in DOMAIN value.of : ScalarText(value.of[k]).bad)

Convert(as, value) ==
    CASE as = "String"  -> Converted(value, {"string", "digits"})
      [] as = "Bool"    -> Converted(value, {"bool"})
      [] as \in Numbers -> Converted(value, {"number", "digits"})
      [] as = "Value"   -> Answer(KeptJson(value), FALSE)
      [] as = "TokenSeriesMode" -> DeserializeTokenSeriesMode(value)
      [] as = "EventMetadata"   -> ParseEventMetadata(value)
      [] as = "VmValue"         -> Answer(ParseVmValue(value), FALSE)
      [] as = "VmMetadata"      -> Answer(ParseVmValue(value), value.shape # "object")

=============================================================================

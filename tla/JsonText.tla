------------------------------ MODULE JsonText ------------------------------
(***************************************************************************)
(* The JSON reader the SDK uses when the application brings none           *)
(* (include/PhantasmaAPI.h, namespace json).  There is no tree: a value is *)
(* the text from its first character to the end of the document, and every *)
(* operation scans it again.                                               *)
(*                                                                         *)
(* A text is a sequence of symbols.  "true", "false" and "null" are one    *)
(* symbol each, a digit of any kind is "1" or "2", and a letter is any     *)
(* other symbol; positions start at 1.                                     *)
(***************************************************************************)
EXTENDS Naturals, SequencesExt

Blanks   == {" "}
Digits   == {"1", "2"}
Literals == {"true", "false", "null"}

\* JSONValue::npos, beyond every text; and the values of a failed conversion.
NPos    == 1000
Nothing == <<>>
Refused == <<"refused">>

\* find_first_of, find_first_not_of and substr.
Least(at) == IF at = {} THEN NPos ELSE CHOOSE i \in at : \A j \in at : i <= j
FirstOf(v, set, i)    == Least({j \in i .. Len(v) : v[j] \in set})
FirstNotOf(v, set, i) == Least({j \in i .. Len(v) : v[j] \notin set})
From(v, i) == SubSeq(v, i, Len(v))
Before(v, i) == SubSeq(v, 1, IF i > Len(v) THEN Len(v) ELSE i - 1)

\* Where a scan stopped, and whether it has set out_error.
At(i, bad)      == [at |-> i, bad |-> bad]
Past(i, bad)    == At(IF i = NPos THEN NPos ELSE i + 1, bad)

NumberEnd(i, j)  == IF j = i THEN At(i + 1, TRUE) ELSE At(j, FALSE)
SkipNumber(v, i) == NumberEnd(i, FirstNotOf(v, {"+", "-", ".", "e"} \cup Digits, i))

\* An escape is skipped by its length, "\u" with its four digits; an unknown one
\* is an error and skips the backslash alone.
EscapeLength(c) == IF c = "u" THEN 6 ELSE 2
Escapes == {"\\", "b", "f", "n", "r", "t", "\"", "u"}
RECURSIVE StringFrom(_, _, _)
StringAt(v, i, j, bad) ==
    CASE i > Len(v)     -> Past(i, bad)
      [] j = NPos       -> At(NPos, TRUE)
      [] v[j] = "\""    -> Past(j, bad)
      [] j < Len(v) /\ v[j + 1] \in Escapes -> StringFrom(v, j + EscapeLength(v[j + 1]), bad)
      [] OTHER          -> StringFrom(v, j + 1, TRUE)
StringFrom(v, i, bad) == StringAt(v, i, FirstOf(v, {"\"", "\\"}, i), bad)
SkipString(v, i) == IF v[i] # "\"" THEN At(i + 1, TRUE) ELSE StringFrom(v, i + 1, FALSE)

SkipBoolNull(v, i) == At(i + 1, v[i] \notin Literals)

\* The walk over an array, as the places its loop stops at: an element ("part"),
\* the closing bracket ("end"), only blanks left ("cut") or no text left ("off"),
\* each with the elements counted and the errors met before it.  Literals are
\* skipped and not counted.
Stop(mark, i, count, bad) == [mark |-> mark, at |-> i, count |-> count, bad |-> bad]
StopMark(v, i, j) ==
    CASE i > Len(v)   -> "off"
      [] j = NPos     -> "cut"
      [] v[j] = "]"   -> "end"
      [] OTHER        -> "part"
Counts(c) == IF c \in Literals THEN 0 ELSE 1

\* The walk over an object: a member with its key and where its value begins,
\* the closing brace, a text that ends inside a member ("cut"), or one without
\* another quote or brace ("off").  A key runs to the next quote.
Member(mark, i, key, value) ==
    [mark |-> mark, at |-> i, key |-> key, value |-> value, bad |-> FALSE]
MemberBetween(v, i, open, close, value) ==
    CASE open = NPos \/ i > Len(v)      -> Member("off", i, Nothing, NPos)
      [] v[open] = "}"                  -> Member("end", open, Nothing, NPos)
      [] close = NPos \/ value = NPos   -> Member("cut", i, Nothing, NPos)
      [] OTHER -> Member("part", i, SubSeq(v, open + 1, close - 1), value)
MemberFrom(v, i, open, close) ==
    MemberBetween(v, i, open, close, FirstNotOf(v, {":"} \cup Blanks, close + 1))
MemberAfter(v, i, open) == MemberFrom(v, i, open, FirstOf(v, {"\""}, open + 1))
NextMember(v, i) == MemberAfter(v, i, FirstOf(v, {"\"", "}"}, i))

\* The end of an array or of an object, after the last stop of its walk.  An
\* object ends at its brace, not one past its last value, which may be followed
\* by blanks.
ArrayEnd(stop) == IF stop.mark = "end" THEN Past(stop.at, stop.bad) ELSE Past(stop.at, TRUE)
ObjectEndPastValue(stop, from) == Past(from, stop.bad)
ObjectEnd(stop, from) == Past(stop.at, stop.bad \/ stop.mark = "cut")

RECURSIVE Elements(_, _, _, _), Members(_, _, _), SkipValue(_, _)
ElementsAfter(v, stop, next) == Elements(v, next.at, stop.count + Counts(v[stop.at]), stop.bad \/ next.bad)
ElementsAt(v, stop) ==
    <<stop>> \o (IF stop.mark = "part" THEN ElementsAfter(v, stop, SkipValue(v, stop.at)) ELSE <<>>)
ElementsFrom(v, i, j, count, bad) ==
    ElementsAt(v, Stop(StopMark(v, i, j), IF i > Len(v) THEN i ELSE j, count, bad))
Elements(v, i, count, bad) == ElementsFrom(v, i, FirstNotOf(v, {","} \cup Blanks, i), count, bad)

MembersAfter(v, bad, next) == Members(v, next.at, bad \/ next.bad)
MembersAt(v, member, bad) ==
    <<[member EXCEPT !.bad = bad]>>
    \o (IF member.mark = "part" THEN MembersAfter(v, bad, SkipValue(v, member.value)) ELSE <<>>)
Members(v, i, bad) == MembersAt(v, NextMember(v, i), bad)

SkipArray(v, i)  == IF v[i] # "[" THEN At(i + 1, TRUE) ELSE ArrayEnd(Last(Elements(v, i + 1, 0, FALSE)))
SkipObject(v, i) == IF v[i] # "{" THEN At(i + 1, TRUE) ELSE ObjectEnd(Last(Members(v, i, FALSE)), i)

\* SkipValue is written out again in every loop of the code.
SkipValue(v, i) ==
    CASE v[i] = "{"         -> SkipObject(v, i)
      [] v[i] = "["         -> SkipArray(v, i)
      [] v[i] = "\""        -> SkipString(v, i)
      [] v[i] \in Literals  -> SkipBoolNull(v, i)
      [] OTHER              -> SkipNumber(v, i)

-----------------------------------------------------------------------------
Answer(value, bad) == [value |-> value, bad |-> bad]
Unread == Answer(Nothing, TRUE)

\* The slice that begins at the value of a field, Nothing when there is none.
FieldOf(v, members, field) ==
    LET with == SelectSeq(members, LAMBDA m : m.mark = "part" /\ m.key = field) IN
    IF with # <<>> THEN Answer(From(v, Head(with).value), Head(with).bad)
    ELSE Answer(Nothing, Last(members).bad \/ Last(members).mark = "cut")
LookupValue(v, field) ==
    IF v = Nothing \/ v[1] # "{" THEN Unread ELSE FieldOf(v, Members(v, 1, FALSE), field)

\* Every member in turn, as its key and the slice of its value, to the first error.
Visits(v, members) ==
    LET visited == SelectSeq(members, LAMBDA m : m.mark = "part" /\ ~m.bad) IN
    Answer([i \in DOMAIN visited |-> <<visited[i].key, From(v, visited[i].value)>>],
           Last(members).bad \/ Last(members).mark = "cut")
VisitObjectFields(v) ==
    IF v = Nothing \/ v[1] # "{" THEN Unread ELSE Visits(v, Members(v, 2, FALSE))

SizeAt(stop) == Answer(stop.count, stop.bad \/ stop.mark = "cut")
ArraySize(v) == IF v[1] # "[" THEN Answer(0, TRUE) ELSE SizeAt(Last(Elements(v, 2, 0, FALSE)))

\* The count is compared before the bracket is looked at.
ElementOf(v, stops, index) ==
    LET there == SelectSeq(stops, LAMBDA s : s.mark \in {"part", "end"} /\ s.count = index) IN
    IF there = <<>> THEN Unread ELSE Answer(From(v, Head(there).at), Head(there).bad)
IndexArray(v, index) ==
    IF v[1] # "[" THEN Unread ELSE ElementOf(v, Elements(v, 2, 0, FALSE), index)

-----------------------------------------------------------------------------
\* Conversions of a slice; Refused stands for out_error.
AsBool(v) == IF v = Nothing \/ v[1] \notin {"true", "false"} THEN Refused ELSE <<v[1]>>

\* The text of a string runs to the next quote: escapes are not read.
StringTo(v, end) == IF v = Nothing \/ v[1] # "\"" \/ end = NPos THEN Refused ELSE SubSeq(v, 2, end - 1)
AsString(v) == StringTo(v, FirstOf(v, {"\""}, 2))

\* A number may come as a quoted string, which is not the empty one.
ExtractNumeric(v) ==
    IF v = Nothing THEN Refused
    ELSE IF v[1] # "\"" THEN v
    ELSE IF AsString(v) = Nothing THEN Refused ELSE AsString(v)

\* The signs and digits at the start: what strtol and strtoull are given.
Numeric == {"-"} \cup Digits
NumberTo(source, end) ==
    IF source = Nothing \/ end = 1 THEN Refused ELSE Before(source, end)
AsIntOf(source)    == NumberTo(source, FirstNotOf(source, Numeric, 1))
AsUInt64Of(source) == IF source # Nothing /\ source[1] = "-" THEN Refused ELSE AsIntOf(source)
AsInt(v)    == AsIntOf(ExtractNumeric(v))
AsUInt64(v) == AsUInt64Of(ExtractNumeric(v))

IsString(v) == v # Nothing /\ v[1] = "\""
IsArray(v)  == v # Nothing /\ v[1] = "["
IsObject(v) == v # Nothing /\ v[1] = "{"

\* The guards of what a response may leave out.
HasField(v, field)      == LookupValue(v, field).value # Nothing
HasArrayField(v, field) == IsArray(LookupValue(v, field).value)

\* A scalar as text, null as the empty one; a whole value as text.
TextTo(v, end) == IF end.bad THEN Refused ELSE Before(v, end.at)
ScalarText(v) ==
    CASE v = Nothing         -> Refused
      [] v[1] = "\""         -> AsString(v)
      [] v[1] = "null"       -> Nothing
      [] v[1] \in {"true", "false"} -> TextTo(v, SkipBoolNull(v, 1))
      [] OTHER               -> TextTo(v, SkipNumber(v, 1))
ToText(v) == IF v = Nothing THEN Refused ELSE TextTo(v, SkipValue(v, 1))

-----------------------------------------------------------------------------
(* What a text says: documents written from trees, with or without blanks  *)
(* wherever JSON allows them.                                              *)
Scalar(text)   == [kind |-> "scalar", text |-> text]
Array(parts)   == [kind |-> "array", parts |-> parts]
Object(fields) == [kind |-> "object", keys |-> {fields[i][1] : i \in DOMAIN fields}, fields |-> fields]

Quoted(text) == <<"\"">> \o text \o <<"\"">>
RECURSIVE Written(_, _), Joined(_, _)
Joined(pieces, gap) ==
    IF pieces = <<>> THEN <<>>
    ELSE gap \o Head(pieces) \o gap
         \o (IF Len(pieces) = 1 THEN <<>> ELSE <<",">> \o Joined(Tail(pieces), gap))
Key(field, gap) == Quoted(field[1]) \o gap \o <<":">> \o gap
Pieces(tree, gap) ==
    IF tree.kind = "array" THEN [i \in DOMAIN tree.parts |-> Written(tree.parts[i], gap)]
    ELSE [i \in DOMAIN tree.fields |->
            Key(tree.fields[i], gap) \o Written(tree.fields[i][2], gap)]
Written(tree, gap) ==
    CASE tree.kind = "scalar" -> tree.text
      [] tree.kind = "array"  -> <<"[">> \o Joined(Pieces(tree, gap), gap) \o <<"]">>
      [] tree.kind = "object" -> <<"{">> \o Joined(Pieces(tree, gap), gap) \o <<"}">>

\* The slice of a document that begins with its i-th part.
Slice(v, pieces, i, gap) ==
    From(v, 2 + Len(Joined(SubSeq(pieces, 1, i - 1), gap)) + Len(gap) + (IF i = 1 THEN 0 ELSE 1))

ArrayIsRead(v, pieces, gap) ==
    (\A i \in DOMAIN pieces : pieces[i][1] \notin Literals) =>
        /\ ArraySize(v) = Answer(Len(pieces), FALSE)
        /\ \A i \in DOMAIN pieces : IndexArray(v, i - 1) = Answer(Slice(v, pieces, i, gap), FALSE)
FieldsAre(v, keys, values) ==
    /\ \A i \in DOMAIN keys : LookupValue(v, keys[i]) = Answer(values[i], FALSE)
    /\ LookupValue(v, <<"absent">>) = Answer(Nothing, FALSE)
    /\ VisitObjectFields(v) = Answer([i \in DOMAIN keys |-> <<keys[i], values[i]>>], FALSE)
ObjectIsRead(v, tree, pieces, gap) ==
    FieldsAre(v, [i \in DOMAIN pieces |-> tree.fields[i][1]],
        [i \in DOMAIN pieces |->
            From(Slice(v, pieces, i, gap), Len(Key(tree.fields[i], gap)) + 1)])
ScalarIsRead(v, text) ==
    CASE text[1] = "null" -> ScalarText(v) = Nothing /\ AsBool(v) = Refused
      [] text[1] \in Literals -> ScalarText(v) = text /\ AsBool(v) = text
      [] text[1] = "\"" ->
           (\A i \in DOMAIN text : text[i] # "\\") => {AsString(v), ScalarText(v)} = {SubSeq(text, 2, Len(text) - 1)}
      [] OTHER -> /\ {ScalarText(v), AsInt(v), AsInt(Quoted(text))} = {text}
                  /\ AsUInt64(v) = IF text[1] = "-" THEN Refused ELSE text

\* A value ends where it was written to end, or with the document.
EndsAt(end, i, rest) == ~end.bad /\ (end.at = i \/ (end.at = NPos /\ rest = <<>>))

\* A document followed by anything that may follow a value.
DocumentIsRead(tree, gap, text, v, rest) ==
    /\ EndsAt(SkipValue(v, 1), Len(text) + 1, rest)
    /\ ToText(v) = text
    /\ CASE tree.kind = "array"  -> ArrayIsRead(v, Pieces(tree, gap), gap)
         [] tree.kind = "object" -> ObjectIsRead(v, tree, Pieces(tree, gap), gap)
         [] tree.kind = "scalar" -> ScalarIsRead(v, text)
TextIsRead(tree, gap, text, rest) == DocumentIsRead(tree, gap, text, text \o rest, rest)
TreeIsRead(tree, gap, rest) == TextIsRead(tree, gap, Written(tree, gap), rest)

\* A scan of any text moves forward, so that every loop over it ends.
Advances(v) == \A i \in DOMAIN v : SkipValue(v, i).at > i

=============================================================================

---------------------------- MODULE ScriptImages ----------------------------
(***************************************************************************)
(* Samples of VM values, scripts and their transactions, and what is asked *)
(* of their bytes: a value is read back from them, and a script does what  *)
(* its builder was called for when the VM runs it.                         *)
(***************************************************************************)
EXTENDS VmScripts

Str(bytes)  == Obj("String", bytes)
Blob(bytes) == Obj("Bytes", bytes)
Wide  == <<PairLead + 3, Lead + 5>>                   \* a character of two bytes
Outer == <<PairLead, Lead + 1, Lead + 2>>             \* one of two units
Edges == <<0, 1, 10, 31, 32, 33, 63, 64, 65, 2047, 2048, 2049, 4095, 4096, 131071, 131072>>
Scalars == [i \in DOMAIN Edges |-> Num(Edges[i])] \o [i \in DOMAIN Edges |-> Num(-Edges[i])]
    \o <<Null, Obj("Bool", TRUE), Obj("Bool", FALSE), Str(<<>>), Str(<<Digit(4), Digit(2)>>), Str(<<Minus, Digit(7)>>), Str(<<1, 2>>),
         Str(Wide), Str(<<1>> \o Outer \o Wide), Str(<<Lead>>), Str(<<1, 0, 2>>), Blob(<<>>), Blob(<<0>>), Blob(<<7>>),
         Blob(<<1, 2, 40>>), Blob(<<1, 2, 3, 4>>), Blob(<<3, 1, 2, 3, 4>>), Blob(<<5, 1, 2, 3, 4, 5>>), Blob([i \in 1 .. 61 |-> i]),
         Obj("Timestamp", 0), Obj("Timestamp", 16777215), Obj("Enum", 0), Obj("Enum", 100), Obj("Enum", 5000), Obj("Enum", -1),
         AddressObj(<<1, 0, 3, 4, 63>>), AddressObj(<<0, 0, 0, 0, 0>>), HashObj(<<7, 8, 9>>)>>
KeySamples   == <<Num(0), Num(1), Num(2), Str(<<1>>), Blob(<<0>>)>>
Few == <<Num(5), Num(-1), Num(64), Num(69), Str(<<2>>), Null, HashObj(<<1, 2, 3>>), Obj("Enum", -1),
    Obj("Struct", <<<<Num(0), AddressObj(<<2, 0, 1, 1, 1>>)>>, <<Str(<<1>>), Obj("Struct", <<>>)>>>>)>>
StructOf(pairs) == Obj("Struct", [i \in DOMAIN pairs |-> <<KeySamples[pairs[i][1]], Few[pairs[i][2]]>>])

-----------------------------------------------------------------------------
(* Values.                                                                 *)

\* On the wire a hash is the bytes of one, and a text ends at its first zero.
RECURSIVE Carried(_)
Carried(o) ==
    CASE o.type = "String" -> Str(CText(o.data))
      [] o.type = "Object" /\ o.data.is = "Hash" -> Blob(WriteByteArray(o.data.bytes))
      [] o.type = "Struct" -> Obj("Struct", [i \in DOMAIN o.data |-> <<Carried(o.data[i][1]), Carried(o.data[i][2])>>])
      [] OTHER -> o

\* A value is read back, whatever follows it and never from a part of its bytes,
\* but one with a negative Enum, which raises or is written without it.
ReadsAs(o, length, bytes, back) ==
    IF Len(bytes) < length THEN ~Accepted(back)
    ELSE Accepted(back) /\ back.at = length + 1 /\ back.object = Carried(o)
ObjectIsRead(o, bytes) ==
    IF HasNegativeEnum(o) THEN Throws => bytes = <<>>
    ELSE \A given \in {bytes \o rest : rest \in {<<>>, <<0>>, <<63, 9>>}} \cup {SubSeq(bytes, 1, n) : n \in 0 .. Len(bytes) - 1} :
             ReadsAs(o, Len(bytes), given, DeserializeData(given, 1))

\* A script's LOAD of a value gives the VM that value, an address its bytes.
LoadedAs(value) == IF value.type = "Object" THEN Blob(WriteByteArray(value.data.bytes)) ELSE value
LoadIsExact(o) == o.type \notin {"None", "Struct"} => Same(SetValue(Payload(o), LoadType(o)), LoadedAs(o))

\* A cast loses nothing of a number, an address or a hash, nor of a text that was a
\* struct of its characters, but for what follows a zero.
CastIsExact(o, type, c) ==
    /\ c.type \in {type, o.type, "None"}
    /\ CASE o.type = "Number" /\ type = "Bytes"  -> FromSignedArray(c.data) = o.data
         [] o.type = "Number" /\ type = "String" -> AsNumber(c) = {o.data}
         [] o.type = "Number" /\ type = "Bool"   -> c.data = (o.data # 0)
         [] o.type = "Object" /\ type = "Bytes"  -> (IF o.data.is = "Hash" THEN AsHash(c) ELSE AsAddress(c)) = {o.data.bytes}
         [] o.type = "String" /\ type = "Struct" -> AsString(c) = {CText(o.data)}
         [] OTHER -> TRUE
\* The numbers that fit.
CastTypes(o) == ToSet(VMType) \ (IF o.type = "Bytes" /\ Len(o.data) > 5 THEN {"Number"} ELSE {})
CastsAreExact(o) ==
    /\ \A type \in CastTypes(o) : \A c \in CastTo(o, type) : CastIsExact(o, type, c)
    /\ o.type = "Object" /\ o.data.is = "Address" => AsAddress(LoadedAs(o)) = {o.data.bytes}

\* A struct is a map: the keys it has, each with what was put last under it; equal
\* structs are equal both ways when no key is there twice.
HasDouble(o) == \E i, j \in DOMAIN o.data : i < j /\ Same(o.data[i][1], o.data[j][1])
Permuted(o) == Obj("Struct", Reverse(o.data))
HasPut(o, k, v, after) ==
    /\ \A key \in DOMAIN KeySamples :
         Same(GetKey(after, KeySamples[key]), IF key = k THEN Few[v] ELSE GetKey(o, KeySamples[key]))
    /\ Len(after.data) <= Len(o.data) + 1
    /\ ~Same(after, SetKey(o, KeySamples[k], Few[v + 1]))
IsMap(o) ==
    /\ \A k \in DOMAIN KeySamples, v \in {1, 5} : HasPut(o, k, v, SetKey(o, KeySamples[k], Few[v]))
    /\ ~HasDouble(o) => \A x, y \in {o, Permuted(o)} : Same(x, y)

\* An array has the numbers from zero on as its keys and values of one type, but
\* that elements of type None before the first other one are not looked at.
TypesAt(o) == {o.data[i][2].type : i \in DOMAIN o.data}
IsArray(o) ==
    /\ \A n \in 0 .. Len(o.data) - 1 : \E i \in DOMAIN o.data : Same(o.data[i][1], Num(n))
    /\ \E type \in ToSet(VMType) : TypesAt(o) = {type}
IsArrayOf(o, type) == IF IsArray(o) THEN TypesAt(o) = {type} ELSE type = "None" \/ "None" \in TypesAt(o)

\* Of a value, or of one that bytes are read as (Refused if they are not).
ObjectIsExact(o) ==
    o.type # "Refused" =>
        /\ ObjectIsRead(o, SerializeData(o))
        /\ LoadIsExact(o) /\ CastsAreExact(o)
        /\ o.type = "Struct" => IsMap(o) /\ IsArrayOf(o, GetArrayType(o))

-----------------------------------------------------------------------------
(* Scripts: a call of the builder, and the instruction it asks for.        *)

Given(do, op, regs, data, label) == [do |-> do, op |-> op, regs |-> regs, data |-> data, label |-> label]
Long(n) == [i \in 1 .. n |-> 0]
BuilderCalls == <<
    Given("label", "NOP", <<>>, <<>>, "a"), Given("label", "NOP", <<>>, <<>>, "b"),
    Given("jump", "JMP", <<>>, <<>>, "a"), Given("jump", "JMPIF", <<3>>, <<>>, "b"), Given("jump", "RET", <<3>>, <<>>, "a"),
    Given("conditional", "JMPNOT", <<4>>, <<>>, "a"), Given("conditional", "JMP", <<4>>, <<>>, "b"),
    Given("call", "CALL", <<1>>, <<>>, "a"), Given("call", "CALL", <<32>>, <<>>, "b"), Given("call", "CALL", <<33>>, <<>>, "a"),
    Given("call", "CALL", <<0>>, <<>>, "b"),
    Given("args", "PUSH", <<2>>, <<>>, ""), Given("args", "ABS", <<1, 2>>, <<>>, ""), Given("args", "LT", <<1, 2, 3>>, <<>>, ""),
    Given("part", "LEFT", <<1, 2>>, 60, ""), Given("part", "RIGHT", <<1, 2>>, 61, ""), Given("part", "LEFT", <<1, 2>>, MaxLoad, ""),
    Given("part", "RIGHT", <<1, 2>>, MaxLoad + 1, ""), Given("part", "LEFT", <<1, 2>>, -1, ""),
    Given("load", "LOAD", <<7>>, <<1, 2>>, ""), Given("load", "LOAD", <<7>>, Long(61), ""), Given("load", "LOAD", <<7>>, Long(2037), ""),
    Given("load", "LOAD", <<7>>, Long(2040), ""), Given("load", "LOAD", <<7>>, Long(2041), ""), Given("load", "LOAD", <<7>>, Long(4085), ""),
    Given("load", "LOAD", <<7>>, Long(4088), ""), Given("load", "LOAD", <<7>>, Long(4089), ""),
    Given("load", "LOAD", <<7>>, Long(MaxLoad), ""), Given("load", "LOAD", <<7>>, Long(MaxLoad + 1), ""),
    Given("throw", "THROW", <<>>, <<>>, ""), Given("throw", "THROW", <<>>, <<5, 6>>, "")>>
FlowCalls == 1 .. 11
Loads == {i \in DOMAIN BuilderCalls : BuilderCalls[i].do = "load"}
Made(sb, call) ==
    CASE sb.raised -> sb
      [] call.do = "label" -> EmitLabel(sb, call.label)
      [] call.do = "jump"  -> EmitJump(sb, call.op, call.label, IF call.regs = <<>> THEN 0 ELSE call.regs[1])
      [] call.do = "conditional" -> EmitConditionalJump(sb, call.op, call.regs[1], call.label)
      [] call.do = "call"  -> EmitCall(sb, call.label, call.regs[1])
      [] call.do = "args"  -> EmitArgs(sb, call.op, call.regs)
      [] call.do = "part"  -> EmitPart(sb, call.op, call.regs[1], call.regs[2], call.data)
      [] call.do = "load"  -> EmitLoadBytes(sb, call.regs[1], call.data, "Bytes")
      [] call.do = "throw" -> EmitThrow(sb, call.data)
Built(calls) == FoldLeft(LAMBDA sb, i : Made(sb, BuilderCalls[i]), ScriptBuilder, calls)

\* What cannot be asked for; but for the length of a part, a NOP stands for it.
OutOfRange(call) ==
    \/ call.do = "jump" /\ call.op = "RET"
    \/ call.do = "conditional" /\ call.op = "JMP"
    \/ call.do = "call" /\ call.regs[1] \notin 1 .. 32
    \/ call.do = "part" /\ call.data \notin 0 .. 4095
    \/ call.do = "load" /\ Len(call.data) > 4095
Wanted(call) ==
    CASE OutOfRange(call) /\ call.do # "part" -> Given("nop", "NOP", <<>>, <<>>, "")
      [] call.do = "part" -> [call EXCEPT !.data = <<@>>]
      [] call.do = "load" -> [call EXCEPT !.regs = Append(@, TypeCode("Bytes"))]
      [] OTHER -> call
Jumps == {"JMP", "JMPIF", "JMPNOT", "CALL"}

\* How the VM reads an instruction: the registers, and then a length, bytes with
\* their length, or a target.
Registers(op) ==
    CASE op \in DOMAIN RegisterCount -> RegisterCount[op]
      [] op = "CAST" -> 3
      [] op \in {"LEFT", "RIGHT", "LOAD", "CTX"} -> 2
      [] op \in {"JMPIF", "JMPNOT", "CALL", "EXTCALL", "SWITCH"} -> 1
      [] OTHER -> 0
Operand(op, script, at) ==
    CASE op \in {"LEFT", "RIGHT"} -> LET n == ReadVarInt(script, at) IN Got(<<n.got>>, n.at)
      [] op \in {"LOAD", "THROW"} -> ReadByteArray(script, at)
      [] op \in Jumps -> Read(script, at, 2)
      [] OTHER -> Got(<<>>, at)
OpAt(script, at) == IF script[at] = 0 THEN "NOP" ELSE Opcode[script[at]]
Instruction(op, regs, operand) == [op |-> op, regs |-> regs.got, data |-> operand.got, next |-> operand.at]
InstructionAt(script, at, op) ==
    Instruction(op, Read(script, at + 1, Registers(op)), Operand(op, script, at + 1 + Registers(op)))
RECURSIVE Instructions(_, _)
Instructions(script, at) ==
    IF at > Len(script) THEN <<>>
    ELSE LET first == InstructionAt(script, at, OpAt(script, at))
         IN  <<first>> \o IF first.next = 0 THEN <<>> ELSE Instructions(script, first.next)

\* Every jump lands where its label was put last, behind its NOP.
LandsAt(wanted, read, i) ==
    LET put == {j \in DOMAIN wanted : wanted[j].do = "label" /\ wanted[j].label = wanted[i].label}
        last == CHOOSE j \in put : \A k \in put : k <= j
    IN  put # {} /\ Value(read[i].data) = read[last].next - 1
IsRead(wanted, read) ==
    /\ Len(read) = Len(wanted)
    /\ \A i \in DOMAIN read :
         /\ read[i].op = wanted[i].op /\ read[i].regs = wanted[i].regs
         /\ IF wanted[i].op \in Jumps THEN LandsAt(wanted, read, i) ELSE read[i].data = wanted[i].data

\* A script is refused for a call that raises, for a label that is nowhere or for
\* one too far, and for nothing else.
PlaceOf(calls, i) == Position(Built(SubSeq(calls, 1, i)))
LastPut(calls, label) == SelectLastInSeq(calls, LAMBDA c : BuilderCalls[c].do = "label" /\ BuilderCalls[c].label = label)
Unresolved(calls, call) ==
    /\ call.op \in Jumps /\ ~OutOfRange(call)
    /\ \/ LastPut(calls, call.label) = 0
       \/ PlaceOf(calls, LastPut(calls, call.label)) > (IF call.op = "CALL" THEN 4095 ELSE 2047)
MustRefuse(calls) ==
    \E i \in DOMAIN calls : LET call == BuilderCalls[calls[i]] IN (Throws /\ OutOfRange(call)) \/ Unresolved(calls, call)
Malformed(calls) == \E i \in DOMAIN calls : BuilderCalls[calls[i]].do = "part" /\ BuilderCalls[calls[i]].data = -1
Ret == Given("ret", "RET", <<>>, <<>>, "")
ScriptIsExact(calls, script) ==
    /\ script = <<>> <=> MustRefuse(calls)
    /\ script # <<>> /\ ~Malformed(calls)
         => IsRead([i \in DOMAIN calls |-> Wanted(BuilderCalls[calls[i]])] \o <<Ret>>, Instructions(script, 1))

-----------------------------------------------------------------------------
(* Calls: what the VM has on its stack when it makes one. The VM is the    *)
(* chain's: registers, a stack with its top first, and the calls made.     *)

Vm == [regs |-> [r \in 0 .. 9 |-> Null], stack |-> <<>>, made |-> <<>>]
Answer == Str(<<50>>)
Stepped(vm, step) ==
    LET r == step.regs IN
    CASE step.op = "LOAD" -> [vm EXCEPT !.regs[r[1]] = SetValue(step.data, VMType[r[2]])]
      [] step.op = "PUSH" -> [vm EXCEPT !.stack = <<vm.regs[r[1]]>> \o @]
      [] step.op = "POP"  -> [vm EXCEPT !.regs[r[1]] = Head(vm.stack), !.stack = Tail(@)]
      [] step.op = "CAST" -> [vm EXCEPT !.regs[r[2]] = Null]
      [] step.op = "PUT"  -> [vm EXCEPT !.regs[r[2]] = SetKey(@, vm.regs[r[3]], vm.regs[r[1]])]
      [] step.op = "CTX"  -> [vm EXCEPT !.regs[r[2]] = vm.regs[r[1]]]
      [] step.op = "EXTCALL" -> [vm EXCEPT !.made = Append(@, vm.stack \o <<vm.regs[r[1]]>>), !.stack = <<Answer>>]
      [] step.op = "SWITCH"  -> [vm EXCEPT !.made = Append(@, vm.stack \o <<vm.regs[r[1]]>>), !.stack = <<>>]
      [] step.op = "RET" -> vm
Ran(vm, script) == FoldLeft(Stepped, vm, Instructions(script, 1))

RECURSIVE OnStack(_)
OnStack(arg) ==
    IF arg.type # "Array" THEN LoadedAs(arg)
    ELSE IF arg.data = <<>> THEN Null
    ELSE Obj("Struct", [i \in DOMAIN arg.data |-> <<Num(i - 1), OnStack(arg.data[i])>>])
SameStack(got, want) == Len(got) = Len(want) /\ \A i \in DOMAIN got : Same(got[i], want[i])

ListOf(values) == Obj("Array", values)
ArgSamples == <<Num(-33), Num(4096), Str(<<9>>), Obj("Bool", TRUE), Blob(<<8, 8>>), Obj("Timestamp", 77), Obj("Enum", -1), AddressObj(<<1, 0, 6, 6, 6>>),
    ListOf(<<>>), ListOf(<<Str(<<1>>), Str(<<2>>)>>), ListOf(<<ListOf(<<Num(1), Num(2)>>), ListOf(<<>>), ListOf(<<Num(3)>>)>>)>>
Method(contract, method, args) == [contract |-> contract, method |-> method, args |-> args]

Parameters == {"from", "to", "symbol", "amount", "tokenId", "gasPrice", "gasLimit", "ram"}
GivenParameters == [p \in Parameters |-> CASE p = "from" -> AddressObj(<<1, 0, 1, 1, 1>>) [] p = "to" -> AddressObj(<<1, 0, 2, 2, 2>>)
    [] p = "symbol" -> Str(<<30>>) [] p = "amount" -> Num(64) [] p = "tokenId" -> Num(-1) [] p = "gasPrice" -> Num(7)
    [] p = "gasLimit" -> Num(2048) [] p = "ram" -> Blob(<<4>>)]

\* A call finds its arguments on the stack in order, under the name of a contract's
\* method; a token's RAM goes into the register asked for, and from any register.
InPlace(helper, given) == [i \in DOMAIN helper.args |-> OnStack(given[helper.args[i]])]
Wants(helper, given) ==
    IF helper.contract = "" THEN Append(InPlace(helper, given), Name(helper.method))
    ELSE <<Name(helper.method)>> \o InPlace(helper, given) \o <<Name(helper.contract)>>
Requested(way, helper, given, reg) ==
    CASE way = "call"  -> CallHelper(ScriptBuilder, helper, given)
      [] way = "read"  -> ReadTokenRAMToRegister(ScriptBuilder, given, reg)
      [] way = "write" -> WriteTokenFromRegister(ScriptBuilder, given, reg)
CallIsMade(way, wants, reg, vm) ==
    /\ Len(vm.made) = 1 /\ SameStack(vm.made[1], wants)
    /\ way = "read" => vm.regs[reg] = Answer /\ vm.stack = <<>>
Holding(reg, ram) == [Vm EXCEPT !.regs[reg] = ram]
CallIsExact(way, helper, given, reg) ==
    CallIsMade(way, Wants(helper, given), reg,
               Ran(IF way = "write" THEN Holding(reg, given["ram"]) ELSE Vm, EndScript(Requested(way, helper, given, reg))))
ReadsRam == Method("", "Runtime.ReadTokenRAM", <<"symbol", "tokenId">>)

-----------------------------------------------------------------------------
(* Transactions.                                                           *)

TxOf(script, payload, signatures) ==
    [nexusName |-> <<1>>, chainName |-> <<>>, script |-> script, expiration |-> 300, payload |-> payload, signatures |-> signatures]
SignatureOf(n) == [kind |-> Ed25519, bytes |-> <<n, 0, 0, 9>>]
\* A transaction reads as it was written, and one without its signatures as unsigned;
\* the nonce goes behind the payload, and a signed one is not mined. Cut inside its
\* signatures it keeps what was hashed and reads as unsigned, with an error in the
\* caller's reader but where fewer bytes are left than signatures are announced. Where
\* nothing is raised, though, it reads as one with all that are announced: those in the
\* bytes as written, what there is of the next, and none for the others; then nothing
\* but the error in the reader tells, which one who passed the bytes does not see.
SignatureSize == SignatureLength + 2
StartOf(signature, n) ==
    CASE n <= 0 -> NoSignature
      [] n > 0 -> [signature EXCEPT !.bytes = [i \in 1 .. SignatureLength |-> IF i + 2 <= n THEN @[i] ELSE 0]]
CutSignatures(tx, left) ==
    [i \in DOMAIN tx.signatures |-> StartOf(tx.signatures[i], left - (i - 1) * SignatureSize)]
AsAnnounced(tx, left) == ~Throws /\ left >= Len(tx.signatures)
CutIsExact(tx, hashed, n, back) ==
    LET left == n - Len(hashed) - 1
    IN  IF n < Len(hashed) THEN back = Failed
        ELSE /\ back.got = [tx EXCEPT !.signatures = IF AsAnnounced(tx, left) THEN CutSignatures(tx, left) ELSE <<>>]
             /\ back.at # 0 <=> left >= 0 /\ left < Len(tx.signatures)
MinedIsExact(tx, difficulty, mined) ==
    /\ tx.signatures # <<>> \/ difficulty \notin 0 .. 256 => mined = Failed
    /\ mined # Failed => /\ IsPrefix(tx.payload, mined.got.payload)
                         /\ Unserialize(ToByteArray(mined.got, TRUE)).got = mined.got
                         /\ difficulty = 0 => mined.got = tx
TransactionIsExact(tx, bytes, hashed) ==
    /\ Unserialize(bytes) = Got(tx, Len(bytes) + 1)
    /\ Unserialize(hashed).got = [tx EXCEPT !.signatures = <<>>]
    /\ \A n \in 0 .. Len(bytes) - 1 : CutIsExact(tx, hashed, n, Unserialize(SubSeq(bytes, 1, n)))
    /\ \A count \in {<<61, 63, 63>>, <<63, 63, 63, 63, 63, 63, 63, 63, 63>>, <<40>>} :
         Unserialize(hashed \o count \o <<1, 2>>).got.signatures = <<>>
    /\ \A difficulty \in {-1, 0, 1, 257}, nonce \in {0, 1, 65} : MinedIsExact(tx, difficulty, Mine(tx, difficulty, nonce))
Signed(tx, n) == FoldLeft(LAMBDA t, k : Sign(t, SignatureOf(k)), tx, [k \in 1 .. n |-> k])
SampleIsExact(tx) == TransactionIsExact(tx, ToByteArray(tx, TRUE), Hashed(tx))
TransactionsAreExact(script) ==
    \A payload \in {<<>>, <<3, 3>>}, n \in 0 .. 2 : SampleIsExact(Signed(TxOf(script, payload, <<>>), n))
=============================================================================

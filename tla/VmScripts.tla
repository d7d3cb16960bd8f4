----------------------------- MODULE VmScripts -----------------------------
(***************************************************************************)
(* The builder of VM scripts (include/VM/ScriptBuilder.h) and the          *)
(* transactions that carry them (Blockchain/Transaction.h).                *)
(*                                                                         *)
(* A position is a number of bytes from the start. A name is one byte.     *)
(* With Throws a refused call raises and the script is never made; without *)
(* a NOP stands in its place, but where the code goes on.                  *)
(***************************************************************************)
EXTENDS VmObjects, TLC

Opcode == <<"MOVE", "COPY", "PUSH", "POP", "SWAP", "CALL", "EXTCALL", "JMP", "JMPIF", "JMPNOT", "RET", "THROW",
    "LOAD", "CAST", "CAT", "SUBSTR", "LEFT", "RIGHT", "SIZE", "COUNT", "NOT", "AND", "OR", "XOR", "EQUAL", "LT", "GT",
    "LTE", "GTE", "INC", "DEC", "SIGN", "NEGATE", "ABS", "ADD", "SUB", "MUL", "DIV", "MOD", "SHL", "SHR", "MIN", "MAX",
    "POW", "CTX", "SWITCH", "PUT", "GET", "CLEAR", "UNPACK", "PACK", "DEBUG">>
OpcodeByte(op) == IF op = "NOP" THEN 0 ELSE CHOOSE i \in DOMAIN Opcode : Opcode[i] = op

MaxRegisterCount == 32
MaxLoad       == ByteValues ^ 2 - 1
MaxJumpTarget == ByteValues ^ 2 \div 2 - 1
MaxCallTarget == ByteValues ^ 2 - 1

ScriptBuilder == [bytes |-> <<>>, jumpLocations |-> <<>>, labelLocations |-> <<>>, callOffsets |-> {}, raised |-> FALSE]

Position(sb) == Len(sb.bytes)
Emit(sb, op, bytes) == [sb EXCEPT !.bytes = @ \o <<OpcodeByte(op)>> \o bytes]
Refuse(sb) == IF Throws THEN [sb EXCEPT !.raised = TRUE] ELSE Emit(sb, "NOP", <<>>)

\* The calls that write registers alone, and how many.
RegisterCount == [op \in {"PUSH", "POP", "INC", "DEC"} |-> 1]
    @@ [op \in {"MOVE", "COPY", "SIZE", "COUNT", "NOT", "SIGN", "NEGATE", "ABS"} |-> 2]
    @@ [op \in {"CAT", "AND", "OR", "XOR", "EQUAL", "LT", "LTE", "GT", "GTE", "PUT"} |-> 3]
EmitArgs(sb, op, regs) == Emit(sb, op, SubSeq(regs, 1, RegisterCount[op]))
EmitCast(sb, src_reg, dst_reg, type) == Emit(sb, "CAST", <<src_reg, dst_reg, TypeCode(type)>>)

-----------------------------------------------------------------------------
(* Values in registers.                                                    *)

EmitLoadBytes(sb, reg, bytes, type) ==
    IF Len(bytes) > MaxLoad THEN Refuse(sb)
    ELSE Emit(sb, "LOAD", <<reg, TypeCode(type)>> \o WriteByteArray(bytes))

ToCsharpBytes(n) ==
    LET bytes == ToUnsignedByteArray(IF n < 0 THEN -n ELSE n)
    IN  CASE n = 0 -> <<0>>
          [] n > 0 -> Guarded(bytes, 0, IsHigh(bytes))
          [] n < 0 -> Guarded(Complement(bytes), ByteValues - 1, ~IsHigh(Complement(bytes)))

\* The overloads of EmitLoad; an address is what it serializes to.
Payload(value) ==
    CASE value.type \in {"Bytes", "String"} -> value.data
      [] value.type = "Number" -> ToCsharpBytes(value.data)
      [] value.type = "Bool"   -> <<IF value.data THEN 1 ELSE 0>>
      [] value.type \in {"Enum", "Timestamp"} -> Little(value.data % UInt32Values, 4)
      [] value.type = "Object" -> WriteByteArray(value.data.bytes)
LoadType(value) == IF value.type = "Object" THEN "Bytes" ELSE value.type
EmitLoad(sb, reg, value) == EmitLoadBytes(sb, reg, Payload(value), LoadType(value))

\* An array is put together with the two registers after its own.
RECURSIVE LoadIntoReg(_, _, _), LoadElements(_, _, _, _)
LoadElement(sb, reg, element, j) ==
    EmitArgs(EmitLoad(LoadIntoReg(sb, reg + 1, element), reg + 2, Num(j)), "PUT", <<reg + 1, reg, reg + 2>>)
LoadElements(sb, reg, elements, j) ==
    IF j = Len(elements) THEN sb ELSE LoadElements(LoadElement(sb, reg, elements[j + 1], j), reg, elements, j + 1)
LoadIntoReg(sb, reg, arg) ==
    IF arg.type = "Array" THEN LoadElements(EmitCast(sb, reg, reg, "None"), reg, arg.data, 0)
    ELSE EmitLoad(sb, reg, arg)

-----------------------------------------------------------------------------
(* Flow.                                                                   *)

EmitLabel(sb, label) ==
    LET nop == Emit(sb, "NOP", <<>>) IN [nop EXCEPT !.labelLocations = (label :> Position(nop)) @@ @]
Reserved(sb, label) ==
    [sb EXCEPT !.bytes = @ \o <<0, 0>>, !.jumpLocations = (Position(sb) :> label) @@ @]
EmitJump(sb, op, label, reg) ==
    CASE op = "JMP" -> Reserved(Emit(sb, op, <<>>), label)
      [] op \in {"JMPIF", "JMPNOT"} -> Reserved(Emit(sb, op, <<reg>>), label)
      [] OTHER -> Refuse(sb)
EmitConditionalJump(sb, op, reg, label) ==
    IF op \in {"JMPIF", "JMPNOT"} THEN Reserved(Emit(sb, op, <<reg>>), label) ELSE Refuse(sb)
EmitCall(sb, label, regCount) ==
    LET call == Emit(sb, "CALL", <<regCount>>)
    IN  IF regCount \notin 1 .. MaxRegisterCount THEN Refuse(sb)
        ELSE [Reserved(call, label) EXCEPT !.callOffsets = @ \cup {Position(call)}]

\* EmitLeft, EmitRight: without exceptions any length is written.
EmitPart(sb, op, src_reg, dest_reg, length) ==
    IF Throws /\ length \notin 0 .. MaxLoad THEN Refuse(sb)
    ELSE Emit(sb, op, <<src_reg, dest_reg>> \o WriteVarInt(length))
EmitThrow(sb, data) == Emit(sb, "THROW", WriteByteArray(data))

\* ToScript: none if a label is unknown or too far.
LimitAt(sb, ofs) == IF ofs \in sb.callOffsets THEN MaxCallTarget ELSE MaxJumpTarget
Resolves(sb, ofs) ==
    LET label == sb.jumpLocations[ofs] IN label \in DOMAIN sb.labelLocations /\ sb.labelLocations[label] <= LimitAt(sb, ofs)
LabelBytes(sb, ofs) == Little(sb.labelLocations[sb.jumpLocations[ofs]], 2)
ToScript(sb) ==
    IF sb.raised \/ \E ofs \in DOMAIN sb.jumpLocations : ~Resolves(sb, ofs) THEN <<>>
    ELSE [i \in DOMAIN sb.bytes |->
             CASE i - 1 \in DOMAIN sb.jumpLocations -> LabelBytes(sb, i - 1)[1]
               [] i - 2 \in DOMAIN sb.jumpLocations -> LabelBytes(sb, i - 2)[2]
               [] OTHER -> sb.bytes[i]]
EndScript(sb) == ToScript(Emit(sb, "RET", <<>>))

-----------------------------------------------------------------------------
(* Calls of contracts: the arguments are pushed last to first.             *)

Names == <<"gas", "stake", "AllowGas", "SpendGas", "Stake", "Runtime.MintTokens", "Runtime.BurnTokens", "Runtime.BurnToken",
    "Runtime.TransferTokens", "Runtime.TransferBalance", "Runtime.TransferToken", "Runtime.ReadTokenRAM", "Runtime.WriteToken">>
Name(name) == Obj("String", <<CHOOSE i \in DOMAIN Names : Names[i] = name>>)

EmitPush(sb, reg) == EmitArgs(sb, "PUSH", <<reg>>)
PushArg(sb, arg) == EmitPush(LoadIntoReg(sb, 0, arg), 0)
InsertMethodArgs(sb, args) == FoldLeft(PushArg, sb, Reverse(args))
EmitExtCall(sb, method) == Emit(EmitLoad(sb, 0, Name(method)), "EXTCALL", <<0>>)
CallInterop(sb, method, args) == EmitExtCall(InsertMethodArgs(sb, args), method)
CallContract(sb, contractName, method, args) ==
    LET called == PushArg(InsertMethodArgs(sb, args), Name(method))
    IN  Emit(Emit(EmitLoad(called, 0, Name(contractName)), "CTX", <<0, 1>>), "SWITCH", <<1>>)

\* The calls the builder knows by name, and their arguments in order.
Helpers == <<
    [contract |-> "gas", method |-> "AllowGas", args |-> <<"from", "to", "gasPrice", "gasLimit">>],
    [contract |-> "gas", method |-> "SpendGas", args |-> <<"from">>],
    [contract |-> "stake", method |-> "Stake", args |-> <<"from", "amount">>],
    [contract |-> "", method |-> "Runtime.MintTokens", args |-> <<"from", "to", "symbol", "amount">>],
    [contract |-> "", method |-> "Runtime.BurnTokens", args |-> <<"from", "symbol", "amount">>],
    [contract |-> "", method |-> "Runtime.BurnToken", args |-> <<"from", "symbol", "tokenId">>],
    [contract |-> "", method |-> "Runtime.TransferTokens", args |-> <<"from", "to", "symbol", "amount">>],
    [contract |-> "", method |-> "Runtime.TransferBalance", args |-> <<"from", "to", "symbol">>],
    [contract |-> "", method |-> "Runtime.TransferToken", args |-> <<"from", "to", "symbol", "tokenId">>],
    [contract |-> "", method |-> "Runtime.WriteToken", args |-> <<"from", "symbol", "tokenId", "ram">>]>>
CallHelper(sb, helper, given) ==
    LET args == [i \in DOMAIN helper.args |-> given[helper.args[i]]]
    IN  IF helper.contract = "" THEN CallInterop(sb, helper.method, args)
        ELSE CallContract(sb, helper.contract, helper.method, args)
ReadTokenRAMToRegister(sb, given, dst_reg) ==
    EmitArgs(CallInterop(sb, "Runtime.ReadTokenRAM", <<given["symbol"], given["tokenId"]>>), "POP", <<dst_reg>>)
WriteTokenFromRegister(sb, given, src_reg) ==
    EmitExtCall(InsertMethodArgs(EmitPush(sb, src_reg), <<given["from"], given["symbol"], given["tokenId"]>>), "Runtime.WriteToken")

-----------------------------------------------------------------------------
(* Transactions: what is hashed is the bytes before the signatures.        *)

SignatureLength == 4
Ed25519 == 1
Hashed(tx) == WriteByteArray(tx.nexusName) \o WriteByteArray(tx.chainName) \o WriteByteArray(tx.script)
    \o Little(tx.expiration, 4) \o WriteByteArray(tx.payload)
WriteSignature(signature) == <<signature.kind>> \o IF signature.kind = Ed25519 THEN WriteByteArray(signature.bytes) ELSE <<>>
ToByteArray(tx, withSignature) ==
    Hashed(tx) \o IF withSignature
                  THEN WriteVarInt(Len(tx.signatures)) \o FlattenSeq([i \in DOMAIN tx.signatures |-> WriteSignature(tx.signatures[i])])
                  ELSE <<>>

\* A signature of another kind is none; a short one ends in zeros.
NoSignature == [kind |-> 0, bytes |-> <<>>]
SignatureRead(kind, bytes) ==
    CASE kind.at = 0 -> Failed
      [] kind.at # 0 /\ kind.got = <<Ed25519>> ->
           (IF bytes.at = 0 THEN Failed ELSE Got([kind |-> Ed25519, bytes |-> bytes.got], bytes.at))
      [] OTHER -> Got(NoSignature, kind.at)
ReadSignature(bytes, at) ==
    LET kind == Read(bytes, at, 1) IN SignatureRead(kind, ReadBuffer(bytes, kind.at, SignatureLength))
\* Where nothing is raised reading goes on after an error: what the bytes have of
\* the signature and zeros for the rest, then the next one, each of those that no
\* byte is left for as none. (A header that is not there is never set, but then no
\* byte is left either.)
BytesAfter(bytes, length) ==
    IF length.at = 0 THEN <<>>
    ELSE SubSeq(bytes, length.at, Min({length.at + Min({length.got, SignatureLength}) - 1, Len(bytes)}))
PartFrom(bytes, length, part) ==
    Got([kind |-> Ed25519, bytes |-> part \o [i \in 1 .. SignatureLength - Len(part) |-> 0]],
        IF length.at = 0 THEN Len(bytes) + 1 ELSE length.at + Len(part))
PartAfter(bytes, length) == PartFrom(bytes, length, BytesAfter(bytes, length))
PartOf(bytes, at) ==
    IF at <= Len(bytes) /\ bytes[at] = Ed25519 THEN PartAfter(bytes, ReadVarInt(bytes, at + 1))
    ELSE Got(NoSignature, Min({at, Len(bytes)}) + 1)
RECURSIVE PartsOf(_, _, _), ReadSignatures(_, _, _)
PartsFrom(bytes, part, count) == <<part.got>> \o PartsOf(bytes, part.at, count - 1)
PartsOf(bytes, at, count) == IF count = 0 THEN <<>> ELSE PartsFrom(bytes, PartOf(bytes, at), count)

\* One that cannot be read clears the list when it raises.
SignaturesAfter(signature, rest) == Got(<<signature.got>> \o rest.got, rest.at)
SignaturesFrom(bytes, at, signature, count) ==
    IF signature.at = 0 THEN Got(PartsOf(bytes, at, count), 0)
    ELSE SignaturesAfter(signature, ReadSignatures(bytes, signature.at, count - 1))
ReadSignatures(bytes, at, count) ==
    IF count = 0 THEN Got(<<>>, at) ELSE SignaturesFrom(bytes, at, ReadSignature(bytes, at), count)
Kept(signatures) == IF Throws /\ signatures.at = 0 THEN Failed ELSE signatures
SignaturesRead(bytes, count) ==
    IF count.at = 0 \/ count.got < 0 \/ count.got > Len(bytes) - count.at + 1 THEN Got(<<>>, count.at)
    ELSE Kept(ReadSignatures(bytes, count.at, count.got))

\* UnserializeData, of bytes that are whole before the signatures.
ReadField(field, bytes, at) ==
    CASE field \in {"nexusName", "chainName"} -> ReadVarString(bytes, at)
      [] field \in {"script", "payload"}      -> ReadByteArray(bytes, at)
      [] field = "expiration"                 -> Read(bytes, at, 4)
FieldAfter(fields, read) == IF read.at = 0 THEN Failed ELSE Got(Append(fields.got, read.got), read.at)
ReadNext(bytes, fields, field) == FieldAfter(fields, ReadField(field, bytes, fields.at))
ReadFields(bytes) ==
    FoldLeft(LAMBDA fields, field : ReadNext(bytes, fields, field), Got(<<>>, 1), <<"nexusName", "chainName", "script", "expiration", "payload">>)
Transaction(fields, signatures) ==
    Got([nexusName |-> fields[1], chainName |-> fields[2], script |-> fields[3], expiration |-> Value(fields[4]),
         payload |-> fields[5], signatures |-> signatures.got], signatures.at)
TransactionFrom(bytes, fields) ==
    IF fields.at = 0 THEN Failed ELSE Transaction(fields.got, SignaturesRead(bytes, ReadVarInt(bytes, fields.at)))
\* Unserialize(reader): the transaction, and the place or the error that stays in the
\* caller's reader. The overload that takes the bytes answers no more than .got of it:
\* it makes the reader itself, of a template parameter (BinaryReader has no constructor
\* that takes what it passes, so it is one of the caller's own).
Unserialize(bytes) == TransactionFrom(bytes, ReadFields(bytes))

Sign(tx, signature) == [tx EXCEPT !.signatures = Append(@, signature)]
\* Mine: nonce is the last one tried, 0 if the hash was good enough.
NonceRoom(payload) == IF payload = <<>> THEN <<>> ELSE Append(payload, 0)
Mine(tx, targetDifficulty, nonce) ==
    CASE targetDifficulty \notin 0 .. 256 \/ tx.signatures # <<>> -> Failed
      [] targetDifficulty = 0 -> Got(tx, 1)
      [] OTHER -> Got(IF nonce = 0 THEN tx ELSE [tx EXCEPT !.payload = NonceRoom(@) \o Little(nonce, 4)], 1)
=============================================================================

----------------------------- MODULE MCJsonRpc -----------------------------
(***************************************************************************)
(* Instances of JsonRpc for TLC.  The threads are interchangeable.         *)
(***************************************************************************)
EXTENDS JsonRpc, TLC

CONSTANTS t1, t2
TwoThreads == {t1, t2}
ThreadSymmetry == Permutations(TwoThreads)

ServerCodes == {RpcMessage}
CodesWithZero == {RpcMessage, 0}

============================================================================

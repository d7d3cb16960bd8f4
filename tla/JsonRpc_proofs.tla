--------------------------- MODULE JsonRpc_proofs ---------------------------
(***************************************************************************)
(* Proofs about JsonRpc, for any number of threads, requests, addresses   *)
(* and entries left behind that the tracking cap has room for.             *)
(***************************************************************************)
EXTENDS JsonRpc, FiniteSetTheorems, TLAPS

\* The cap leaves room for the entries left behind and for one per thread: the
\* 4096 of the default cap, less the threads, is how many calls may have raised
\* past their UseRequestId.  With less room a live entry can be erased.
FewLeaks == Cap = 0 \/ MaxLeaks + Cardinality(Threads) <= Cap

\* What is left behind is finite.
LEMMA LeakedIsFinite ==
    ASSUME TypeOK
    PROVE  /\ IsFiniteSet(DOMAIN requestIdsByBuilder)
           /\ IsFiniteSet(Leaked) /\ Cardinality(Leaked) \in Nat
<1>1. IsFiniteSet(DOMAIN requestIdsByBuilder)
      BY BuildersAssumption, FS_Subset DEF TypeOK
<1>2. Leaked \subseteq DOMAIN requestIdsByBuilder
      BY DEF Leaked
<1> QED BY <1>1, <1>2, FS_Subset, FS_CardinalityType

LEMMA NothingMoreIsLeft ==
    ASSUME TypeOK, LeakedFew, Leaked' \subseteq Leaked
    PROVE  LeakedFew'
<1>1. IsFiniteSet(Leaked) /\ Cardinality(Leaked) \in Nat
      BY LeakedIsFinite
<1>2. Cardinality(Leaked') <= Cardinality(Leaked) /\ IsFiniteSet(Leaked')
      BY <1>1, FS_Subset
<1>3. Cardinality(Leaked') \in Nat
      BY <1>2, FS_CardinalityType
<1>4. Cardinality(Leaked) <= MaxLeaks
      BY DEF LeakedFew
<1>5. Cardinality(Leaked') <= MaxLeaks
      BY <1>1, <1>2, <1>3, <1>4, LeaksAssumption
<1> QED BY <1>5 DEF LeakedFew

\* Each waiting call owns one entry: while t is not one of them, the owned
\* addresses are fewer than the threads.
LEMMA OwnedAreFew ==
    ASSUME NEW t \in Threads, t \notin Waiting
    PROVE  LET owned == {call[u].builder : u \in Waiting}
           IN  /\ IsFiniteSet(owned) /\ Cardinality(owned) \in Nat
               /\ Cardinality(owned) <= Cardinality(Threads) - 1
<1> DEFINE owned == {call[u].builder : u \in Waiting}
           f     == [u \in Waiting |-> call[u].builder]
<1>1. /\ IsFiniteSet(Threads \ {t}) /\ Cardinality(Threads \ {t}) = Cardinality(Threads) - 1
      /\ Cardinality(Threads) \in Nat /\ Cardinality(Threads \ {t}) \in Nat
      BY ThreadsAssumption, FS_RemoveElement, FS_CardinalityType
<1>2. Waiting \subseteq Threads \ {t}
      BY DEF Waiting
<1>3. IsFiniteSet(Waiting) /\ Cardinality(Waiting) <= Cardinality(Threads) - 1
      /\ Cardinality(Waiting) \in Nat
      BY <1>1, <1>2, FS_Subset, FS_CardinalityType
<1>4. f \in Surjection(Waiting, owned)
      BY DEF Surjection
<1> HIDE DEF f
<1>5. IsFiniteSet(owned) /\ Cardinality(owned) <= Cardinality(Waiting)
      BY <1>3, <1>4, FS_Surjection
<1>6. Cardinality(owned) \in Nat
      BY <1>5, FS_CardinalityType
<1> QED BY <1>1, <1>3, <1>5, <1>6

\* With that room StoreJsonRpcRequestId erases nothing.
LEMMA NothingIsErased ==
    ASSUME FewLeaks, TypeOK, LeakedFew, NEW t \in Threads, t \notin Waiting
    PROVE  Kept(DOMAIN requestIdsByBuilder) = DOMAIN requestIdsByBuilder
<1> DEFINE tracked == DOMAIN requestIdsByBuilder
           owned   == {call[u].builder : u \in Waiting}
<1> SUFFICES ASSUME Cap # 0, NEW b \in tracked
             PROVE  Cardinality({c \in tracked : c > b}) < Cap - 1
    BY DEF Kept
<1> DEFINE above == {c \in tracked : c > b}
<1>1. IsFiniteSet(tracked) /\ IsFiniteSet(Leaked) /\ Cardinality(Leaked) \in Nat
      BY LeakedIsFinite
<1>2. /\ IsFiniteSet(owned) /\ Cardinality(owned) \in Nat
      /\ Cardinality(owned) <= Cardinality(Threads) - 1
      BY OwnedAreFew
<1>3. tracked \subseteq Leaked \union owned
      BY DEF Leaked
<1>4. above \subseteq tracked \ {b}
  <2> SUFFICES ASSUME NEW c \in tracked, c > b PROVE c # b
      OBVIOUS
  <2>1. b \in Nat /\ c \in Nat
        BY BuildersAssumption DEF TypeOK
  <2> QED BY <2>1
<1> HIDE DEF tracked, owned, above
<1>5. /\ IsFiniteSet(Leaked \union owned)
      /\ Cardinality(Leaked \union owned) <= Cardinality(Leaked) + Cardinality(owned)
      /\ Cardinality(Leaked \union owned) \in Nat
  <2>1. IsFiniteSet(Leaked \cap owned)
        BY <1>1, FS_Subset
  <2>2. Cardinality(Leaked \cap owned) \in Nat
        BY <2>1, FS_CardinalityType
  <2>3. /\ IsFiniteSet(Leaked \union owned)
        /\ Cardinality(Leaked \union owned)
             = Cardinality(Leaked) + Cardinality(owned) - Cardinality(Leaked \cap owned)
        BY <1>1, <1>2, FS_Union
  <2>4. Cardinality(Leaked \union owned) \in Nat
        BY <2>3, FS_CardinalityType
  <2> QED BY <1>1, <1>2, <2>2, <2>3, <2>4
<1>6. Cardinality(tracked) <= Cardinality(Leaked \union owned) /\ Cardinality(tracked) \in Nat
      BY <1>1, <1>3, <1>5, FS_Subset, FS_CardinalityType
<1>7. /\ IsFiniteSet(tracked \ {b}) /\ Cardinality(tracked \ {b}) = Cardinality(tracked) - 1
      /\ Cardinality(tracked \ {b}) \in Nat
      BY <1>1, FS_RemoveElement, FS_CardinalityType
<1>8. Cardinality(above) <= Cardinality(tracked \ {b}) /\ Cardinality(above) \in Nat
      BY <1>4, <1>7, FS_Subset, FS_CardinalityType
<1>9. Cardinality(Leaked) <= MaxLeaks /\ MaxLeaks + Cardinality(Threads) <= Cap
      BY DEF LeakedFew, FewLeaks
<1>10. Cardinality(Threads) \in Nat
      BY ThreadsAssumption, FS_CardinalityType
<1>11. Cardinality(above) < Cap - 1
      BY <1>1, <1>2, <1>5, <1>6, <1>7, <1>8, <1>9, <1>10, LeaksAssumption, CapAssumption
<1> QED BY <1>11 DEF above

LEMMA IdsInit == Init => IdsInv
<1> SUFFICES ASSUME Init PROVE IdsInv
    OBVIOUS
<1>1. Idle \in CallType
      BY MaxIdAssumption DEF CallType, Idle, NoBody, Ids, Methods
<1>2. TypeOK
      BY <1>1, MaxIdAssumption DEF Init, TypeOK, Ids
<1>3. \A t \in Threads : call[t].pc = "idle"
      BY DEF Init, Idle
<1>4. LeakedFew
  <2>1. Leaked = {}
        BY DEF Init, Leaked
  <2> QED BY <2>1, FS_EmptySet, LeaksAssumption DEF LeakedFew
<1> QED BY <1>2, <1>3, <1>4
        DEF IdsInv, Live, LiveIsTracked, LiveBuildersAreBuilders, LiveBuildersDiffer,
            ExpectedIsMine, AcceptedIsMine, Succeeded, FailuresAreCoded

\* One lemma per step of a call.
LEMMA NextRequestIdStep ==
    ASSUME IdsInv, NEW t \in Threads, NEW b \in Builders, NEW method \in Methods,
           NextRequestId(t, b, method)
    PROVE  IdsInv'
<1>1. UNCHANGED <<requestIdsByBuilder, expectedRequestId>>
      /\ nextRequestId \in Ids /\ nextRequestId' \in Ids
      BY MaxIdAssumption DEF NextRequestId, IdsInv, TypeOK, Ids, Increment
<1> DEFINE c == [pc |-> "numbered", builder |-> b, id |-> nextRequestId,
                 method |-> method, response |-> NoBody, code |-> 0]
<1>2. call' = [call EXCEPT ![t] = c]
      BY DEF NextRequestId
<1>3. c.pc = "numbered" /\ c.builder = b /\ c \in CallType
  <2>1. 0 \in Ids /\ b \in Nat
        BY BuildersAssumption, MaxIdAssumption DEF Ids
  <2>2. NoBody \in [id : Ids, kind : {"none", "result", "error"}, code : Int]
        BY <2>1 DEF NoBody
  <2> QED BY <1>1, <2>1, <2>2 DEF CallType
<1> HIDE DEF c
<1>4. TypeOK'
      BY <1>1, <1>2, <1>3 DEF IdsInv, TypeOK
<1>5. LiveIsTracked' /\ ExpectedIsMine' /\ AcceptedIsMine' /\ LiveBuildersAreBuilders'
      /\ FailuresAreCoded'
      BY <1>1, <1>2, <1>3
      DEF IdsInv, TypeOK, LiveIsTracked, ExpectedIsMine, AcceptedIsMine, Succeeded, FailuresAreCoded,
          LiveBuildersAreBuilders, Live
<1>6. LiveBuildersDiffer'
      BY <1>2, <1>3 DEF NextRequestId, IdsInv, TypeOK, LiveBuildersDiffer, Live
<1>7. LeakedFew'
  <2>1. call[t].pc \in {"idle", "done"}
        BY DEF NextRequestId
  <2>2. Leaked' \subseteq Leaked
        BY <1>1, <1>2, <1>3, <2>1 DEF IdsInv, TypeOK, Leaked, Waiting
  <2> QED BY <2>2, NothingMoreIsLeft DEF IdsInv
<1> QED BY <1>4, <1>5, <1>6, <1>7 DEF IdsInv

LEMMA StoreRequestIdStep ==
    ASSUME FewLeaks, IdsInv, NEW t \in Threads, StoreRequestId(t)
    PROVE  IdsInv'
<1> DEFINE mine == call[t].builder  tracked == DOMAIN requestIdsByBuilder
<1>1. Kept(tracked) = tracked
  <2>1. t \notin Waiting
        BY DEF StoreRequestId, Waiting
  <2> QED BY <2>1, NothingIsErased DEF IdsInv
<1>2. /\ requestIdsByBuilder' = [b \in tracked \union {mine} |->
                                   IF b = mine THEN call[t].id ELSE requestIdsByBuilder[b]]
      /\ call[t].pc = "numbered" /\ call' = [call EXCEPT ![t].pc = "built"]
      /\ UNCHANGED <<nextRequestId, expectedRequestId>>
      BY <1>1 DEF StoreRequestId
<1>3. mine \in Builders /\ call[t].id \in Ids /\ call' \in [Threads -> CallType]
      BY <1>2 DEF IdsInv, TypeOK, CallType, LiveBuildersAreBuilders, Live
<1>4. TypeOK'
      BY <1>2, <1>3 DEF IdsInv, TypeOK
<1>5. LiveIsTracked'
      BY <1>2 DEF IdsInv, TypeOK, CallType, LiveIsTracked, LiveBuildersDiffer, Live
<1>6. LiveBuildersDiffer' /\ ExpectedIsMine' /\ AcceptedIsMine' /\ LiveBuildersAreBuilders'
      /\ FailuresAreCoded'
      BY <1>2 DEF IdsInv, TypeOK, CallType, LiveBuildersDiffer, Live, ExpectedIsMine,
                  AcceptedIsMine, Succeeded, FailuresAreCoded, LiveBuildersAreBuilders
<1>7. LeakedFew'
  <2>1. t \in Waiting' /\ call'[t].builder = mine
        BY <1>2 DEF IdsInv, TypeOK, CallType, Waiting
  <2>2. \A u \in Waiting : u \in Waiting' /\ call'[u].builder = call[u].builder
        BY <1>2 DEF IdsInv, TypeOK, CallType, Waiting
  <2>3. Leaked' \subseteq Leaked
        BY <1>2, <2>1, <2>2 DEF Leaked
  <2> QED BY <2>3, NothingMoreIsLeft DEF IdsInv
<1> QED BY <1>4, <1>5, <1>6, <1>7 DEF IdsInv

LEMMA HttpStep ==
    ASSUME IdsInv, NEW t \in Threads,
           \/ \E id \in 1 .. nextRequestId - 1, body \in Bodies : HttpAnswers(t, id, body)
           \/ HttpFails(t)
           \/ HttpThrows(t)
    PROVE  IdsInv'
<1>1. UNCHANGED <<nextRequestId, requestIdsByBuilder, expectedRequestId>> /\ call[t].pc = "built"
      BY DEF HttpAnswers, HttpFails, HttpThrows
<1>2. PICK c \in CallType :
         /\ call' = [call EXCEPT ![t] = c]
         /\ c.pc = "failed" => c.code # 0
         /\ \/ c.pc \in {"posted", "failed"} /\ c.builder = call[t].builder /\ c.id = call[t].id
            \/ c.pc = "idle"
  <2>1. ASSUME NEW id \in 1 .. nextRequestId - 1, NEW body \in Bodies, HttpAnswers(t, id, body)
        PROVE  \E c \in CallType :
                  /\ call' = [call EXCEPT ![t] = c]
                  /\ c.pc = "posted" /\ c.builder = call[t].builder /\ c.id = call[t].id
    <3> DEFINE r == [id |-> id, kind |-> body.kind, code |-> body.code]
    <3>1. r \in [id : Ids, kind : {"none", "result", "error"}, code : Int]
      <4>1. id \in Ids
            BY MaxIdAssumption DEF IdsInv, TypeOK, Ids
      <4>2. body.kind \in {"none", "result", "error"} /\ body.code \in Int
        <5>1. CASE body \in [kind : {"result"}, code : {0}]
              BY <5>1
        <5>2. CASE body \in [kind : {"error"}, code : ErrorCodes]
              BY <5>2, CodesAssumption
        <5> QED BY <5>1, <5>2 DEF Bodies
      <4> QED BY <4>1, <4>2
    <3>2. call' = [call EXCEPT ![t] = [call[t] EXCEPT !.pc = "posted", !.response = r]]
          BY <2>1 DEF HttpAnswers, IdsInv, TypeOK
    <3> HIDE DEF r
    <3>3. [call[t] EXCEPT !.pc = "posted", !.response = r] \in CallType
          BY <3>1 DEF IdsInv, TypeOK, CallType
    <3> QED BY <3>2, <3>3 DEF IdsInv, TypeOK, CallType
  <2>2. CASE HttpFails(t)
    <3>1. call' = [call EXCEPT ![t] = [call[t] EXCEPT !.pc = "failed", !.code = HttpError]]
          BY <2>2 DEF HttpFails, IdsInv, TypeOK
    <3>2. [call[t] EXCEPT !.pc = "failed", !.code = HttpError] \in CallType
      <4>1. HttpError \in Int /\ call[t] \in CallType
            BY DEF HttpError, IdsInv, TypeOK
      <4> QED BY <4>1 DEF CallType
    <3>3. HttpError # 0
          BY DEF HttpError
    <3> QED BY <3>1, <3>2, <3>3 DEF IdsInv, TypeOK, CallType
  <2>3. CASE HttpThrows(t)
    <3>1. Idle \in CallType /\ Idle.pc = "idle"
          BY MaxIdAssumption DEF CallType, Idle, NoBody, Ids, Methods
    <3> QED BY <2>3, <3>1 DEF HttpThrows
  <2> QED BY <2>1, <2>2, <2>3
<1>3. TypeOK'
      BY <1>1, <1>2 DEF IdsInv, TypeOK
<1>4. LeakedFew'
  <2>1. ASSUME NEW u \in Waiting, u # t PROVE u \in Waiting' /\ call'[u].builder = call[u].builder
        BY <1>2, <2>1 DEF IdsInv, TypeOK, Waiting
  <2>2. CASE HttpThrows(t)
    <3>1. Leaked' \subseteq Leaked \union {call[t].builder}
          BY <1>1, <2>1 DEF Leaked
    <3>2. Cardinality(Leaked) < MaxLeaks /\ IsFiniteSet(Leaked) /\ Cardinality(Leaked) \in Nat
          BY <2>2, LeakedIsFinite DEF HttpThrows, IdsInv
    <3>3. /\ IsFiniteSet(Leaked \union {call[t].builder})
          /\ Cardinality(Leaked \union {call[t].builder}) <= Cardinality(Leaked) + 1
          /\ Cardinality(Leaked \union {call[t].builder}) \in Nat
      <4>1. /\ IsFiniteSet(Leaked \union {call[t].builder})
            /\ Cardinality(Leaked \union {call[t].builder})
                 = IF call[t].builder \in Leaked THEN Cardinality(Leaked) ELSE Cardinality(Leaked) + 1
            BY <3>2, FS_AddElement
      <4>2. Cardinality(Leaked \union {call[t].builder}) <= Cardinality(Leaked) + 1
            BY <3>2, <4>1
      <4> QED BY <4>1, <4>2, FS_CardinalityType
    <3>4. /\ Cardinality(Leaked') <= Cardinality(Leaked \union {call[t].builder})
          /\ Cardinality(Leaked') \in Nat
          BY <3>1, <3>3, FS_Subset, FS_CardinalityType
    <3> QED BY <3>2, <3>3, <3>4, LeaksAssumption DEF LeakedFew
  <2>3. CASE ~HttpThrows(t)
    <3>1. t \in Waiting' /\ call'[t].builder = call[t].builder
          BY <2>3 DEF HttpAnswers, HttpFails, IdsInv, TypeOK, CallType, Waiting
    <3>2. Leaked' \subseteq Leaked
          BY <1>1, <2>1, <3>1 DEF Leaked
    <3> QED BY <3>2, NothingMoreIsLeft DEF IdsInv
  <2> QED BY <2>2, <2>3
<1> QED BY <1>1, <1>2, <1>3, <1>4
        DEF IdsInv, TypeOK, LiveIsTracked, LiveBuildersDiffer, LiveBuildersAreBuilders, Live,
            ExpectedIsMine, AcceptedIsMine, Succeeded, FailuresAreCoded

LEMMA UseRequestIdStep ==
    ASSUME IdsInv, NEW t \in Threads, UseRequestId(t)
    PROVE  IdsInv'
<1> DEFINE mine == call[t].builder  tracked == DOMAIN requestIdsByBuilder
<1>1. /\ call[t].pc \in {"posted", "failed"}
      /\ mine \in tracked /\ requestIdsByBuilder[mine] = call[t].id
      BY DEF UseRequestId, IdsInv, LiveIsTracked
<1>2. /\ expectedRequestId' = [expectedRequestId EXCEPT ![t] = call[t].id]
      /\ requestIdsByBuilder' = [b \in tracked \ {mine} |-> requestIdsByBuilder[b]]
      /\ call' = [call EXCEPT ![t].pc = IF @ = "failed" THEN "done" ELSE "parse"]
      /\ nextRequestId' = nextRequestId
      BY <1>1 DEF UseRequestId
<1>3. call[t].id \in Ids /\ call' \in [Threads -> CallType]
      BY <1>2 DEF IdsInv, TypeOK, CallType
<1>4. TypeOK'
      BY <1>2, <1>3 DEF IdsInv, TypeOK
<1>5. LiveIsTracked'
  <2> SUFFICES ASSUME NEW u \in Threads, call'[u].pc \in {"built", "posted", "failed"}
               PROVE  /\ call'[u].builder \in DOMAIN requestIdsByBuilder'
                      /\ requestIdsByBuilder'[call'[u].builder] = call'[u].id
      BY DEF LiveIsTracked
  <2>1. u # t /\ call'[u] = call[u]
        BY <1>2 DEF IdsInv, TypeOK
  <2>2. call[u].builder # mine
        BY <1>1, <2>1 DEF IdsInv, LiveBuildersDiffer, Live
  <2> QED BY <1>2, <2>1, <2>2 DEF IdsInv, LiveIsTracked
<1>6. LiveBuildersDiffer' /\ LiveBuildersAreBuilders'
      BY <1>1, <1>2 DEF IdsInv, TypeOK, CallType, LiveBuildersDiffer, LiveBuildersAreBuilders, Live
<1>7. ExpectedIsMine'
      BY <1>2 DEF IdsInv, TypeOK, CallType, ExpectedIsMine
<1>8. AcceptedIsMine' /\ FailuresAreCoded'
      BY <1>1, <1>2 DEF IdsInv, TypeOK, CallType, AcceptedIsMine, Succeeded, FailuresAreCoded
<1>9. LeakedFew'
  <2>1. ASSUME NEW u \in Waiting, u # t PROVE u \in Waiting' /\ call'[u].builder = call[u].builder
        BY <1>2, <2>1 DEF IdsInv, TypeOK, Waiting
  <2>2. Leaked' \subseteq Leaked
        BY <1>2, <2>1 DEF Leaked
  <2> QED BY <2>2, NothingMoreIsLeft DEF IdsInv
<1> QED BY <1>4, <1>5, <1>6, <1>7, <1>8, <1>9 DEF IdsInv

LEMMA ParseResponseStep ==
    ASSUME IdsInv, NEW t \in Threads, ParseResponse(t)
    PROVE  IdsInv'
<1>1. /\ UNCHANGED <<nextRequestId, requestIdsByBuilder, expectedRequestId>>
      /\ call[t].pc = "parse"
      /\ call' = [call EXCEPT ![t] = [call[t] EXCEPT !.pc = "done", !.code = ParsedCode(t)]]
      BY DEF ParseResponse, IdsInv, TypeOK
<1>2. ParsedCode(t) \in Int /\ (ParsedCode(t) = 0 => call[t].response.id = call[t].id)
  <2>1. call[t].response \in [id : Ids, kind : {"none", "result", "error"}, code : Int]
        BY DEF IdsInv, TypeOK, CallType
  <2>2. expectedRequestId[t] = call[t].id
        BY <1>1 DEF IdsInv, ExpectedIsMine
  <2> QED BY <2>1, <2>2 DEF ParsedCode, InvalidRpcResponse, InvalidJSON
<1>3. [call[t] EXCEPT !.pc = "done", !.code = ParsedCode(t)] \in CallType
      BY <1>2 DEF IdsInv, TypeOK, CallType
<1>4. TypeOK'
      BY <1>1, <1>3 DEF IdsInv, TypeOK
<1>5. LeakedFew'
  <2>1. Leaked' \subseteq Leaked
        BY <1>1 DEF IdsInv, TypeOK, CallType, Leaked, Waiting
  <2> QED BY <2>1, NothingMoreIsLeft DEF IdsInv
<1> QED BY <1>1, <1>2, <1>4, <1>5
        DEF IdsInv, TypeOK, CallType, LiveIsTracked, LiveBuildersDiffer,
            LiveBuildersAreBuilders, Live, ExpectedIsMine, AcceptedIsMine, Succeeded, FailuresAreCoded

LEMMA IdsStep == ASSUME FewLeaks, IdsInv, [Next]_vars PROVE IdsInv'
<1>1. CASE Next
      BY <1>1, NextRequestIdStep, StoreRequestIdStep, HttpStep, UseRequestIdStep,
         ParseResponseStep DEF Next
<1>2. CASE UNCHANGED vars
      BY <1>2
      DEF vars, IdsInv, TypeOK, FailuresAreCoded, LiveIsTracked, LiveBuildersDiffer,
          LiveBuildersAreBuilders, Live, ExpectedIsMine, AcceptedIsMine, Succeeded,
          LeakedFew, Leaked, Waiting
<1> QED BY <1>1, <1>2

-----------------------------------------------------------------------------
(* How far a call has come, and what it holds.                             *)

LEMMA AnswersInit == Init => AnswersAreTheServers
  BY DEF Init, Idle, AnswersAreTheServers, CallAnswers

\* A step of one call leaves those of the other threads as they are.
LEMMA OtherCalls ==
    ASSUME AnswersAreTheServers, TypeOK, NEW t \in Threads,
           nextRequestId' = nextRequestId \/ nextRequestId' = nextRequestId + 1,
           \A u \in Threads \ {t} : call'[u] = call[u],
           CallAnswers(call'[t], nextRequestId')
    PROVE  AnswersAreTheServers'
<1>1. nextRequestId \in Int /\ nextRequestId > 0 /\ nextRequestId' > 0
  BY MaxIdAssumption DEF TypeOK, Ids, AnswersAreTheServers
<1>2. 1 .. nextRequestId - 1 \subseteq 1 .. nextRequestId' - 1
  BY <1>1
<1>3. ASSUME NEW u \in Threads \ {t} PROVE CallAnswers(call'[u], nextRequestId')
  BY <1>2, <1>3 DEF AnswersAreTheServers, CallAnswers
<1> QED
  BY <1>1, <1>3 DEF AnswersAreTheServers

LEMMA AnswersStep ==
    ASSUME TypeOK, TypeOK', AnswersAreTheServers, [Next]_vars
    PROVE  AnswersAreTheServers'
<1>1. ASSUME NEW t \in Threads, NEW b \in Builders, NEW method \in Methods,
             NextRequestId(t, b, method)
      PROVE  AnswersAreTheServers'
  <2>1. /\ call'[t].pc = "numbered" /\ call'[t].id = nextRequestId
        /\ call'[t].response = NoBody /\ nextRequestId' = nextRequestId + 1
        /\ \A u \in Threads \ {t} : call'[u] = call[u]
    BY <1>1 DEF NextRequestId, TypeOK, Increment
  <2>2. nextRequestId \in Int /\ nextRequestId > 0
    BY MaxIdAssumption DEF TypeOK, Ids, AnswersAreTheServers
  <2>3. CallAnswers(call'[t], nextRequestId')
    BY <2>1, <2>2 DEF CallAnswers
  <2> QED
    BY <2>1, <2>3, OtherCalls
<1>2. ASSUME NEW t \in Threads, NEW id \in 1 .. nextRequestId - 1, NEW body \in Bodies,
             HttpAnswers(t, id, body)
      PROVE  AnswersAreTheServers'
  <2> DEFINE response == [id |-> id, kind |-> body.kind, code |-> body.code]
  <2>1. /\ call[t].pc = "built" /\ call'[t].pc = "posted" /\ call'[t].id = call[t].id
        /\ call'[t].response = response /\ nextRequestId' = nextRequestId
        /\ \A u \in Threads \ {t} : call'[u] = call[u]
    BY <1>2 DEF HttpAnswers, TypeOK, CallType
  <2>2. [kind |-> response.kind, code |-> response.code] \in Bodies
    <3>1. [kind |-> body.kind, code |-> body.code] = body
      BY DEF Bodies
    <3> QED
      BY <3>1
  <2>3. response.id \in 1 .. nextRequestId - 1
    OBVIOUS
  <2>4. CallAnswers(call[t], nextRequestId)
    BY DEF AnswersAreTheServers
  <2> HIDE DEF response
  <2>5. CallAnswers(call'[t], nextRequestId')
    BY <2>1, <2>2, <2>3, <2>4 DEF CallAnswers
  <2> QED
    BY <2>1, <2>5, OtherCalls
<1>3. ASSUME NEW t \in Threads,
             StoreRequestId(t) \/ HttpFails(t) \/ UseRequestId(t) \/ ParseResponse(t)
      PROVE  AnswersAreTheServers'
  <2>1. /\ call'[t].id = call[t].id /\ call'[t].response = call[t].response
        /\ nextRequestId' = nextRequestId
        /\ \A u \in Threads \ {t} : call'[u] = call[u]
    BY <1>3 DEF StoreRequestId, HttpFails, UseRequestId, ParseResponse, TypeOK, CallType
  <2>2. \/ call[t].pc = "numbered" /\ call'[t].pc = "built"
        \/ call[t].pc = "built" /\ call'[t].pc = "failed" /\ call'[t].code = HttpError
        \/ call[t].pc = "posted" /\ call'[t].pc = "parse"
        \/ call'[t].pc = "done"
    BY <1>3 DEF StoreRequestId, HttpFails, UseRequestId, ParseResponse, TypeOK, CallType
  <2>3. CallAnswers(call[t], nextRequestId)
    BY DEF AnswersAreTheServers
  <2>4. CallAnswers(call'[t], nextRequestId')
    BY <2>1, <2>2, <2>3 DEF CallAnswers
  <2> QED
    BY <2>1, <2>4, OtherCalls
<1>4. ASSUME NEW t \in Threads, HttpThrows(t) PROVE AnswersAreTheServers'
  <2>1. /\ call'[t].pc = "idle" /\ nextRequestId' = nextRequestId
        /\ \A u \in Threads \ {t} : call'[u] = call[u]
    BY <1>4 DEF HttpThrows, TypeOK, Idle
  <2>2. CallAnswers(call'[t], nextRequestId')
    BY <2>1 DEF CallAnswers
  <2> QED
    BY <2>1, <2>2, OtherCalls
<1>5. CASE UNCHANGED vars
  BY <1>5 DEF vars, AnswersAreTheServers
<1> QED
  BY <1>1, <1>2, <1>3, <1>4, <1>5 DEF Next

\* The inductive invariant holds in every reachable state.
THEOREM MatchInvariant == ASSUME FewLeaks PROVE Spec => []MatchInv
<1>1. Init => MatchInv
      BY IdsInit, AnswersInit DEF MatchInv
<1>2. MatchInv /\ [Next]_vars => MatchInv'
  <2> SUFFICES ASSUME MatchInv, [Next]_vars PROVE MatchInv'
      OBVIOUS
  <2>1. IdsInv /\ AnswersAreTheServers
        BY DEF MatchInv
  <2>2. IdsInv'
        BY <2>1, IdsStep
  <2>3. AnswersAreTheServers'
        BY <2>1, <2>2, AnswersStep DEF IdsInv
  <2> QED BY <2>2, <2>3 DEF MatchInv
<1> QED BY <1>1, <1>2, PTL DEF Spec

\* While the cap has room for what calls that raised have left behind and for one
\* entry per thread, no thread ever takes another request's response for its own,
\* whatever the transport delivers and however many addresses builders get.
THEOREM OnlyMyResponse == ASSUME FewLeaks PROVE Spec => []AcceptedIsMine
<1>1. MatchInv => AcceptedIsMine
      BY DEF MatchInv, IdsInv
<1> QED BY <1>1, MatchInvariant, PTL

-----------------------------------------------------------------------------
(* What a call reports.                                                    *)

\* The codes of the server are its own: none is 0, none is the one CheckResponse
\* gives a response with another id.
CodesAreOwn == 0 \notin ErrorCodes /\ InvalidRpcResponse \notin ErrorCodes

ReportInv == MineIsAccepted /\ ServerErrorIsReported

LEMMA ReportInit == Init => ReportInv
  BY DEF Init, Idle, ReportInv, MineIsAccepted, ServerErrorIsReported, Succeeded

\* A step that leaves a call neither with a response nor at its end.
LEMMA QuietStep ==
    ASSUME MatchInv, ReportInv, NEW t \in Threads, NEW c \in CallType,
           call' = [call EXCEPT ![t] = c], c.pc \in {"idle", "numbered", "built"}
    PROVE  ReportInv'
  BY DEF MatchInv, IdsInv, TypeOK, ReportInv, MineIsAccepted,
         ServerErrorIsReported, Succeeded

LEMMA ReportStep ==
    ASSUME CodesAreOwn, MatchInv, MatchInv', ReportInv, [Next]_vars
    PROVE  ReportInv'
<1> TypeOK /\ TypeOK' /\ AnswersAreTheServers
  BY DEF MatchInv, IdsInv
<1>1. ASSUME NEW t \in Threads, NEW b \in Builders, NEW method \in Methods,
             NextRequestId(t, b, method)
      PROVE  ReportInv'
  <2> DEFINE c == [pc |-> "numbered", builder |-> b, id |-> nextRequestId,
                   method |-> method, response |-> NoBody, code |-> 0]
  <2>1. call' = [call EXCEPT ![t] = c] /\ c.pc = "numbered"
    BY <1>1 DEF NextRequestId
  <2>2. c = call'[t]
    BY <2>1 DEF TypeOK
  <2>3. c \in CallType
    BY <2>2 DEF TypeOK
  <2> HIDE DEF c
  <2> QED
    BY <2>1, <2>3, QuietStep
<1>2. ASSUME NEW t \in Threads, StoreRequestId(t) PROVE ReportInv'
  <2>1. call' = [call EXCEPT ![t] = [call[t] EXCEPT !.pc = "built"]]
    BY <1>2 DEF StoreRequestId, TypeOK
  <2>2. [call[t] EXCEPT !.pc = "built"] \in CallType
    BY DEF TypeOK, CallType
  <2> QED
    BY <2>1, <2>2, QuietStep DEF CallType
<1>3. ASSUME NEW t \in Threads, NEW id \in 1 .. nextRequestId - 1, NEW body \in Bodies,
             HttpAnswers(t, id, body)
      PROVE  ReportInv'
  <2>1. call'[t].pc = "posted"
    BY <1>3 DEF HttpAnswers, TypeOK, CallType
  <2>2. \A u \in Threads \ {t} : call'[u] = call[u]
    BY <1>3 DEF HttpAnswers, TypeOK
  <2> QED
    BY <2>1, <2>2
    DEF ReportInv, MineIsAccepted, ServerErrorIsReported, Succeeded
<1>4. ASSUME NEW t \in Threads, HttpFails(t) PROVE ReportInv'
  <2>1. call'[t].pc = "failed" /\ call'[t].code = HttpError
    BY <1>4 DEF HttpFails, TypeOK, CallType
  <2>2. \A u \in Threads \ {t} : call'[u] = call[u]
    BY <1>4 DEF HttpFails, TypeOK
  <2> QED
    BY <2>1, <2>2
    DEF ReportInv, MineIsAccepted, ServerErrorIsReported, Succeeded
<1>5. ASSUME NEW t \in Threads, HttpThrows(t) PROVE ReportInv'
  <2>1. Idle \in CallType /\ Idle.pc = "idle"
    BY MaxIdAssumption DEF CallType, Idle, NoBody, Ids, Methods
  <2> QED
    BY <1>5, <2>1, QuietStep DEF HttpThrows
<1>6. ASSUME NEW t \in Threads, UseRequestId(t) PROVE ReportInv'
  <2>1. /\ call'[t].response = call[t].response /\ call'[t].code = call[t].code
        /\ call[t].pc \in {"posted", "failed"}
        /\ call'[t].pc = IF call[t].pc = "failed" THEN "done" ELSE "parse"
    BY <1>6 DEF UseRequestId, TypeOK, CallType
  <2>2. \A u \in Threads \ {t} : call'[u] = call[u]
    BY <1>6 DEF UseRequestId, TypeOK
  <2>3. HttpError # 0 /\ HttpError # InvalidRpcResponse
    BY DEF HttpError, InvalidRpcResponse
  <2>4. call[t].pc = "failed" => call[t].code = HttpError
    BY DEF AnswersAreTheServers, CallAnswers
  <2> QED
    BY <2>1, <2>2, <2>3, <2>4
    DEF ReportInv, MineIsAccepted, ServerErrorIsReported, Succeeded
<1>7. ASSUME NEW t \in Threads, ParseResponse(t) PROVE ReportInv'
  <2>1. /\ call[t].pc = "parse"
        /\ call'[t].response = call[t].response /\ call'[t].id = call[t].id
        /\ call'[t].pc = "done" /\ call'[t].code = ParsedCode(t)
    BY <1>7 DEF ParseResponse, TypeOK, CallType
  <2>2. \A u \in Threads \ {t} : call'[u] = call[u]
    BY <1>7 DEF ParseResponse, TypeOK
  <2>3. expectedRequestId[t] = call[t].id
    BY <2>1 DEF MatchInv, IdsInv, ExpectedIsMine
  <2>4. \/ call[t].response.kind = "result"
        \/ /\ call[t].response.kind = "error" /\ call[t].response.code # 0
           /\ call[t].response.code # InvalidRpcResponse
    <3>1. [kind |-> call[t].response.kind, code |-> call[t].response.code] \in Bodies
      BY <2>1 DEF AnswersAreTheServers, CallAnswers
    <3> QED
      BY <3>1 DEF Bodies, CodesAreOwn
  <2>5. /\ ParsedCode(t) = 0 => call[t].response.kind = "result"
        /\ call[t].response.id = call[t].id => ParsedCode(t) # InvalidRpcResponse
    <3>1. InvalidRpcResponse # 0 /\ InvalidRpcResponse # InvalidJSON
      BY DEF InvalidRpcResponse, InvalidJSON
    <3> QED
      BY <2>3, <2>4, <3>1 DEF ParsedCode
  <2> QED
    BY <2>1, <2>2, <2>5
    DEF ReportInv, MineIsAccepted, ServerErrorIsReported, Succeeded
<1>8. CASE UNCHANGED vars
  BY <1>8 DEF vars, ReportInv, MineIsAccepted, ServerErrorIsReported, Succeeded
<1> QED
  BY <1>1, <1>2, <1>3, <1>4, <1>5, <1>6, <1>7, <1>8 DEF Next

LEMMA ReportInvariant == ASSUME FewLeaks, CodesAreOwn PROVE Spec => []ReportInv
<1>1. MatchInv /\ MatchInv' /\ ReportInv /\ [Next]_vars => ReportInv'
  BY ReportStep
<1> QED
  BY <1>1, ReportInit, MatchInvariant, PTL DEF Spec

\* With that room, the answer to the request a thread made is never turned away for
\* its id (CheckResponse).
THEOREM MyResponseIsTaken == ASSUME FewLeaks, CodesAreOwn PROVE Spec => []MineIsAccepted
<1>1. ReportInv => MineIsAccepted
  BY DEF ReportInv
<1> QED
  BY <1>1, ReportInvariant, PTL

\* An error object of the server, if its code is not 0, is an error of the call
\* (CheckResponse and the deserializers); run JsonRpcZeroCode shows why 0 is left
\* out.
THEOREM ErrorsAreReported == ASSUME FewLeaks, CodesAreOwn PROVE Spec => []ServerErrorIsReported
<1>1. ReportInv => ServerErrorIsReported
  BY DEF ReportInv
<1> QED
  BY <1>1, ReportInvariant, PTL

-----------------------------------------------------------------------------
(* The layer implements OwnAnswers.                                        *)

LEMMA ExchangeStarts == Init => Exchange!Init
<1> SUFFICES ASSUME Init PROVE Exchange!Init
  OBVIOUS
<1>1. 1 .. nextRequestId - 1 = {}
  BY DEF Init
<1>2. \A t \in Threads : Asked(t) = 0 /\ Reported(t) = Exchange!NoReply
  BY DEF Init, Idle, Live, Asked, Reported, Exchange!NoReply, Exchange!None
<1> QED
  BY <1>1, <1>2 DEF Exchange!Init, Exchange!None

\* A step no caller sees.
LEMMA Unseen ==
    ASSUME NEW t \in Threads, nextRequestId' = nextRequestId,
           \A u \in Threads \ {t} : call'[u] = call[u],
           Asked(t)' = Asked(t), Reported(t)' = Reported(t)
    PROVE  UNCHANGED Exchange!exchange
<1>1. \A u \in Threads : Asked(u)' = Asked(u) /\ Reported(u)' = Reported(u)
  BY DEF Asked, Live, Reported
<1> QED
  BY <1>1 DEF Exchange!exchange

\* A step that ends a call.
LEMMA CallEnds ==
    ASSUME AnswersAreTheServers, NEW t \in Threads, nextRequestId' = nextRequestId,
           \A u \in Threads \ {t} : call'[u] = call[u],
           Live(t), ~Live(t)', NEW told, Reported(t)' = told
    PROVE  Exchange!End(t, told)
<1>1. \A u \in Threads \ {t} : Asked(u)' = Asked(u) /\ Reported(u)' = Reported(u)
  BY DEF Asked, Live, Reported
<1>2. Asked(t) # 0
  <2>1. CallAnswers(call[t], nextRequestId)
    BY DEF AnswersAreTheServers
  <2>2. call[t].id \in 1 .. nextRequestId - 1
    BY <2>1 DEF CallAnswers, Live
  <2> QED
    BY <2>2 DEF Asked
<1>3. Asked(t)' = 0
  BY DEF Asked, Live
<1> QED
  BY <1>1, <1>2, <1>3 DEF Exchange!End, Exchange!None

LEMMA ExchangeSteps ==
    ASSUME 0 \notin ErrorCodes, MatchInv, MatchInv', [Next]_vars
    PROVE  [Exchange!Next]_Exchange!exchange
<1>0. TypeOK /\ TypeOK' /\ AnswersAreTheServers
  BY DEF MatchInv, IdsInv
<1>1. ASSUME NEW t \in Threads, NEW b \in Builders, NEW method \in Methods,
             NextRequestId(t, b, method)
      PROVE  Exchange!Next
  <2> DEFINE id == nextRequestId
  <2>1. /\ call[t].pc \in {"idle", "done"} /\ call'[t].pc = "numbered" /\ call'[t].id = id
        /\ id <= MaxId /\ nextRequestId' = id + 1
        /\ \A u \in Threads \ {t} : call'[u] = call[u]
    BY <1>0, <1>1 DEF NextRequestId, TypeOK, Increment
  <2>2. id \in Int /\ id > 0
    BY <1>0, MaxIdAssumption DEF TypeOK, Ids, AnswersAreTheServers
  <2>3. id \in (1 .. MaxId) \ (1 .. nextRequestId - 1)
    BY <2>1, <2>2, MaxIdAssumption
  <2>4. 1 .. nextRequestId' - 1 = (1 .. nextRequestId - 1) \cup {id}
    BY <2>1, <2>2
  <2>5. \A u \in Threads \ {t} : Asked(u)' = Asked(u) /\ Reported(u)' = Reported(u)
    BY <2>1 DEF Asked, Live, Reported
  <2>6. Asked(t) = 0 /\ Asked(t)' = id /\ Reported(t)' = Exchange!NoReply
    BY <2>1 DEF Asked, Live, Reported, Exchange!NoReply, Exchange!None
  <2> HIDE DEF id
  <2>7. Exchange!Ask(t, id)
    BY <2>4, <2>5, <2>6 DEF Exchange!Ask, Exchange!None
  <2> QED
    BY <2>3, <2>7 DEF Exchange!Next
<1>2. ASSUME NEW t \in Threads, StoreRequestId(t) PROVE UNCHANGED Exchange!exchange
  <2>1. /\ call[t].pc = "numbered" /\ call'[t].pc = "built" /\ call'[t].id = call[t].id
        /\ nextRequestId' = nextRequestId /\ \A u \in Threads \ {t} : call'[u] = call[u]
    BY <1>0, <1>2 DEF StoreRequestId, TypeOK, CallType
  <2> QED
    BY <2>1, Unseen DEF Asked, Live, Reported
<1>3. ASSUME NEW t \in Threads, NEW id \in 1 .. nextRequestId - 1, NEW body \in Bodies,
             HttpAnswers(t, id, body)
      PROVE  UNCHANGED Exchange!exchange
  <2>1. /\ call[t].pc = "built" /\ call'[t].pc = "posted" /\ call'[t].id = call[t].id
        /\ nextRequestId' = nextRequestId /\ \A u \in Threads \ {t} : call'[u] = call[u]
    BY <1>0, <1>3 DEF HttpAnswers, TypeOK, CallType
  <2> QED
    BY <2>1, Unseen DEF Asked, Live, Reported
<1>4. ASSUME NEW t \in Threads, HttpFails(t) PROVE UNCHANGED Exchange!exchange
  <2>1. /\ call[t].pc = "built" /\ call'[t].pc = "failed" /\ call'[t].id = call[t].id
        /\ nextRequestId' = nextRequestId /\ \A u \in Threads \ {t} : call'[u] = call[u]
    BY <1>0, <1>4 DEF HttpFails, TypeOK, CallType
  <2> QED
    BY <2>1, Unseen DEF Asked, Live, Reported
<1>5. ASSUME NEW t \in Threads, HttpThrows(t) PROVE Exchange!Next
  <2>1. /\ call[t].pc = "built" /\ call'[t].pc = "idle"
        /\ nextRequestId' = nextRequestId /\ \A u \in Threads \ {t} : call'[u] = call[u]
    BY <1>0, <1>5 DEF HttpThrows, TypeOK, Idle
  <2>2. Live(t) /\ ~Live(t)' /\ Reported(t)' = Exchange!NoReply
    BY <2>1 DEF Live, Reported, Exchange!NoReply, Exchange!None
  <2>3. Exchange!Raise(t)
    BY <1>0, <2>1, <2>2, CallEnds DEF Exchange!Raise
  <2> QED
    BY <2>3 DEF Exchange!Next
<1>6. ASSUME NEW t \in Threads, UseRequestId(t)
      PROVE  Exchange!Next \/ UNCHANGED Exchange!exchange
  <2>1. /\ call[t].pc \in {"posted", "failed"} /\ call'[t].id = call[t].id
        /\ call'[t].pc = (IF call[t].pc = "failed" THEN "done" ELSE "parse")
        /\ call'[t].response = call[t].response /\ call'[t].code = call[t].code
        /\ nextRequestId' = nextRequestId /\ \A u \in Threads \ {t} : call'[u] = call[u]
    BY <1>0, <1>6 DEF UseRequestId, TypeOK, CallType
  <2>2. CASE call[t].pc = "posted"
    BY <2>1, <2>2, Unseen DEF Asked, Live, Reported
  <2>3. CASE call[t].pc = "failed"
    <3> DEFINE told == [to |-> 0, kind |-> "none", code |-> HttpError]
    <3>1. call[t].response = NoBody /\ call[t].code = HttpError
      BY <1>0, <2>3 DEF AnswersAreTheServers, CallAnswers
    <3>2. Live(t) /\ ~Live(t)' /\ Reported(t)' = told
      BY <2>1, <2>3, <3>1 DEF Live, Reported, NoBody
    <3> HIDE DEF told
    <3>3. Exchange!End(t, told)
      BY <1>0, <2>1, <3>2, CallEnds
    <3>4. Exchange!Fail(t)
      BY <3>3 DEF told, Exchange!Fail, Exchange!None
    <3> QED
      BY <3>4 DEF Exchange!Next
  <2> QED
    BY <2>1, <2>2, <2>3
<1>7. ASSUME NEW t \in Threads, ParseResponse(t) PROVE Exchange!Next
  <2> DEFINE id     == call[t].response.id
             answer == [kind |-> call[t].response.kind, code |-> call[t].response.code]
             told   == [to |-> id, kind |-> answer.kind,
                        code |-> IF id = call[t].id THEN answer.code ELSE InvalidRpcResponse]
  <2>1. /\ call[t].pc = "parse" /\ call'[t].pc = "done" /\ call'[t].code = ParsedCode(t)
        /\ call'[t].response = call[t].response
        /\ nextRequestId' = nextRequestId /\ \A u \in Threads \ {t} : call'[u] = call[u]
    BY <1>0, <1>7 DEF ParseResponse, TypeOK, CallType
  <2>2. id \in 1 .. nextRequestId - 1 /\ answer \in Bodies
    BY <1>0, <2>1 DEF AnswersAreTheServers, CallAnswers
  <2>3. expectedRequestId[t] = call[t].id
    BY <2>1 DEF MatchInv, IdsInv, ExpectedIsMine
  <2>4. \/ answer.kind = "result" /\ answer.code = 0
        \/ answer.kind = "error" /\ answer.code # 0
    <3> HIDE DEF answer
    <3> QED
      BY <2>2 DEF Bodies
  <2>5. ParsedCode(t) = IF id = call[t].id THEN answer.code ELSE InvalidRpcResponse
    BY <2>3, <2>4 DEF ParsedCode
  <2>6. Live(t) /\ ~Live(t)' /\ Reported(t)' = told
    BY <2>1, <2>5 DEF Live, Reported
  <2>7. Asked(t) = call[t].id
    BY <2>1 DEF Asked, Live
  <2> HIDE DEF id, answer
  <2>8. Exchange!End(t, told)
    BY <1>0, <2>1, <2>6, CallEnds
  <2>9. Exchange!Report(t, id, answer)
    BY <2>7, <2>8 DEF Exchange!Report
  <2>10. answer \in Exchange!Answers
    BY <2>2 DEF Bodies, Exchange!Answers
  <2> QED
    BY <2>2, <2>9, <2>10 DEF Exchange!Next
<1>8. CASE UNCHANGED vars
  <2>1. \A t \in Threads : Asked(t)' = Asked(t) /\ Reported(t)' = Reported(t)
    BY <1>8 DEF vars, Asked, Live, Reported
  <2> QED
    BY <1>8, <2>1 DEF vars, Exchange!exchange
<1> QED
  BY <1>1, <1>2, <1>3, <1>4, <1>5, <1>6, <1>7, <1>8 DEF Next

\* With that room, and a server whose errors have codes, the layer implements
\* OwnAnswers: for any number of threads and requests, ids are given once and a
\* call reports the answer to its own.
THEOREM AnswersAreOwn ==
    ASSUME FewLeaks, 0 \notin ErrorCodes PROVE Spec => ImplementsOwnAnswers
<1>1. MatchInv /\ MatchInv' /\ [Next]_vars => [Exchange!Next]_Exchange!exchange
  BY ExchangeSteps
<1> QED
  BY <1>1, ExchangeStarts, MatchInvariant, PTL DEF Spec, ImplementsOwnAnswers, Exchange!Spec

=============================================================================

------------------------------ MODULE JsonRpc ------------------------------
(***************************************************************************)
(* The JSON-RPC layer of include/PhantasmaAPI.h under several threads: the *)
(* process-wide id counter, the mutex-protected map from a request builder *)
(* (its address) to the id it was given, the thread-local id the next      *)
(* parse must match, and CheckResponse, which decides whether a response   *)
(* is the answer to the request.                                           *)
(*                                                                         *)
(* One call of a PhantasmaAPI method is Make*Request (two atomic steps:    *)
(* fetch_add, then the locked store), HttpPost, UseRequestId (the locked   *)
(* take) and Parse*Response.  An HTTP client whose HttpPost raises leaves  *)
(* the map entry of its builder behind, until the address is used again    *)
(* or the cap erases it.  A response is abstracted to the id it carries    *)
(* and its body: a result, or an error object (beside or inside the        *)
(* result; one that is a text has the code RpcMessage).  A transport may   *)
(* hand a thread the response to any request made so far.                  *)
(***************************************************************************)
EXTENDS Integers, FiniteSets

CONSTANTS
    Threads,
    Builders,    \* addresses request builders are created at
    Cap,         \* PHANTASMA_MAX_TRACKED_JSON_RPC_IDS; 0 tracks without a cap
    MaxLeaks,    \* bound: entries left behind at a time by HTTP clients that raised
    ErrorCodes,  \* the codes of the errors the server sends
    MaxId        \* bound: requests made

ASSUME BuildersAssumption == Builders \subseteq Nat /\ IsFiniteSet(Builders)
ASSUME ThreadsAssumption  == IsFiniteSet(Threads)
ASSUME CapAssumption      == Cap \in Nat
ASSUME LeaksAssumption    == MaxLeaks \in Nat
ASSUME CodesAssumption    == ErrorCodes \subseteq Int
ASSUME MaxIdAssumption    == MaxId \in Nat

VARIABLES
    nextRequestId,        \* the atomic counter
    requestIdsByBuilder,  \* the map, a function on the tracked addresses
    expectedRequestId,    \* thread_local: the id the next parse must match
    call                  \* per thread: the call in progress

vars == <<nextRequestId, requestIdsByBuilder, expectedRequestId, call>>

Ids == 0 .. MaxId + 1     \* 0 is no request
InvalidJSON        == -1
HttpError          == -2
InvalidRpcResponse == -3
RpcMessage         == -4

\* What a response body holds, besides its id.
Bodies == [kind : {"result"}, code : {0}] \union [kind : {"error"}, code : ErrorCodes]
NoBody == [id |-> 0, kind |-> "none", code |-> 0]

\* How Parse*Response reads a result: json::AsString turns whatever is not a
\* string into "" without an error, the other deserializers flag it.
Methods == {"string", "strict"}

Idle == [pc |-> "idle", builder |-> 0, id |-> 0, method |-> "strict",
         response |-> NoBody, code |-> 0]

CallType ==
    [pc : {"idle", "numbered", "built", "posted", "failed", "parse", "done"},
     builder : Nat, id : Ids, method : Methods,
     response : [id : Ids, kind : {"none", "result", "error"}, code : Int],
     code : Int]

\* The counter, the map, the thread-locals and the locals have their types, and
\* the map tracks nothing but builders.
TypeOK ==
    /\ nextRequestId \in Ids
    /\ DOMAIN requestIdsByBuilder \subseteq Builders
    /\ \A b \in DOMAIN requestIdsByBuilder : requestIdsByBuilder[b] \in Ids
    /\ expectedRequestId \in [Threads -> Ids]
    /\ call \in [Threads -> CallType]

Init ==
    /\ nextRequestId = 1
    /\ requestIdsByBuilder = [b \in {} |-> 1]
    /\ expectedRequestId = [t \in Threads |-> 1]
    /\ call = [t \in Threads |-> Idle]

----------------------------------------------------------------------------
\* The builder of the thread's call exists (it is a local of the method).
Live(t) == call[t].pc \in {"numbered", "built", "posted", "failed", "parse"}

\* A call whose id is stored and not yet taken owns its builder's entry; the
\* entries nobody owns are those that calls which raised have left.
Waiting == {t \in Threads : call[t].pc \in {"built", "posted", "failed"}}
Leaked  == DOMAIN requestIdsByBuilder \ {call[t].builder : t \in Waiting}

\* NextJsonRpcRequestId: the fetch_add, one atomic step.
Increment(id) == id + 1

NextRequestId(t, b, method) ==
    /\ call[t].pc \in {"idle", "done"}
    /\ nextRequestId <= MaxId
    /\ \A u \in Threads \ {t} : ~(Live(u) /\ call[u].builder = b)
    /\ nextRequestId' = Increment(nextRequestId)
    /\ call' = [call EXCEPT ![t] =
                  [pc |-> "numbered", builder |-> b, id |-> nextRequestId,
                   method |-> method, response |-> NoBody, code |-> 0]]
    /\ UNCHANGED <<requestIdsByBuilder, expectedRequestId>>

\* StoreJsonRpcRequestId's loop erases the lowest address while Cap or more are
\* tracked: what stays are the tracked addresses with fewer than Cap - 1 above.
KeptTooFew(tracked) ==
    {b \in tracked : Cap = 0 \/ Cardinality({c \in tracked : c > b}) < Cap - 2}
Kept(tracked) ==
    {b \in tracked : Cap = 0 \/ Cardinality({c \in tracked : c > b}) < Cap - 1}

StoreRequestId(t) ==
    LET kept == Kept(DOMAIN requestIdsByBuilder)
        mine == call[t].builder
    IN  /\ call[t].pc = "numbered"
        /\ requestIdsByBuilder' =
             [b \in kept \union {mine} |->
                IF b = mine THEN call[t].id ELSE requestIdsByBuilder[b]]
        /\ call' = [call EXCEPT ![t].pc = "built"]
        /\ UNCHANGED <<nextRequestId, expectedRequestId>>

\* HttpPost brings a response: to this request, or to any made so far.
HttpAnswers(t, id, body) ==
    /\ call[t].pc = "built"
    /\ call' = [call EXCEPT ![t].pc = "posted",
                            ![t].response = [id |-> id, kind |-> body.kind, code |-> body.code]]
    /\ UNCHANGED <<nextRequestId, requestIdsByBuilder, expectedRequestId>>

\* HttpPost reports through out_error, or raises past UseRequestId.
HttpFails(t) ==
    /\ call[t].pc = "built"
    /\ call' = [call EXCEPT ![t].pc = "failed", ![t].code = HttpError]
    /\ UNCHANGED <<nextRequestId, requestIdsByBuilder, expectedRequestId>>

HttpThrows(t) ==
    /\ call[t].pc = "built"
    /\ Cardinality(Leaked) < MaxLeaks
    /\ call' = [call EXCEPT ![t] = Idle]
    /\ UNCHANGED <<nextRequestId, requestIdsByBuilder, expectedRequestId>>

\* UseRequestId(request): TakeJsonRpcRequestId, whose answer for an address that
\* is not tracked is "1".
UseRequestId(t) ==
    LET mine    == call[t].builder
        tracked == DOMAIN requestIdsByBuilder
    IN  /\ call[t].pc \in {"posted", "failed"}
        /\ expectedRequestId' = [expectedRequestId EXCEPT ![t] =
                                   IF mine \in tracked THEN requestIdsByBuilder[mine] ELSE 1]
        /\ requestIdsByBuilder' = [b \in tracked \ {mine} |-> requestIdsByBuilder[b]]
        /\ call' = [call EXCEPT ![t].pc = IF @ = "failed" THEN "done" ELSE "parse"]
        /\ UNCHANGED nextRequestId

\* CheckResponse, then the deserializer: the error code the caller sees. A response
\* with another id stands for the ones that are no object or have no id as well: all
\* of them leave the same code and nothing of their body is read.
ParsedCodeAnyId(t) ==
    LET response == call[t].response
    IN  IF response.kind = "error" /\ response.code # 0 THEN response.code ELSE 0
ParsedCodeNoError(t) ==
    IF call[t].response.id = expectedRequestId[t] THEN 0 ELSE InvalidRpcResponse
ParsedCode(t) ==
    LET response == call[t].response
    IN  CASE response.id # expectedRequestId[t] -> InvalidRpcResponse
          [] response.id = expectedRequestId[t] /\ response.kind = "result" -> 0
          [] OTHER -> IF response.code # 0 THEN response.code
                      ELSE IF call[t].method = "string" THEN 0 ELSE InvalidJSON

ParseResponse(t) ==
    /\ call[t].pc = "parse"
    /\ call' = [call EXCEPT ![t].pc = "done", ![t].code = ParsedCode(t)]
    /\ UNCHANGED <<nextRequestId, requestIdsByBuilder, expectedRequestId>>

----------------------------------------------------------------------------
Next == \E t \in Threads :
    \/ \E b \in Builders, method \in Methods : NextRequestId(t, b, method)
    \/ StoreRequestId(t)
    \/ \E id \in 1 .. nextRequestId - 1, body \in Bodies : HttpAnswers(t, id, body)
    \/ HttpFails(t)
    \/ HttpThrows(t)
    \/ UseRequestId(t)
    \/ ParseResponse(t)

Spec == Init /\ [][Next]_vars

----------------------------------------------------------------------------
(* Properties.                                                             *)

Succeeded(t) == call[t].pc = "done" /\ call[t].code = 0

\* A call that reports success consumed the response to its own request: the
\* parser compares with "the id carried by the request that produced this
\* response" and stale ids fail first (PhantasmaAPI.h, CheckResponse).
AcceptedIsMine == \A t \in Threads : Succeeded(t) => call[t].response.id = call[t].id

\* The other direction: the response to the request made is never turned away
\* for its id, whatever other threads evict or leak in the meantime.
MineIsAccepted ==
    \A t \in Threads :
        (call[t].pc = "done" /\ call[t].response.id = call[t].id)
            => call[t].code # InvalidRpcResponse

\* An error object the server answered reaches the caller as an error.  It fails
\* when the object's code is 0 or absent and the result would be a string.
ServerErrorIsReported ==
    \A t \in Threads : Succeeded(t) => call[t].response.kind = "result"

\* What a caller knows of its thread's calls: the request that is on its way, and
\* what the last one reported.
Asked(t) == IF Live(t) THEN call[t].id ELSE 0
Reported(t) ==
    LET response == call[t].response
    IN  IF call[t].pc = "done"
          THEN [to |-> response.id, kind |-> response.kind, code |-> call[t].code]
          ELSE [to |-> 0, kind |-> "none", code |-> 0]
Exchange == INSTANCE OwnAnswers WITH
    Requests <- 1 .. MaxId, Codes <- ErrorCodes,
    Refused  <- InvalidRpcResponse, Failed <- HttpError,
    given    <- 1 .. nextRequestId - 1,
    asked    <- [t \in Threads |-> Asked(t)],
    reply    <- [t \in Threads |-> Reported(t)]

\* All of it together, step by step: ids are given once, and a call reports the
\* answer to its own request with the code the server gave it, or refuses the
\* answer to another's, or says that the exchange failed.  No step of the map,
\* of another thread or of the transport comes between a request and its answer.
ImplementsOwnAnswers == Exchange!Spec

----------------------------------------------------------------------------
(* The inductive invariant, when the cap leaves room for the entries left  *)
(* behind and one per thread.                                              *)

LiveIsTracked ==
    \A t \in Threads : call[t].pc \in {"built", "posted", "failed"} =>
        /\ call[t].builder \in DOMAIN requestIdsByBuilder
        /\ requestIdsByBuilder[call[t].builder] = call[t].id

LiveBuildersAreBuilders ==
    \A t \in Threads : Live(t) => call[t].builder \in Builders

LiveBuildersDiffer ==
    \A t, u \in Threads : t # u /\ Live(t) /\ Live(u) => call[t].builder # call[u].builder

ExpectedIsMine ==
    \A t \in Threads : call[t].pc = "parse" => expectedRequestId[t] = call[t].id

LeakedFew == Cardinality(Leaked) <= MaxLeaks

FailuresAreCoded == \A t \in Threads : call[t].pc = "failed" => call[t].code # 0

IdsInv ==
    /\ TypeOK
    /\ FailuresAreCoded
    /\ LiveIsTracked
    /\ LiveBuildersAreBuilders
    /\ LiveBuildersDiffer
    /\ LeakedFew
    /\ ExpectedIsMine
    /\ AcceptedIsMine

\* How far a call c has come when the ids below next are given: its id is one of
\* them, what was posted is an answer of the server to a request made, and a
\* failed exchange has its code and no response.
CallAnswers(c, next) ==
    /\ c.pc \in {"numbered", "built", "posted", "failed", "parse"} => c.id \in 1 .. next - 1
    /\ c.pc \in {"numbered", "built", "failed"} => c.response = NoBody
    /\ c.pc = "failed" => c.code = HttpError
    /\ c.pc \in {"posted", "parse"} =>
         /\ c.response.id \in 1 .. next - 1
         /\ [kind |-> c.response.kind, code |-> c.response.code] \in Bodies

AnswersAreTheServers ==
    nextRequestId > 0 /\ \A t \in Threads : CallAnswers(call[t], nextRequestId)

\* What a request builder's address stands for, and how far each call has come.
MatchInv == IdsInv /\ AnswersAreTheServers

============================================================================

----------------------------- MODULE CarbonSend -----------------------------
(***************************************************************************)
(* SendTransaction (include/Carbon/Send.h): pre-flight, infusion read, fee *)
(* plan, signing and submission of one message in one call, against a node *)
(* that may be unreachable at any of its steps, a chain other accounts     *)
(* change meanwhile, and a caller that calls again after an answer of      *)
(* false.                                                                  *)
(*                                                                         *)
(* The fee plan is abstracted to what its offer rests on: the gas config   *)
(* the caller passed (a version), the assets the burned instance was read  *)
(* to hold and the number of witnesses.  An envelope is the message, its   *)
(* offer and its signers; equal envelopes are one transaction (signatures  *)
(* are deterministic and the hash is the identity of a transaction).       *)
(***************************************************************************)
EXTENDS Integers, Sequences, FiniteSets, SequencesExt

CONSTANTS
    Messages,     \* the message kinds of this instance, among MessageKinds
    SignerLists,  \* the signer lists callers pass
    StatedCounts, \* values of options.fees.witnessCount; 0 is unstated
    AssetCost,    \* what one returned asset adds to the bill
    WitnessCost,  \* what one witness adds to the bill
    MaxCalls,     \* bound: calls of SendTransaction
    MaxConfig,    \* bound: changes of the gas config
    MaxHeld       \* bound: assets infused into the instance

\* "create": a Call of Token.CreateToken.  "createBatch": the same inside a
\* Call_Multi.  "batch": a Call_Multi of transfers.  "burn": BurnNonFungible.
\* "burnBatch": the Token.BurnNonFungible call inside a Call_Multi.
\* "sponsored": TransferFungible_GasPayer.
MessageKinds == {"create", "createBatch", "batch", "burn", "burnBatch", "sponsored"}

\* "payer" is the account msg.gasFrom names, "owner" the account a _GasPayer
\* message takes assets from, "null" a null key pointer.
Signers == {"payer", "owner", "stranger", "null"}

ASSUME MessagesAssumption == Messages \subseteq MessageKinds
ASSUME SignersAssumption  == SignerLists \subseteq Seq(Signers)
ASSUME CountsAssumption   == StatedCounts \subseteq Nat
ASSUME CostAssumption     == AssetCost \in Nat \ {0} /\ WitnessCost \in Nat \ {0}
ASSUME BoundsAssumption   == MaxCalls \in Nat /\ MaxConfig \in Nat /\ MaxHeld \in Nat

VARIABLES
    up,        \* the node answers now
    config,    \* the chain's gas config, a version: each one costs more
    taken,     \* the symbol the creations register names a token
    held,      \* assets the instance to be burned holds
    mempool,   \* envelopes the node accepted and the chain has not executed
    ledger,    \* envelopes executed, with how each ended
    call,      \* the call in progress: options, locals, program counter
    calls,     \* how many calls have been made
    sends      \* history: every submission, with what the call had learnt

chain == <<config, taken, held, mempool, ledger>>
vars  == <<up, chain, call, calls, sends>>

None == -1

----------------------------------------------------------------------------
(* What the code computes from a message and a signer list.                *)

\* RequiredWitnessCount: answers false for the witness-array types.
FixesWitnesses(msg) == msg \in {"burn", "sponsored"}
RequiredWitnesses(msg) == IF msg = "sponsored" THEN 2 ELSE 1

\* BurnedInstances: the messages that name an instance to burn.
Burns(msg) == msg \in {"burn", "burnBatch"}

\* TryGetGasPayerFrom and the signer checks of SignAndSerialize. (What it refuses
\* before them, for the message alone, does not arise: every plan's offer is above
\* zero, and the amount of a sponsored transfer is one the chain accepts.)
SignersRefusedLax(msg, signers) ==
    \/ signers = <<>>
    \/ "null" \in Range(signers)
    \/ FixesWitnesses(msg) /\ signers[1] # "payer"
SignersRefused(msg, signers) ==
    \/ signers = <<>>
    \/ "null" \in Range(signers)
    \/ /\ FixesWitnesses(msg)
       /\ \/ Len(signers) # RequiredWitnesses(msg)
          \/ signers[1] # "payer"
          \/ msg = "sponsored" /\ signers[2] # "owner"

\* The witness count the plan uses: a stated one, or the signer list.
PlannedAlone(msg, stated, signers) ==
    IF FixesWitnesses(msg) THEN RequiredWitnesses(msg) ELSE IF stated = 0 THEN 1 ELSE stated
PlannedWitnesses(msg, stated, signers) ==
    IF FixesWitnesses(msg) THEN RequiredWitnesses(msg)
    ELSE IF stated = 0 THEN Len(signers) ELSE stated

\* PlanFees refuses: a stated count that a fixed type contradicts, no count at
\* all, or a burn whose infusions nobody read.
Unpriceable(msg, stated, signers, infusions) ==
    \/ FixesWitnesses(msg) /\ stated # 0 /\ stated # RequiredWitnesses(msg)
    \/ ~FixesWitnesses(msg) /\ PlannedWitnesses(msg, stated, signers) = 0
    \/ Burns(msg) /\ infusions = None

\* What a message costs: prices of the config, returned assets, witnesses.
Bill(cfg, assets, witnesses) == cfg + AssetCost * assets + WitnessCost * witnesses

\* plan.maxGas
OfferUnread(msg, cfg, infusions, witnesses) == Bill(cfg, infusions, witnesses)
Offer(msg, cfg, infusions, witnesses) ==
    Bill(cfg, IF Burns(msg) /\ infusions # None THEN infusions ELSE 0, witnesses)

\* PreflightSubject: only a Call, never a batch, is read for its symbol.
HasSubject(msg) == msg = "create"

\* The rules of the chain, external to the SDK: the witnesses a type needs.
NodeAcceptsWitnesses(msg, signers) ==
    IF FixesWitnesses(msg)
    THEN signers = IF msg = "sponsored" THEN <<"payer", "owner">> ELSE <<"payer">>
    ELSE "payer" \in Range(signers)

----------------------------------------------------------------------------
Idle == [pc |-> "idle", msg |-> "create", signers |-> <<>>, config |-> 0,
         preflight |-> FALSE, readInfusions |-> FALSE, stated |-> 0,
         control |-> FALSE, given |-> None, infusions |-> None, planned |-> 0,
         offer |-> 0, takenAtLookup |-> FALSE, answered |-> FALSE,
         controlAnswered |-> FALSE, outcome |-> "none"]

Init ==
    /\ up \in BOOLEAN
    /\ config = 0 /\ taken \in BOOLEAN /\ held = 0
    /\ mempool = {} /\ ledger = {}
    /\ call = Idle /\ calls = 0 /\ sends = {}

(* SendTransaction, step by step.                                          *)

Step(pc)    == call' = [call EXCEPT !.pc = pc]
Return(res) == call' = [call EXCEPT !.pc = "idle", !.outcome = res]
Local       == UNCHANGED <<up, chain, calls, sends>>

\* The call: the caller reads the config from the chain, or uses the one it
\* kept, states facts or not, and asks for a pre-flight or not.
Call(msg, signers, cfg, preflight, readInfusions, given, stated, control) ==
    /\ call.pc = "idle" /\ calls < MaxCalls
    /\ calls' = calls + 1
    /\ call' = [Idle EXCEPT
                  !.pc = IF preflight /\ HasSubject(msg) THEN "lookup" ELSE "infusions",
                  !.msg = msg, !.signers = signers, !.config = cfg,
                  !.preflight = preflight, !.readInfusions = readInfusions,
                  !.given = given, !.infusions = given,
                  !.stated = stated, !.control = control]
    /\ UNCHANGED <<up, chain, sends>>

\* A caller calls again with everything it passed before, its config included.
Retry ==
    /\ call.outcome \in {"lost", "unknown", "unread"}
    /\ Call(call.msg, call.signers, call.config, call.preflight,
            call.readInfusions, call.given, call.stated, call.control)

FirstCall ==
    /\ calls = 0
    /\ \E msg \in Messages, signers \in SignerLists, stated \in StatedCounts,
          preflight, readInfusions, control \in BOOLEAN, given \in {None, held} :
            Call(msg, signers, config, preflight, readInfusions, given, stated, control)

\* PreflightTransaction, first query: GetToken(symbol) answers a token, an
\* error because there is none, or an error because the node is away.
AfterLookupTrusting(found) == IF found THEN "taken" ELSE "infusions"
AfterLookup(found) ==
    IF found THEN "taken" ELSE IF call.control THEN "control" ELSE "unknown"

Lookup ==
    /\ call.pc = "lookup"
    /\ LET next  == AfterLookup(up /\ taken)
           ended == next \in {"taken", "unknown"}
       IN  call' = [call EXCEPT !.takenAtLookup = taken,
                                !.answered = up,
                                !.pc = IF ended THEN "idle" ELSE next,
                                !.outcome = IF ended THEN next ELSE "none"]
    /\ Local

\* Second query: the control token, which the chain holds.
ControlLookup ==
    /\ call.pc = "control"
    /\ IF up THEN call' = [call EXCEPT !.pc = "infusions", !.controlAnswered = TRUE]
             ELSE Return("unknown")
    /\ Local

\* ReadInfusedAssets: nothing is asked when the message burns nothing.
MustRead == call.readInfusions /\ call.given = None /\ Burns(call.msg)

ReadInfusions ==
    /\ call.pc = "infusions"
    /\ CASE ~MustRead       -> Step("plan")
         [] MustRead /\ up  -> call' = [call EXCEPT !.pc = "plan", !.infusions = held]
         [] MustRead /\ ~up -> Return("unread")
    /\ Local

Plan ==
    /\ call.pc = "plan"
    /\ IF Unpriceable(call.msg, call.stated, call.signers, call.infusions)
       THEN Return("unpriced")
       ELSE LET planned == PlannedWitnesses(call.msg, call.stated, call.signers)
            IN  call' = [call EXCEPT
                           !.pc = "sign", !.planned = planned,
                           !.offer = Offer(call.msg, call.config, call.infusions, planned)]
    /\ Local

Sign ==
    /\ call.pc = "sign"
    /\ IF SignersRefused(call.msg, call.signers) THEN Return("unsigned") ELSE Step("send")
    /\ Local

EnvelopePadded == [msg |-> call.msg, signers |-> call.signers, offer |-> call.offer + calls]
Envelope == [msg |-> call.msg, signers |-> call.signers, offer |-> call.offer]

\* What SendTransaction answers: sendError.code # 0 is an answer of false.
SendAnswerAlwaysTrue(heard, accepted) == "sent"
SendAnswer(heard, accepted) ==
    IF ~heard THEN "lost" ELSE IF accepted THEN "sent" ELSE "refused"

\* SendCarbonTransaction reaches the node, which accepts or refuses; `heard'
\* says whether its answer reaches the caller.
Send(heard) ==
    LET known    == mempool \union {l.env : l \in ledger}
        accepted == NodeAcceptsWitnesses(call.msg, call.signers)
    IN  /\ call.pc = "send" /\ up
        /\ mempool' = IF accepted /\ Envelope \notin known
                      THEN mempool \union {Envelope} ELSE mempool
        /\ sends' = sends \union {[env |-> Envelope, call |-> call]}
        /\ Return(SendAnswer(heard, accepted))
        /\ UNCHANGED <<up, config, taken, held, ledger, calls>>

\* The node cannot be reached: nothing is sent, the caller hears an error.
SendFails ==
    /\ call.pc = "send" /\ ~up
    /\ Return("lost")
    /\ Local

----------------------------------------------------------------------------
(* The chain and everybody else.                                           *)

NodeFlips ==
    /\ up' = ~up
    /\ UNCHANGED <<chain, call, calls, sends>>

Governance ==
    /\ config < MaxConfig
    /\ config' = config + 1
    /\ UNCHANGED <<up, taken, held, mempool, ledger, call, calls, sends>>

OtherRegisters ==
    /\ ~taken
    /\ taken' = TRUE
    /\ UNCHANGED <<up, config, held, mempool, ledger, call, calls, sends>>

OtherInfuses ==
    /\ held < MaxHeld
    /\ held' = held + 1
    /\ UNCHANGED <<up, config, taken, mempool, ledger, call, calls, sends>>

Creates(msg) == msg \in {"create", "createBatch"}

\* How the chain ends an envelope: a bill above the offer aborts and is paid;
\* a creation of a taken symbol pays its policy fee and creates nothing.
Ending(env) ==
    CASE env.offer < Bill(config, IF Burns(env.msg) THEN held ELSE 0, Len(env.signers))
           -> "aborted"
      [] Creates(env.msg) /\ taken -> "feeLost"
      [] Burns(env.msg) /\ (\E l \in ledger : Burns(l.env.msg) /\ l.ending = "done")
           -> "aborted"
      [] OTHER -> "done"

Execute(env) ==
    /\ mempool' = mempool \ {env}
    /\ ledger' = ledger \union
         {[env |-> env, ending |-> Ending(env), config |-> config, held |-> held]}
    /\ taken' = (taken \/ (Creates(env.msg) /\ Ending(env) = "done"))
    /\ UNCHANGED <<up, config, held, call, calls, sends>>

----------------------------------------------------------------------------
SendTransaction ==
    \/ FirstCall \/ Retry \/ Lookup \/ ControlLookup \/ ReadInfusions \/ Plan \/ Sign
    \/ \E heard \in BOOLEAN : Send(heard)
    \/ SendFails

Environment ==
    \/ NodeFlips \/ Governance \/ OtherRegisters \/ OtherInfuses
    \/ \E env \in mempool : Execute(env)

Next == SendTransaction \/ Environment

Spec == Init /\ [][Next]_vars

----------------------------------------------------------------------------
(* Properties.                                                             *)

CallType ==
    [pc : {"idle", "lookup", "control", "infusions", "plan", "sign", "send"},
     msg : MessageKinds, signers : Seq(Signers), config : Nat,
     preflight : BOOLEAN, readInfusions : BOOLEAN, stated : Nat, control : BOOLEAN,
     given : Int, infusions : Int, planned : Nat, offer : Nat,
     takenAtLookup : BOOLEAN, answered : BOOLEAN, controlAnswered : BOOLEAN,
     outcome : {"none", "taken", "unknown", "unread", "unpriced", "unsigned",
                "lost", "sent", "refused"}]
EnvelopeType == [msg : MessageKinds, signers : Seq(Signers), offer : Nat]

\* Options, locals and the chain have their types.
TypeOK ==
    /\ up \in BOOLEAN /\ config \in Nat /\ taken \in BOOLEAN /\ held \in Nat
    /\ \A e \in mempool : e \in EnvelopeType
    /\ \A l \in ledger : l.env \in EnvelopeType
    /\ call \in CallType /\ calls \in Nat
    /\ \A s \in sends : s.env \in EnvelopeType /\ s.call \in CallType

\* A sent creation that asked for the pre-flight was not, as far as the node
\* said, a creation of a taken symbol: some lookup of that call answered, and the
\* symbol lookup did not answer with a token (Send.h, the pre-flight block).
CreationWasChecked ==
    \A s \in sends :
        (s.env.msg = "create" /\ s.call.preflight)
            => s.call.controlAnswered /\ ~(s.call.answered /\ s.call.takenAtLookup)

\* What Preflight.h says of Free: the answer is the chain's and not a broken
\* connection.  A call that passed its pre-flight had a free symbol when it
\* asked.  It fails when the connection breaks for the first lookup alone.
FreeIsTheChains ==
    (call.preflight /\ call.msg = "create" /\ call.pc \in {"infusions", "plan", "sign", "send"})
        => ~call.takenAtLookup

\* Every envelope of a type that fixes its witnesses carries the ones the chain
\* demands, so the node never refuses one for its signatures (SignAndSerialize).
FixedWitnessesAreRight ==
    \A s \in sends :
        FixesWitnesses(s.env.msg) => NodeAcceptsWitnesses(s.env.msg, s.env.signers)

\* An execution that aborts for its bill has one of the causes the caller can
\* know: prices rose after the caller read them, the instance was infused after
\* it was read, the caller stated infusions or a witness count of its own, or
\* the burn had already happened (Send.h with FeePlan.h, PlanFees).
AbortHasACause ==
    \A l \in ledger : l.ending = "aborted" =>
        \A s \in sends : s.env = l.env =>
            \/ l.config > s.call.config
            \/ Burns(s.env.msg) /\ l.held > s.call.infusions
            \/ s.call.stated # 0 /\ s.call.stated # Len(s.env.signers)
            \/ Burns(s.env.msg) /\ \E k \in ledger : Burns(k.env.msg) /\ k.ending = "done"

\* A caller that keeps its config (Send.h: "read it once and keep it") and calls
\* again after an answer that got lost has the message carried out and paid for
\* once, since the second envelope is the first; and an answer of true is about a
\* message the node holds or the chain executed, whatever was lost or retried
\* before it (Send.h, the last block).  An execution of a burn that aborts does
\* not count: its offer follows what the instance holds at each call, so its two
\* envelopes may differ, and the chain carries out one of them.
PaidOnce == INSTANCE OncePayment WITH
    reached  <- {e.msg : e \in mempool \union {l.env : l \in ledger}},
    charged  <- [m \in Messages |-> Cardinality(
                   {l \in ledger : l.env.msg = m /\ (Burns(m) => l.ending = "done")})],
    accepted <- IF call.outcome = "sent" THEN {call.msg} ELSE {}

ImplementsOncePayment == PaidOnce!Spec

----------------------------------------------------------------------------
(* The inductive invariant behind the properties.                          *)

\* What a call knows by the time it is where it is.
Checked(c) == c.controlAnswered /\ ~(c.answered /\ c.takenAtLookup)
Priced(c) ==
    /\ ~Unpriceable(c.msg, c.stated, c.signers, c.infusions)
    /\ c.planned = PlannedWitnesses(c.msg, c.stated, c.signers)
    /\ c.offer = Offer(c.msg, c.config, c.infusions, c.planned)
Good(c) ==
    /\ c \in CallType
    /\ c.given \in Nat \cup {None} /\ c.infusions \in Nat \cup {None}
    /\ c.pc # "idle" => c.outcome = "none"
    /\ c.pc = "control" => ~(c.answered /\ c.takenAtLookup)
    /\ c.pc \in {"infusions", "plan", "sign", "send"} /\ c.msg = "create" /\ c.preflight => Checked(c)
    /\ c.pc \in {"sign", "send"} => Priced(c)
    /\ c.pc = "send" => ~SignersRefused(c.msg, c.signers)

\* A retry passes what the first call passed.
SameOptions(c, d) ==
    c.msg = d.msg /\ c.signers = d.signers /\ c.config = d.config /\ c.stated = d.stated
EnvelopeOf(c) == [msg |-> c.msg, signers |-> c.signers, offer |-> c.offer]

CallInv ==
    /\ up \in BOOLEAN /\ config \in Nat /\ taken \in BOOLEAN /\ held \in Nat /\ calls \in Nat
    /\ Good(call)
    /\ calls = 0 => call = Idle /\ sends = {}
    /\ calls # 0 => call.msg \in Messages
SendsInv ==
    \A s \in sends : /\ s.call.pc = "send" /\ Good(s.call) /\ SameOptions(s.call, call)
                     /\ s.env = EnvelopeOf(s.call)

\* What is on the chain was sent, and executed at most once; why it aborted.
Pays(l) == Burns(l.env.msg) => l.ending = "done"
OverBudget(l) ==
    l.env.offer < Bill(l.config, IF Burns(l.env.msg) THEN l.held ELSE 0, Len(l.env.signers))
BurntBefore(l) == Burns(l.env.msg) /\ \E k \in ledger : Burns(k.env.msg) /\ k.ending = "done"
ChainInv ==
    /\ \A e \in mempool : \E s \in sends : s.env = e
    /\ \A l \in ledger :
         /\ \E s \in sends : s.env = l.env
         /\ l.env \notin mempool /\ l.config \in Nat /\ l.held \in Nat
         /\ l.ending = "aborted" => OverBudget(l) \/ BurntBefore(l)
    /\ \A k, l \in ledger : Pays(k) /\ Pays(l) => k = l

\* The state keeps its types, and a call knows what it asked by the time it sends:
\* what is on the chain was sent, carried out at most once, and aborted for a
\* cause (Send.h, SendTransaction).
SendInv == CallInv /\ SendsInv /\ ChainInv

=============================================================================

------------------------- MODULE CarbonSend_proofs -------------------------
(***************************************************************************)
(* What SendTransaction and its retries guarantee, for every set of        *)
(* messages, signer lists and stated counts, every price and every number  *)
(* of calls, changes of the config and infusions.                          *)
(***************************************************************************)
EXTENDS CarbonSend, FiniteSetTheorems, TLAPS

----------------------------------------------------------------------------
(* The pieces of a call.                                                   *)

LEMMA BillIsNat ==
    ASSUME NEW cfg \in Nat, NEW assets \in Nat, NEW witnesses \in Nat
    PROVE  Bill(cfg, assets, witnesses) \in Nat
<1>1. AssetCost * assets \in Nat /\ WitnessCost * witnesses \in Nat
  BY CostAssumption
<1> QED
  BY <1>1 DEF Bill

LEMMA BillGrows ==
    ASSUME NEW cfg \in Nat, NEW more \in Nat, cfg <= more,
           NEW assets \in Nat, NEW others \in Nat, assets <= others, NEW witnesses \in Nat
    PROVE  Bill(cfg, assets, witnesses) <= Bill(more, others, witnesses)
<1>1. AssetCost * assets \in Nat /\ AssetCost * others \in Nat /\ AssetCost * assets <= AssetCost * others
  BY CostAssumption
<1>2. WitnessCost * witnesses \in Nat
  BY CostAssumption
<1> QED
  BY <1>1, <1>2 DEF Bill

\* A priced call's offer and witness count are numbers.
LEMMA PricesAreNumbers ==
    ASSUME NEW msg, NEW stated \in Nat, NEW signers \in Seq(Signers), NEW cfg \in Nat,
           NEW infusions \in Nat \cup {None}
    PROVE  /\ PlannedWitnesses(msg, stated, signers) \in Nat
           /\ Offer(msg, cfg, infusions, PlannedWitnesses(msg, stated, signers)) \in Nat
<1>1. PlannedWitnesses(msg, stated, signers) \in Nat
  BY DEF PlannedWitnesses, RequiredWitnesses
<1>2. (IF Burns(msg) /\ infusions # None THEN infusions ELSE 0) \in Nat
  OBVIOUS
<1> QED
  BY <1>1, <1>2, BillIsNat DEF Offer

\* A signed call of a type that fixes its witnesses carries the chain's.
LEMMA SignedAsFixed ==
    ASSUME NEW msg, NEW signers \in Seq(Signers), FixesWitnesses(msg), ~SignersRefused(msg, signers)
    PROVE  NodeAcceptsWitnesses(msg, signers) /\ Len(signers) = RequiredWitnesses(msg)
<1>1. Len(signers) = RequiredWitnesses(msg) /\ signers[1] = "payer"
      /\ (msg = "sponsored" => signers[2] = "owner")
  BY DEF SignersRefused
<1>2. CASE msg = "sponsored"
  <2>1. Len(signers) = 2 /\ signers[1] = "payer" /\ signers[2] = "owner"
    BY <1>1, <1>2 DEF RequiredWitnesses
  <2>2. signers = <<"payer", "owner">>
    BY <2>1
  <2> QED
    BY <1>1, <1>2, <2>2 DEF NodeAcceptsWitnesses
<1>3. CASE msg # "sponsored"
  <2>1. Len(signers) = 1 /\ signers[1] = "payer"
    BY <1>1, <1>3 DEF RequiredWitnesses
  <2>2. signers = <<"payer">>
    BY <2>1
  <2> QED
    BY <1>1, <1>3, <2>2 DEF NodeAcceptsWitnesses
<1> QED
  BY <1>2, <1>3

\* The witnesses a call was priced for are the ones it carries, unless the caller
\* stated another count.
LEMMA PlannedAsSigned ==
    ASSUME NEW c, Good(c), c.pc = "send", c.stated = 0 \/ c.stated = Len(c.signers)
    PROVE  c.planned = Len(c.signers)
<1>1. c.signers \in Seq(Signers)
  BY DEF Good, CallType
<1>2. CASE FixesWitnesses(c.msg)
  BY <1>1, <1>2, SignedAsFixed DEF Good, Priced, PlannedWitnesses
<1>3. CASE ~FixesWitnesses(c.msg)
  BY <1>1, <1>3 DEF Good, Priced, PlannedWitnesses
<1> QED
  BY <1>2, <1>3

----------------------------------------------------------------------------
(* Every step keeps the invariant.                                         *)

LEMMA IdleIsGood == Good(Idle)
<1>1. <<>> \in Seq(Signers) /\ "create" \in MessageKinds /\ None \in Int
  BY DEF MessageKinds, None
<1>2. Idle \in CallType
  BY <1>1 DEF Idle, CallType
<1> QED
  BY <1>2 DEF Good, Idle

LEMMA SendInit == Init => SendInv
<1> SUFFICES ASSUME Init PROVE SendInv
  OBVIOUS
<1>1. CallInv
  BY IdleIsGood DEF Init, CallInv
<1>2. SendsInv /\ ChainInv
  BY DEF Init, SendsInv, ChainInv
<1> QED
  BY <1>1, <1>2 DEF SendInv

\* A step of the call that asks, or only computes.
LEMMA LocalKeeps ==
    ASSUME SendInv, Local, calls # 0, Good(call'), SameOptions(call', call)
    PROVE  SendInv'
<1>1. CallInv'
  BY DEF SendInv, CallInv, Local, chain, SameOptions
<1>2. SendsInv'
  BY DEF SendInv, SendsInv, Local, chain, SameOptions
<1>3. ChainInv'
  BY DEF SendInv, ChainInv, Local, chain, Pays, OverBudget, BurntBefore
<1> QED
  BY <1>1, <1>2, <1>3 DEF SendInv

LEMMA Underway == SendInv /\ call.pc # "idle" => calls # 0
  BY DEF SendInv, CallInv, Idle

LEMMA LookupKeeps == SendInv /\ Lookup => SendInv'
<1> SUFFICES ASSUME SendInv, Lookup PROVE SendInv'
  OBVIOUS
<1>1. Good(call) /\ up \in BOOLEAN /\ taken \in BOOLEAN
  BY DEF SendInv, CallInv
<1>2. Good(call') /\ SameOptions(call', call)
  BY <1>1 DEF Lookup, AfterLookup, Good, CallType, SameOptions
<1> QED
  BY <1>2, Underway, LocalKeeps DEF Lookup

LEMMA ControlLookupKeeps == SendInv /\ ControlLookup => SendInv'
<1> SUFFICES ASSUME SendInv, ControlLookup PROVE SendInv'
  OBVIOUS
<1>1. Good(call)
  BY DEF SendInv, CallInv
<1>a. \/ call' = [call EXCEPT !.pc = "infusions", !.controlAnswered = TRUE]
      \/ call' = [call EXCEPT !.pc = "idle", !.outcome = "unknown"]
  BY DEF ControlLookup, Return
<1>b. call.pc = "control"
  BY DEF ControlLookup
<1>2. Good(call') /\ SameOptions(call', call)
  <2>1. CASE call' = [call EXCEPT !.pc = "infusions", !.controlAnswered = TRUE]
    BY <1>1, <1>b, <2>1 DEF Good, CallType, SameOptions, Checked
  <2>2. CASE call' = [call EXCEPT !.pc = "idle", !.outcome = "unknown"]
    BY <1>1, <2>2 DEF Good, CallType, SameOptions
  <2> QED
    BY <1>a, <2>1, <2>2
<1> QED
  BY <1>2, Underway, LocalKeeps DEF ControlLookup

LEMMA ReadInfusionsKeeps == SendInv /\ ReadInfusions => SendInv'
<1> SUFFICES ASSUME SendInv, ReadInfusions PROVE SendInv'
  OBVIOUS
<1>1. Good(call) /\ held \in Nat
  BY DEF SendInv, CallInv
<1>a. \/ call' = [call EXCEPT !.pc = "plan"]
      \/ call' = [call EXCEPT !.pc = "plan", !.infusions = held]
      \/ call' = [call EXCEPT !.pc = "idle", !.outcome = "unread"]
  BY DEF ReadInfusions, Step, Return
<1>b. call.pc = "infusions"
  BY DEF ReadInfusions
<1>2. Good(call') /\ SameOptions(call', call)
  <2>1. CASE call' = [call EXCEPT !.pc = "plan"]
    BY <1>1, <1>b, <2>1 DEF Good, CallType, SameOptions, Checked
  <2>2. CASE call' = [call EXCEPT !.pc = "plan", !.infusions = held]
    <3>1. call \in CallType /\ held \in Int
      BY <1>1 DEF Good
    <3>2. call' \in CallType
      BY <2>2, <3>1 DEF CallType
    <3>3. /\ call'.pc = "plan" /\ call'.infusions = held
          /\ call'.given = call.given /\ call'.outcome = call.outcome /\ call'.preflight = call.preflight
          /\ Checked(call') <=> Checked(call)
          /\ SameOptions(call', call)
      BY <2>2, <3>1 DEF CallType, SameOptions, Checked
    <3> QED
      BY <1>1, <1>b, <3>2, <3>3 DEF Good, SameOptions
  <2>3. CASE call' = [call EXCEPT !.pc = "idle", !.outcome = "unread"]
    BY <1>1, <2>3 DEF Good, CallType, SameOptions
  <2> QED
    BY <1>a, <2>1, <2>2, <2>3
<1> QED
  BY <1>2, Underway, LocalKeeps DEF ReadInfusions

LEMMA PlanKeeps == SendInv /\ Plan => SendInv'
<1> SUFFICES ASSUME SendInv, Plan PROVE SendInv'
  OBVIOUS
<1>1. Good(call)
  BY DEF SendInv, CallInv
<1>2. /\ PlannedWitnesses(call.msg, call.stated, call.signers) \in Nat
      /\ Offer(call.msg, call.config, call.infusions,
               PlannedWitnesses(call.msg, call.stated, call.signers)) \in Nat
  BY <1>1, PricesAreNumbers DEF Good, CallType
<1>3. CASE Unpriceable(call.msg, call.stated, call.signers, call.infusions)
  <2>1. call' = [call EXCEPT !.pc = "idle", !.outcome = "unpriced"]
    BY <1>3 DEF Plan, Return
  <2>2. Good(call') /\ SameOptions(call', call)
    BY <1>1, <2>1 DEF Good, CallType, SameOptions, Checked
  <2> QED
    BY <2>2, Underway, LocalKeeps DEF Plan
<1>4. CASE ~Unpriceable(call.msg, call.stated, call.signers, call.infusions)
  <2> DEFINE planned == PlannedWitnesses(call.msg, call.stated, call.signers)
             offer   == Offer(call.msg, call.config, call.infusions, planned)
  <2>1. call' = [call EXCEPT !.pc = "sign", !.planned = planned, !.offer = offer]
    BY <1>4 DEF Plan
  <2>2. planned \in Nat /\ offer \in Nat
    BY <1>2
  <2>3. call'.planned = planned /\ call'.offer = offer /\ SameOptions(call', call)
        /\ call'.infusions = call.infusions
    BY <1>1, <2>1 DEF Good, CallType, SameOptions
  <2>4. Priced(call')
    BY <1>4, <2>3 DEF Priced, SameOptions
  <2> HIDE DEF planned, offer
  <2>5. Good(call')
    BY <1>1, <2>1, <2>2, <2>4 DEF Good, CallType, Checked, Plan
  <2> QED
    BY <2>3, <2>5, Underway, LocalKeeps DEF Plan
<1> QED
  BY <1>3, <1>4

LEMMA SignKeeps == SendInv /\ Sign => SendInv'
<1> SUFFICES ASSUME SendInv, Sign PROVE SendInv'
  OBVIOUS
<1>1. Good(call)
  BY DEF SendInv, CallInv
<1>a. \/ call' = [call EXCEPT !.pc = "send"] /\ ~SignersRefused(call.msg, call.signers)
      \/ call' = [call EXCEPT !.pc = "idle", !.outcome = "unsigned"]
  BY DEF Sign, Step, Return
<1>b. call.pc = "sign"
  BY DEF Sign
<1>2. Good(call') /\ SameOptions(call', call)
  <2>1. CASE call' = [call EXCEPT !.pc = "send"] /\ ~SignersRefused(call.msg, call.signers)
    BY <1>1, <1>b, <2>1 DEF Good, CallType, SameOptions, Checked, Priced
  <2>2. CASE call' = [call EXCEPT !.pc = "idle", !.outcome = "unsigned"]
    BY <1>1, <2>2 DEF Good, CallType, SameOptions
  <2> QED
    BY <1>a, <2>1, <2>2
<1> QED
  BY <1>2, Underway, LocalKeeps DEF Sign

LEMMA SendFailsKeeps == SendInv /\ SendFails => SendInv'
<1> SUFFICES ASSUME SendInv, SendFails PROVE SendInv'
  OBVIOUS
<1>1. Good(call)
  BY DEF SendInv, CallInv
<1>2. Good(call') /\ SameOptions(call', call)
  BY <1>1 DEF SendFails, Return, Good, CallType, SameOptions
<1> QED
  BY <1>2, Underway, LocalKeeps DEF SendFails

----------------------------------------------------------------------------
(* A call, its submission and the execution.                               *)

LEMMA CallKeeps ==
    ASSUME SendInv, NEW msg \in Messages, NEW signers \in Seq(Signers), NEW cfg \in Nat,
           NEW preflight \in BOOLEAN, NEW readInfusions \in BOOLEAN, NEW given \in Nat \cup {None},
           NEW stated \in Nat, NEW control \in BOOLEAN,
           Call(msg, signers, cfg, preflight, readInfusions, given, stated, control),
           \/ sends = {}
           \/ msg = call.msg /\ signers = call.signers /\ cfg = call.config /\ stated = call.stated
    PROVE  SendInv'
<1>1. Idle \in CallType
  BY IdleIsGood DEF Good
<1>2. msg \in MessageKinds /\ given \in Int
  BY MessagesAssumption DEF None
<1> DEFINE pc == IF preflight /\ HasSubject(msg) THEN "lookup" ELSE "infusions"
<1>3. call' = [Idle EXCEPT !.pc = pc, !.msg = msg, !.signers = signers, !.config = cfg,
                  !.preflight = preflight, !.readInfusions = readInfusions,
                  !.given = given, !.infusions = given, !.stated = stated, !.control = control]
  BY DEF Call
<1>4. pc \in {"lookup", "infusions"}
  OBVIOUS
<1>5. call' \in CallType
  <2> HIDE DEF pc
  <2>1. [Idle EXCEPT !.pc = pc, !.msg = msg, !.signers = signers, !.config = cfg] \in CallType
    BY <1>1, <1>2, <1>4 DEF CallType
  <2> DEFINE c == [Idle EXCEPT !.pc = pc, !.msg = msg, !.signers = signers, !.config = cfg]
             d == [c EXCEPT !.preflight = preflight, !.readInfusions = readInfusions,
                            !.given = given, !.infusions = given]
  <2>2. c \in CallType
    BY <2>1
  <2>3. call' = [d EXCEPT !.stated = stated, !.control = control]
    BY <1>3
  <2> HIDE DEF c
  <2>4. d \in CallType
    BY <1>2, <2>2 DEF CallType
  <2> HIDE DEF d
  <2> QED
    BY <2>3, <2>4 DEF CallType
<1>6. /\ call'.pc = pc /\ call'.msg = msg /\ call'.signers = signers /\ call'.config = cfg
      /\ call'.stated = stated /\ call'.given = given /\ call'.infusions = given
      /\ call'.outcome = "none" /\ call'.preflight = preflight
  <2> HIDE DEF pc
  <2> QED
    BY <1>1, <1>3 DEF CallType, Idle
<1>7. Good(call')
  BY <1>5, <1>6 DEF Good, HasSubject
<1>8. calls' = calls + 1 /\ calls \in Nat
  BY DEF Call, SendInv, CallInv
<1>9. CallInv'
  BY <1>6, <1>7, <1>8 DEF SendInv, CallInv, Call, chain
<1>10. SendsInv'
  BY <1>6 DEF SendInv, SendsInv, Call, SameOptions
<1>11. ChainInv'
  BY DEF SendInv, ChainInv, Call, chain, Pays, OverBudget, BurntBefore
<1> QED
  BY <1>9, <1>10, <1>11 DEF SendInv

LEMMA FirstCallKeeps == SendInv /\ FirstCall => SendInv'
<1> SUFFICES ASSUME SendInv, FirstCall PROVE SendInv'
  OBVIOUS
<1>1. PICK msg \in Messages, signers \in SignerLists, stated \in StatedCounts,
           preflight \in BOOLEAN, readInfusions \in BOOLEAN, control \in BOOLEAN, given \in {None, held} :
             Call(msg, signers, config, preflight, readInfusions, given, stated, control)
  BY DEF FirstCall
<1>2. signers \in Seq(Signers) /\ stated \in Nat
  BY SignersAssumption, CountsAssumption
<1>3. config \in Nat /\ given \in Nat \cup {None} /\ sends = {}
  BY DEF SendInv, CallInv, FirstCall
<1> QED
  BY <1>1, <1>2, <1>3, CallKeeps

LEMMA RetryKeeps == SendInv /\ Retry => SendInv'
<1> SUFFICES ASSUME SendInv, Retry PROVE SendInv'
  OBVIOUS
<1>1. Good(call) /\ call \in CallType
  BY DEF SendInv, CallInv, Good
<1>2. calls # 0
  BY DEF SendInv, CallInv, Retry, Idle
<1>3. call.msg \in Messages
  BY <1>2 DEF SendInv, CallInv
<1>4. /\ call.signers \in Seq(Signers) /\ call.config \in Nat /\ call.preflight \in BOOLEAN
      /\ call.readInfusions \in BOOLEAN /\ call.given \in Nat \cup {None} /\ call.stated \in Nat
      /\ call.control \in BOOLEAN
  BY <1>1 DEF Good, CallType
<1>5. PICK msg, signers, cfg, preflight, readInfusions, given, stated, control :
        /\ msg = call.msg /\ signers = call.signers /\ cfg = call.config /\ preflight = call.preflight
        /\ readInfusions = call.readInfusions /\ given = call.given /\ stated = call.stated
        /\ control = call.control
  OBVIOUS
<1>6. Call(msg, signers, cfg, preflight, readInfusions, given, stated, control)
  BY <1>5 DEF Retry, Call
<1>7. /\ msg \in Messages /\ signers \in Seq(Signers) /\ cfg \in Nat /\ preflight \in BOOLEAN
      /\ readInfusions \in BOOLEAN /\ given \in Nat \cup {None} /\ stated \in Nat /\ control \in BOOLEAN
  BY <1>3, <1>4, <1>5
<1>8. msg = call.msg /\ signers = call.signers /\ cfg = call.config /\ stated = call.stated
  BY <1>5
<1> QED
  BY <1>6, <1>7, <1>8, CallKeeps

LEMMA SendKeeps == ASSUME SendInv, NEW heard \in BOOLEAN, Send(heard) PROVE SendInv'
<1>1. Good(call) /\ call \in CallType /\ call.pc = "send" /\ calls # 0
  BY Underway DEF SendInv, CallInv, Good, Send
<1> DEFINE answer == SendAnswer(heard, NodeAcceptsWitnesses(call.msg, call.signers))
<1>2. call' = [call EXCEPT !.pc = "idle", !.outcome = answer]
  BY DEF Send, Return
<1>3. answer \in {"lost", "sent", "refused"}
  BY DEF SendAnswer
<1>4. Good(call') /\ SameOptions(call', call)
  <2> HIDE DEF answer
  <2> QED
    BY <1>1, <1>2, <1>3 DEF Good, CallType, SameOptions
<1>5. sends' = sends \cup {[env |-> EnvelopeOf(call), call |-> call]} /\ Envelope = EnvelopeOf(call)
  BY DEF Send, EnvelopeOf, Envelope
<1>6. CallInv'
  BY <1>1, <1>4 DEF SendInv, CallInv, Send, SameOptions
<1>7. SendsInv'
  BY <1>1, <1>4, <1>5 DEF SendInv, SendsInv, SameOptions
<1>8. mempool' = mempool \/ (mempool' = mempool \cup {Envelope} /\ \A l \in ledger : l.env # Envelope)
  BY DEF Send
<1>9. ChainInv'
  <2>1. \A e \in mempool' : \E s \in sends' : s.env = e
    <3>1. ASSUME NEW e \in mempool PROVE \E s \in sends' : s.env = e
      BY <1>5 DEF SendInv, ChainInv
    <3>2. \E s \in sends' : s.env = Envelope
      <4> DEFINE s == [env |-> EnvelopeOf(call), call |-> call]
      <4>1. s \in sends' /\ s.env = Envelope
        BY <1>5
      <4> QED
        BY <4>1
    <3> QED
      BY <1>8, <3>1, <3>2
  <2>2. ledger' = ledger
    BY DEF Send
  <2>3. \A l \in ledger : l.env \notin mempool'
    BY <1>8 DEF SendInv, ChainInv
  <2> QED
    BY <1>5, <2>1, <2>2, <2>3 DEF SendInv, ChainInv, Pays, OverBudget, BurntBefore
<1> QED
  BY <1>6, <1>7, <1>9 DEF SendInv

\* The sends of one message that burns nothing are of one envelope.
LEMMA OneEnvelope ==
    ASSUME SendInv, NEW s \in sends, NEW t \in sends, ~Burns(s.env.msg)
    PROVE  s.env = t.env
<1>1. /\ Good(s.call) /\ SameOptions(s.call, call) /\ s.env = EnvelopeOf(s.call) /\ s.call.pc = "send"
      /\ Good(t.call) /\ SameOptions(t.call, call) /\ t.env = EnvelopeOf(t.call) /\ t.call.pc = "send"
  BY DEF SendInv, SendsInv
<1>2. s.call.msg = t.call.msg /\ s.call.signers = t.call.signers /\ s.call.config = t.call.config
      /\ s.call.stated = t.call.stated /\ ~Burns(s.call.msg)
  BY <1>1 DEF SameOptions, EnvelopeOf
<1>3. s.call.offer = t.call.offer
  BY <1>1, <1>2 DEF Good, Priced, Offer
<1> QED
  BY <1>1, <1>2, <1>3 DEF EnvelopeOf

LEMMA ExecuteKeeps == ASSUME SendInv, NEW env \in mempool, Execute(env) PROVE SendInv'
<1> DEFINE new == [env |-> env, ending |-> Ending(env), config |-> config, held |-> held]
<1>1. /\ mempool' = mempool \ {env} /\ ledger' = ledger \cup {new}
      /\ UNCHANGED <<up, config, held, call, calls, sends>>
  BY DEF Execute
<1>2. config \in Nat /\ held \in Nat /\ taken' \in BOOLEAN
  BY DEF SendInv, CallInv, Execute
<1>3. PICK s \in sends : s.env = env
  BY DEF SendInv, ChainInv
<1>4. CallInv' /\ SendsInv'
  BY <1>1, <1>2 DEF SendInv, CallInv, SendsInv
<1>5. \A e \in mempool' : \E t \in sends' : t.env = e
  BY <1>1 DEF SendInv, ChainInv
<1>6. env \notin mempool' /\ \A l \in ledger : l.env # env /\ l.env \notin mempool'
  BY <1>1 DEF SendInv, ChainInv
<1>7. Ending(env) = "aborted" => OverBudget(new) \/ BurntBefore(new)
  BY DEF Ending, OverBudget, BurntBefore
<1>8. \A l \in ledger' : BurntBefore(l) => BurntBefore(l)'
  BY <1>1 DEF BurntBefore
<1>9. \A l \in ledger' :
         /\ \E t \in sends' : t.env = l.env
         /\ l.env \notin mempool' /\ l.config \in Nat /\ l.held \in Nat
         /\ l.ending = "aborted" => OverBudget(l) \/ BurntBefore(l)
  <2>1. ASSUME NEW l \in ledger
        PROVE /\ \E t \in sends' : t.env = l.env
              /\ l.env \notin mempool' /\ l.config \in Nat /\ l.held \in Nat
              /\ l.ending = "aborted" => OverBudget(l) \/ BurntBefore(l)
    BY <1>1, <1>6 DEF SendInv, ChainInv
  <2>2. new.env = env /\ new.config = config /\ new.held = held /\ new.ending = Ending(env)
    OBVIOUS
  <2> HIDE DEF new
  <2> QED
    BY <1>1, <1>2, <1>3, <1>6, <1>7, <2>1, <2>2
<1>10. ASSUME NEW l \in ledger, Pays(l), Pays(new) PROVE FALSE
  <2>1. PICK t \in sends : t.env = l.env
    BY <1>10 DEF SendInv, ChainInv
  <2>2. CASE Burns(env.msg)
    <3>1. Ending(env) = "done"
      BY <1>10, <2>2 DEF Pays
    <3>2. Burns(l.env.msg)
      <4>1. ASSUME NEW u \in sends PROVE u.env.msg = call.msg
        <5>1. u.env = EnvelopeOf(u.call) /\ SameOptions(u.call, call)
          BY DEF SendInv, SendsInv
        <5> QED
          BY <5>1 DEF SameOptions, EnvelopeOf
      <4> QED
        BY <1>3, <2>1, <2>2, <4>1
    <3>3. l.ending = "done"
      BY <1>10, <3>2 DEF Pays
    <3> QED
      BY <2>2, <3>1, <3>2, <3>3, <1>10 DEF Ending, Creates, Burns
  <2>3. CASE ~Burns(env.msg)
    BY <1>3, <1>6, <2>1, <2>3, OneEnvelope
  <2> QED
    BY <2>2, <2>3
<1>11. \A k, l \in ledger' : Pays(k) /\ Pays(l) => k = l
  <2> HIDE DEF new
  <2> QED
    BY <1>1, <1>10 DEF SendInv, ChainInv
<1>12. ChainInv'
  BY <1>5, <1>8, <1>9, <1>11 DEF ChainInv, OverBudget, Pays
<1> QED
  BY <1>4, <1>12 DEF SendInv

LEMMA EnvironmentKeeps == SendInv /\ Environment => SendInv'
<1> SUFFICES ASSUME SendInv, Environment PROVE SendInv'
  OBVIOUS
<1>1. CASE \E env \in mempool : Execute(env)
  BY <1>1, ExecuteKeeps
<1>2. CASE NodeFlips
  BY <1>2 DEF SendInv, CallInv, SendsInv, ChainInv, NodeFlips, chain, Pays, OverBudget, BurntBefore
<1>3. CASE Governance
  BY <1>3 DEF SendInv, CallInv, SendsInv, ChainInv, Governance, Pays, OverBudget, BurntBefore
<1>4. CASE OtherRegisters
  BY <1>4 DEF SendInv, CallInv, SendsInv, ChainInv, OtherRegisters, Pays, OverBudget, BurntBefore
<1>5. CASE OtherInfuses
  BY <1>5 DEF SendInv, CallInv, SendsInv, ChainInv, OtherInfuses, Pays, OverBudget, BurntBefore
<1> QED
  BY <1>1, <1>2, <1>3, <1>4, <1>5 DEF Environment

LEMMA SendNext == SendInv /\ [Next]_vars => SendInv'
<1> SUFFICES ASSUME SendInv, [Next]_vars PROVE SendInv'
  OBVIOUS
<1>1. CASE SendTransaction
  BY <1>1, FirstCallKeeps, RetryKeeps, LookupKeeps, ControlLookupKeeps, ReadInfusionsKeeps,
     PlanKeeps, SignKeeps, SendKeeps, SendFailsKeeps DEF SendTransaction
<1>2. CASE Environment
  BY <1>2, EnvironmentKeeps
<1>3. CASE UNCHANGED vars
  BY <1>3 DEF vars, chain, SendInv, CallInv, SendsInv, ChainInv, Pays, OverBudget, BurntBefore
<1> QED
  BY <1>1, <1>2, <1>3 DEF Next

----------------------------------------------------------------------------
(* What follows from it.                                                   *)

\* The invariant the others rest on: what every call knows at each of its steps,
\* that every send repeats the options of the first call, and that the chain holds
\* and has executed only what was sent, each envelope once (SendTransaction).
THEOREM SendInvariant == Spec => []SendInv
<1> QED
  BY SendInit, SendNext, PTL DEF Spec

LEMMA EnvelopeIsTyped ==
    ASSUME SendInv, NEW s \in sends
    PROVE  s.env \in EnvelopeType /\ s.call \in CallType
<1>1. s.call \in CallType /\ s.env = EnvelopeOf(s.call)
  BY DEF SendInv, SendsInv, Good
<1> QED
  BY <1>1 DEF EnvelopeOf, EnvelopeType, CallType

\* Options, locals, offers and what the chain holds have their types: no offer and
\* no witness count is ever negative or absent (Send.h, SendTransaction).
THEOREM SendTypeOK == Spec => []TypeOK
<1>1. SendInv => TypeOK
  <2> SUFFICES ASSUME SendInv PROVE TypeOK
    OBVIOUS
  <2>1. up \in BOOLEAN /\ config \in Nat /\ taken \in BOOLEAN /\ held \in Nat /\ call \in CallType /\ calls \in Nat
    BY DEF SendInv, CallInv, Good
  <2>2. \A e \in mempool : e \in EnvelopeType
    BY EnvelopeIsTyped DEF SendInv, ChainInv
  <2>3. \A l \in ledger : l.env \in EnvelopeType
    BY EnvelopeIsTyped DEF SendInv, ChainInv
  <2> QED
    BY <2>1, <2>2, <2>3, EnvelopeIsTyped DEF TypeOK
<1> QED
  BY <1>1, SendInvariant, PTL

\* A creation that asked for its pre-flight is sent only after a lookup of that
\* call answered, and never after it answered with a token (Send.h, the
\* pre-flight block; Preflight.h, PreflightTransaction).
THEOREM CreationsAreChecked == Spec => []CreationWasChecked
<1>1. SendInv => CreationWasChecked
  <2> SUFFICES ASSUME SendInv, NEW s \in sends, s.env.msg = "create", s.call.preflight
               PROVE  Checked(s.call)
    BY DEF CreationWasChecked, Checked
  <2>1. s.env = EnvelopeOf(s.call) /\ Good(s.call) /\ s.call.pc = "send"
    BY DEF SendInv, SendsInv
  <2>2. s.call.msg = "create"
    BY <2>1 DEF EnvelopeOf
  <2> QED
    BY <2>1, <2>2 DEF Good
<1> QED
  BY <1>1, SendInvariant, PTL

\* No envelope of a type that fixes its witnesses is sent with others than those
\* the chain demands (SignAndSerialize).
THEOREM FixedWitnesses == Spec => []FixedWitnessesAreRight
<1>1. SendInv => FixedWitnessesAreRight
  <2> SUFFICES ASSUME SendInv, NEW s \in sends, FixesWitnesses(s.env.msg)
               PROVE  NodeAcceptsWitnesses(s.env.msg, s.env.signers)
    BY DEF FixedWitnessesAreRight
  <2>1. s.env = EnvelopeOf(s.call) /\ Good(s.call) /\ s.call.pc = "send"
    BY DEF SendInv, SendsInv
  <2>2. s.env.msg = s.call.msg /\ s.env.signers = s.call.signers /\ s.call.signers \in Seq(Signers)
    BY <2>1 DEF EnvelopeOf, Good, CallType
  <2>3. ~SignersRefused(s.call.msg, s.call.signers)
    BY <2>1 DEF Good
  <2> QED
    BY <2>2, <2>3, SignedAsFixed
<1> QED
  BY <1>1, SendInvariant, PTL

\* An execution aborts only for what the caller can know of: a price that rose or
\* an asset that came after the reads, a count it stated, a burn already done
\* (Send.h with PlanFees).
THEOREM AbortsHaveACause == Spec => []AbortHasACause
<1>1. SendInv => AbortHasACause
  <2> SUFFICES ASSUME SendInv, NEW l \in ledger, l.ending = "aborted", NEW s \in sends, s.env = l.env
               PROVE  \/ l.config > s.call.config
                      \/ Burns(s.env.msg) /\ l.held > s.call.infusions
                      \/ s.call.stated # 0 /\ s.call.stated # Len(s.env.signers)
                      \/ Burns(s.env.msg) /\ \E k \in ledger : Burns(k.env.msg) /\ k.ending = "done"
    BY DEF AbortHasACause
  <2>1. CASE BurntBefore(l)
    BY <2>1 DEF BurntBefore
  <2>2. CASE OverBudget(l)
    <3> SUFFICES ASSUME l.config <= s.call.config, Burns(s.env.msg) => l.held <= s.call.infusions,
                        s.call.stated = 0 \/ s.call.stated = Len(s.env.signers)
                 PROVE  FALSE
      <4>1. l.config \in Nat /\ l.held \in Nat /\ s.call.config \in Nat /\ s.call.infusions \in Int
        BY EnvelopeIsTyped DEF SendInv, ChainInv, CallType
      <4> QED
        BY <4>1
    <3>1. Good(s.call) /\ s.call.pc = "send" /\ s.env = EnvelopeOf(s.call) /\ Priced(s.call)
      BY DEF SendInv, SendsInv, Good
    <3>2. /\ s.env.msg = s.call.msg /\ s.env.signers = s.call.signers /\ s.env.offer = s.call.offer
          /\ s.call.signers \in Seq(Signers) /\ s.call.config \in Nat
          /\ s.call.infusions \in Nat \cup {None}
      BY <3>1 DEF EnvelopeOf, Good, CallType
    <3>3. s.call.planned = Len(s.call.signers) /\ s.call.planned \in Nat
      BY <3>1, <3>2, PlannedAsSigned
    <3> DEFINE assets == IF Burns(s.call.msg) THEN s.call.infusions ELSE 0
               heldThen == IF Burns(s.call.msg) THEN l.held ELSE 0
    <3>4. Burns(s.call.msg) => s.call.infusions # None
      BY <3>1 DEF Priced, Unpriceable
    <3>5. assets \in Nat /\ heldThen \in Nat /\ heldThen <= assets /\ l.config \in Nat
      BY <3>2, <3>4 DEF SendInv, ChainInv
    <3>6. s.call.offer = Bill(s.call.config, assets, s.call.planned)
      BY <3>1, <3>4 DEF Priced, Offer
    <3>7. s.call.offer < Bill(l.config, heldThen, s.call.planned)
      BY <2>2, <3>2, <3>3 DEF OverBudget
    <3> HIDE DEF assets, heldThen
    <3>8. /\ Bill(l.config, heldThen, s.call.planned) <= Bill(s.call.config, assets, s.call.planned)
          /\ Bill(l.config, heldThen, s.call.planned) \in Nat /\ Bill(s.call.config, assets, s.call.planned) \in Nat
      BY <3>2, <3>3, <3>5, BillGrows, BillIsNat
    <3> QED
      BY <3>6, <3>7, <3>8
  <2> QED
    BY <2>1, <2>2 DEF SendInv, ChainInv
<1> QED
  BY <1>1, SendInvariant, PTL

----------------------------------------------------------------------------
(* The payment is made once.                                               *)

LEMMA PaymentStarts == Init => PaidOnce!Init
<1> SUFFICES ASSUME Init PROVE PaidOnce!Init
  OBVIOUS
<1>1. mempool = {} /\ ledger = {} /\ call.outcome # "sent"
  BY DEF Init, Idle
<1>2. \A m \in Messages : {l \in ledger : l.env.msg = m /\ (Burns(m) => l.ending = "done")} = {}
  BY <1>1
<1>3. Cardinality({}) = 0
  BY FS_EmptySet
<1> QED
  BY <1>1, <1>2, <1>3 DEF PaidOnce!Init

\* Each of the chain's messages is one of this instance.
LEMMA ReachedAreMessages == SendInv => \A e \in mempool \cup {l.env : l \in ledger} : e.msg = call.msg /\ call.msg \in Messages
<1> SUFFICES ASSUME SendInv, NEW e \in mempool \cup {l.env : l \in ledger} PROVE e.msg = call.msg /\ call.msg \in Messages
  OBVIOUS
<1>1. PICK s \in sends : s.env = e
  BY DEF SendInv, ChainInv
<1>2. s.env = EnvelopeOf(s.call) /\ SameOptions(s.call, call)
  BY <1>1 DEF SendInv, SendsInv
<1>3. calls # 0
  BY <1>1 DEF SendInv, CallInv
<1> QED
  BY <1>1, <1>2, <1>3 DEF EnvelopeOf, SameOptions, SendInv, CallInv

\* A step that neither sends nor executes is a call that reached nothing.
LEMMA QuietSteps ==
    ASSUME UNCHANGED <<mempool, ledger>>, call'.msg \in Messages,
           call'.outcome # "sent"
    PROVE  PaidOnce!Next
<1>1. PICK m \in Messages : m = call'.msg
  OBVIOUS
<1>2. PaidOnce!Call(m)
  BY <1>1 DEF PaidOnce!Call
<1> QED
  BY <1>2 DEF PaidOnce!Next

\* Until its submission a call is answered with something else than true.
LEMMA NothingIsSentBefore ==
    ASSUME SendInv, SendInv',
           FirstCall \/ Retry \/ Lookup \/ ControlLookup \/ ReadInfusions \/ Plan \/ Sign \/ SendFails
    PROVE  PaidOnce!Next
<1>1. CASE FirstCall \/ Retry
  <2>1. \E msg, signers, cfg, preflight, readInfusions, given, stated, control :
          Call(msg, signers, cfg, preflight, readInfusions, given, stated, control)
    BY <1>1 DEF FirstCall, Retry
  <2>2. UNCHANGED <<mempool, ledger>> /\ calls' = calls + 1 /\ call'.outcome = "none" /\ calls \in Nat
    BY <2>1 DEF Call, chain, Idle, SendInv, CallInv
  <2>3. call'.msg \in Messages
    BY <2>2 DEF SendInv, CallInv
  <2> QED
    BY <2>2, <2>3, QuietSteps
<1>2. CASE Lookup \/ ControlLookup \/ ReadInfusions \/ Plan \/ Sign \/ SendFails
  <2>1. call.pc # "idle" /\ UNCHANGED <<mempool, ledger, calls>>
    BY <1>2 DEF Lookup, ControlLookup, ReadInfusions, Plan, Sign, SendFails, Local, chain
  <2>2. call.outcome = "none" /\ calls # 0 /\ call \in CallType
    BY <2>1, Underway DEF SendInv, CallInv, Good
  <2>3. call'.msg \in Messages
    BY <2>1, <2>2 DEF SendInv, CallInv
  <2>4. call'.outcome # "sent"
    BY <1>2, <2>2 DEF Lookup, AfterLookup, ControlLookup, ReadInfusions, Plan, Sign, SendFails, Step, Return, CallType
  <2> QED
    BY <2>1, <2>3, <2>4, QuietSteps
<1> QED
  BY <1>1, <1>2

LEMMA SendIsACall ==
    ASSUME SendInv, NEW heard \in BOOLEAN, Send(heard)
    PROVE  PaidOnce!Next
<1>1. /\ call.pc = "send" /\ call \in CallType /\ calls # 0 /\ ledger' = ledger
  BY Underway DEF Send, SendInv, CallInv, Good
<1>2. PICK m \in Messages : m = call.msg
  BY <1>1 DEF SendInv, CallInv
<1> DEFINE accepted == NodeAcceptsWitnesses(call.msg, call.signers)
           known    == mempool \cup {l.env : l \in ledger}
           before   == {e.msg : e \in mempool \cup {l.env : l \in ledger}}
           after    == {e.msg : e \in mempool' \cup {l.env : l \in ledger}}
<1>3. Envelope.msg = m
  BY <1>2 DEF Envelope
<1>4. mempool' = IF accepted /\ Envelope \notin known THEN mempool \cup {Envelope} ELSE mempool
  BY DEF Send
<1>5. after = before \/ after = before \cup {m}
  <2> HIDE DEF accepted
  <2> QED
    BY <1>3, <1>4
<1>6. accepted => m \in after
  <2>1. accepted => Envelope \in mempool' \cup {l.env : l \in ledger}
    <3> HIDE DEF accepted
    <3> QED
      BY <1>4
  <2> QED
    BY <1>3, <2>1
<1>7. call' = [call EXCEPT !.pc = "idle", !.outcome = SendAnswer(heard, accepted)]
  BY DEF Send, Return
<1>8. call'.msg = m /\ (call'.outcome = "sent" => accepted)
  <2> HIDE DEF accepted
  <2> QED
    BY <1>1, <1>2, <1>7 DEF CallType, SendAnswer
<1>9. (IF call'.outcome = "sent" THEN {call'.msg} ELSE {}) \in {{}, {m} \cap after}
  <2> HIDE DEF accepted, after
  <2> QED
    BY <1>6, <1>8
<1>10. PaidOnce!Call(m)
  <2> HIDE DEF accepted
  <2> QED
    BY <1>1, <1>5, <1>9 DEF PaidOnce!Call
<1> QED
  BY <1>10 DEF PaidOnce!Next

LEMMA ExecutionIsCarriedOut ==
    ASSUME SendInv, SendInv', NEW env \in mempool, Execute(env)
    PROVE  [PaidOnce!Next]_PaidOnce!payment
<1> DEFINE new == [env |-> env, ending |-> Ending(env), config |-> config, held |-> held]
           PaidFor(m) == {l \in ledger : l.env.msg = m /\ (Burns(m) => l.ending = "done")}
           PaidAfter(m) == {l \in ledger' : l.env.msg = m /\ (Burns(m) => l.ending = "done")}
<1>1. mempool' = mempool \ {env} /\ ledger' = ledger \cup {new} /\ UNCHANGED <<call, calls, sends>>
  BY DEF Execute
<1>2. PICK m \in Messages : m = env.msg
  BY ReachedAreMessages
<1>3. new.env = env /\ new.ending = Ending(env)
  OBVIOUS
<1> HIDE DEF new
<1>4. mempool' \cup {l.env : l \in ledger'} = mempool \cup {l.env : l \in ledger}
  <2>1. {l.env : l \in ledger'} = {l.env : l \in ledger} \cup {env}
    <3>1. \A l \in ledger' : l.env \in {k.env : k \in ledger} \cup {env}
      BY <1>1, <1>3
    <3>2. \A l \in ledger : l.env \in {k.env : k \in ledger'}
      BY <1>1
    <3>3. env \in {k.env : k \in ledger'}
      BY <1>1, <1>3
    <3> QED
      BY <3>1, <3>2, <3>3
  <2> QED
    BY <1>1, <2>1
<1>5. \A n \in Messages : n # m => PaidAfter(n) = PaidFor(n)
  BY <1>1, <1>2, <1>3
<1>6. CASE Pays(new)
  <2>1. new \notin ledger
    BY <1>3 DEF SendInv, ChainInv
  <2>2. PaidFor(m) = {}
    <3> SUFFICES ASSUME NEW l \in PaidFor(m) PROVE FALSE
      OBVIOUS
    <3>1. l \in ledger' /\ new \in ledger' /\ Pays(l)
      BY <1>1, <1>2, <1>6 DEF Pays
    <3>2. l = new
      BY <1>6, <3>1 DEF SendInv, ChainInv, Pays
    <3> QED
      BY <2>1, <3>2
  <2>3. PaidAfter(m) = {new}
    BY <1>1, <1>2, <1>3, <1>6, <2>2 DEF Pays
  <2>4. Cardinality(PaidFor(m)) = 0 /\ Cardinality(PaidAfter(m)) = 1
    BY <2>2, <2>3, FS_EmptySet, FS_Singleton
  <2>5. [n \in Messages |-> Cardinality(PaidAfter(n))]
          = [[n \in Messages |-> Cardinality(PaidFor(n))] EXCEPT ![m] = 1]
    BY <1>5, <2>4
  <2>6. m \in {e.msg : e \in mempool \cup {l.env : l \in ledger}}
    BY <1>2
  <2>7. PaidOnce!CarryOut(m)
    BY <1>1, <1>4, <2>4, <2>5, <2>6 DEF PaidOnce!CarryOut
  <2> QED
    BY <2>7 DEF PaidOnce!Next
<1>7. CASE ~Pays(new)
  <2>1. PaidAfter(m) = PaidFor(m)
    BY <1>1, <1>2, <1>3, <1>7 DEF Pays
  <2>2. [n \in Messages |-> Cardinality(PaidAfter(n))] = [n \in Messages |-> Cardinality(PaidFor(n))]
    BY <1>5, <2>1
  <2> QED
    BY <1>1, <1>4, <2>2 DEF PaidOnce!payment
<1> QED
  BY <1>6, <1>7

LEMMA PaymentSteps ==
    SendInv /\ SendInv' /\ [Next]_vars => [PaidOnce!Next]_PaidOnce!payment
<1> SUFFICES ASSUME SendInv, SendInv', [Next]_vars PROVE [PaidOnce!Next]_PaidOnce!payment
  OBVIOUS
<1>1. CASE SendTransaction
  BY <1>1, NothingIsSentBefore, SendIsACall DEF SendTransaction
<1>2. CASE \E env \in mempool : Execute(env)
  BY <1>2, ExecutionIsCarriedOut
<1>3. CASE NodeFlips \/ Governance \/ OtherRegisters \/ OtherInfuses \/ UNCHANGED vars
  <2>1. UNCHANGED <<mempool, ledger, call>>
    BY <1>3 DEF NodeFlips, Governance, OtherRegisters, OtherInfuses, vars, chain
  <2> QED
    BY <2>1 DEF PaidOnce!payment
<1> QED
  BY <1>1, <1>2, <1>3 DEF Next, Environment

\* A caller that keeps its config and calls again has its message carried out and
\* paid for once, and an answer of true is about a message that reached the
\* network: SendTransaction with its retries implements OncePayment.
THEOREM PaymentIsMadeOnce == Spec => ImplementsOncePayment
<1> QED
  BY PaymentStarts, PaymentSteps, SendInvariant, PTL DEF Spec, ImplementsOncePayment, PaidOnce!Spec

============================================================================

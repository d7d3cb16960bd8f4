------------------------------ MODULE FeePlan ------------------------------
(***************************************************************************)
(* PlanFees (include/Carbon/FeePlan.h) over the calculator's operation     *)
(* models (include/Carbon/FeeEstimator.h): a message of one operation, or  *)
(* a Call_Multi of several, is described call by call, the operations'     *)
(* models are added up and the totals are settled once into the offer.     *)
(*                                                                         *)
(* Three totals grow together: `plan' at the facts the caller stated (or   *)
(* left at their defaults), `cheap' with every fact at its cheaper reading *)
(* (AssumptionsMattered), and `chain', what the chain counts while it runs *)
(* the same calls.  The chain's part is external: it follows the formulas  *)
(* the calculator mirrors, at the facts that hold when each call runs, and *)
(* it scales each charge as it is made.                                    *)
(*                                                                         *)
(* Work is kept as numbers of transfer and query charges; the rows of the  *)
(* instances of a mint as their sum of quanta; a token id as whether it is *)
(* the gas or data token, whose rows are free.                             *)
(***************************************************************************)
EXTENDS FeeMath

CONSTANTS
    V2,                                \* HasGasModelV2
    gasFeeTransfer, gasFeeQuery, feeMultiplier, feeShift, gasFeePerByte,
    minimumGasBill, minimumGasOffer, dataEscrowPerRow,
    priceBase, priceSymbol, priceSeries, priceName, maxSymbolLength, maxNameLength,
    UnitsPerByte,                      \* GasModelV2UnitsPerBlockDataByte
    EnvelopeSize,                      \* bytes of the signed message
    ScriptUnits, ScriptEvents, ScriptRows,   \* the script allowance
    Statements,                        \* which facts callers state
    Counts, Rows, Lengths,             \* inputs: instances, row quanta, symbols
    MaxCalls, MaxReturned              \* bounds: calls of a batch, infused assets

\* The facts a message does not carry.  TRUE is the reading that costs more and
\* the default; a caller that states one states the cheaper reading.
FactNames == {"recipientHoldsToken", "bigFungible", "tokenBurnedBefore",
              "supplyRowExists", "duplicatedSeries", "romHasMetaId", "seriesHasMetaId"}
Facts == [FactNames -> BOOLEAN]

CheapestForgetsSeries == [n \in FactNames |-> n = "duplicatedSeries"]
Cheapest == [n \in FactNames |-> FALSE]

ASSUME ConfigAssumption ==
    /\ V2 \in BOOLEAN
    /\ {gasFeeTransfer, gasFeeQuery, feeMultiplier, gasFeePerByte, minimumGasBill,
        minimumGasOffer, dataEscrowPerRow, priceBase, priceSymbol, priceSeries,
        priceName, UnitsPerByte, ScriptUnits} \subseteq U64
    /\ {feeShift, maxSymbolLength, maxNameLength, ScriptEvents, ScriptRows, MaxCalls, MaxReturned} \subseteq Nat
    /\ EnvelopeSize \in Nat \ {0}
    /\ 2 ^ feeShift \in Nat \ {0}
ASSUME InputsAssumption ==
    /\ Statements \subseteq Facts
    /\ Counts \subseteq Nat /\ Rows \subseteq Nat /\ Lengths \subseteq Nat

VARIABLES
    options,        \* FeePlanOptions: the facts, and whether the infusions were read
    batched,        \* the message is a Call_Multi
    phase,          \* where PlanFees is
    plan, cheap, chain,
    calls,          \* calls described so far
    returned,       \* infused assets counted so far
    takeInfusions,  \* no burn of this message has taken the list yet
    burned, others, \* history: an NFT burn, an operation of another kind, is in it
    budgeted        \* some part is of kind Script

vars == <<options, batched, phase, plan, cheap, chain, calls, returned,
          takeInfusions, burned, others, budgeted>>

----------------------------------------------------------------------------
(* OperationModel and the models of the operations.                        *)

Model(transfers, queries, units, policy, result, new, deleted) ==
    [transfers |-> transfers, queries |-> queries, units |-> units, policy |-> policy,
     result |-> result, new |-> new, deleted |-> deleted]

\* AddOperation
Sum(m, n) ==
    Model(m.transfers + n.transfers, m.queries + n.queries, m.units + n.units,
          m.policy + n.policy, m.result + n.result, m.new + n.new, m.deleted + n.deleted)

Nothing == Model(0, 0, 0, 0, 0, 0, 0)
One(b)  == IF b THEN 1 ELSE 0

RecipientRow(f, free) == One(f["recipientHoldsToken"] /\ ~free)
BurntRow(f, free)     == One(f["tokenBurnedBefore"] /\ ~free)
SupplyRow(f, free)    == One(f["supplyRowExists"] /\ ~free)
BalanceBytes(f)       == IF f["bigFungible"] THEN 33 ELSE 9

TransferFungible(f, free, toNft) ==
    Model(1, One(toNft), 0, 0, 0, RecipientRow(f, free), 0)
TransferNonFungible(f, count, toNft) ==
    Model(count, One(toNft), 0, 0, 0, count + RecipientRow(f, FALSE), count)
MintFungible(f, free, toNft) ==
    Model(1, One(toNft), 0, 0, BalanceBytes(f), RecipientRow(f, free) + SupplyRow(f, free), 0)
BurnFungible(f, free) ==
    Model(1, 0, 0, 0, BalanceBytes(f), BurntRow(f, free) + SupplyRow(f, free), 0)

\* rows: the quanta of the instance rows and of the RAM rows, at least count.
MintNonFungible(f, count, rows, toNft) ==
    Model(count, One(toNft), 0, 0, 4 + 8 * count,
          RecipientRow(f, FALSE) + SupplyRow(f, FALSE) + rows
            + (IF f["romHasMetaId"] THEN 3 ELSE 2) * count, 0)
MintPhantasmaNonFungible(f, count, rows, series, toNft) ==
    Model(count,
          (IF f["duplicatedSeries"] THEN 3 * count + series ELSE 2 * count) + One(toNft), 0, 0,
          4 + 40 * count, RecipientRow(f, FALSE) + SupplyRow(f, FALSE) + rows + 3 * count, 0)

\* rows: the quanta of the rows that stored the instances; the plan does not
\* know them and takes one each.
BurnNonFungible(f, count, rows) ==
    Model(count, 2 * count, 0, 0, 0, BurntRow(f, FALSE) + SupplyRow(f, FALSE),
          rows + (IF f["romHasMetaId"] THEN 3 ELSE 2) * count)

\* ReturnedAssets, one asset: `holds' is burnerHoldsToken.
ReturnedAsset(nonFungible, instances, free, holds) ==
    IF nonFungible
    THEN Model(instances, 2, 0, 0, 0, One(~holds /\ ~free) + instances, 1 + instances)
    ELSE Model(1, 1, 0, 0, 0, One(~holds /\ ~free), One(~free))

\* A product price is a policy fee under v2 and work under v1.
Priced(price, queries, result, new) ==
    Model(0, queries, IF V2 THEN 0 ELSE price, IF V2 THEN price ELSE 0, result, new, 0)
ShiftedPrice(price, length, max) == price \div 2 ^ SymbolShift(length, max)

CreateToken(length, queries, rows) ==
    Priced(priceBase + (IF length > 0 THEN ShiftedPrice(priceSymbol, length, maxSymbolLength) ELSE 0),
           queries, 8, One(length > 0) + rows + 1)
CreateTokenSeries(f, rows) ==
    Priced(priceSeries, 0, 4, rows + 1 + One(f["seriesHasMetaId"]))
RegisterName(length) == Priced(ShiftedPrice(priceName, length, maxNameLength), 0, 0, 0)
Script               == Model(0, 0, ScriptUnits, 0, ScriptEvents, ScriptRows, 0)

----------------------------------------------------------------------------
(* Settle.                                                                 *)

Clamped(n)  == IF n > kU64Max THEN kU64Max ELSE n
Scaled(n)   == MulShift(n, feeMultiplier, feeShift)
WorkUnits(m) ==
    SaturatingAdd(SaturatingAdd(SaturatingMul(gasFeeTransfer, m.transfers),
                                SaturatingMul(gasFeeQuery, m.queries)), Clamped(m.units))

\* Only the net growth of paid storage is block data.
NetQuanta(m) == IF m.new > m.deleted THEN m.new - m.deleted ELSE 0

BlockData(m) == (IF V2 THEN EnvelopeSize ELSE 0) + NetQuanta(m) + m.result

ExpectedGasBill(m) ==
    IF V2
    THEN LET bill == SaturatingAdd(Scaled(SaturatingAdd(WorkUnits(m),
                                       SaturatingMul(BlockData(m), UnitsPerByte))),
                                   Clamped(m.policy))
         IN  IF bill < minimumGasBill THEN minimumGasBill ELSE bill
    ELSE SaturatingAdd(Scaled(WorkUnits(m)), SaturatingMul(BlockData(m), gasFeePerByte))

MaxGas(m) ==
    IF V2
    THEN IF ExpectedGasBill(m) < minimumGasOffer THEN minimumGasOffer ELSE ExpectedGasBill(m)
    ELSE SaturatingAdd(SaturatingAdd(SaturatingMul(minimumGasOffer, 2), Scaled(WorkUnits(m))),
                       SaturatingMul(IF BlockData(m) > 1024 THEN BlockData(m) ELSE 1024,
                                     gasFeePerByte))

MaxDataNet(m) == SaturatingMul(NetQuanta(m), dataEscrowPerRow)
MaxData(m) == SaturatingMul(m.new, dataEscrowPerRow)

\* What the chain bills for what it counted: each charge scaled on its own.
ChainBill(m) ==
    LET work == SaturatingMul(m.transfers, Scaled(gasFeeTransfer))
                + SaturatingMul(m.queries, Scaled(gasFeeQuery)) + Scaled(Clamped(m.units))
        bill == work + Scaled(SaturatingMul(BlockData(m), UnitsPerByte)) + m.policy
    IN  IF V2 THEN Clamped(IF bill < minimumGasBill THEN minimumGasBill ELSE bill)
        ELSE Clamped(work + SaturatingMul(BlockData(m), gasFeePerByte))

\* !AssumptionsMattered, and no part budgeted: FeePlan::exact.
Exact ==
    /\ ~budgeted
    /\ ExpectedGasBill(cheap) = ExpectedGasBill(plan)
    /\ MaxGas(cheap) = MaxGas(plan)
    /\ MaxData(cheap) = MaxData(plan)

----------------------------------------------------------------------------
(* Describe, call by call.                                                 *)

Init ==
    /\ \E stated \in Statements, read \in BOOLEAN :
          options = [stated |-> stated, infusionsRead |-> read]
    /\ batched \in BOOLEAN
    /\ phase = "calls"
    /\ plan = Nothing /\ cheap = Nothing /\ chain = Nothing
    /\ calls = 0 /\ returned = 0
    /\ takeInfusions = TRUE
    /\ burned = FALSE /\ others = FALSE /\ budgeted = FALSE

\* The facts the plan is computed from: what the caller stated, else the default.
StateFactsUnique == [options.stated EXCEPT !["duplicatedSeries"] = FALSE]
StateFacts == options.stated

\* The facts that hold when a call runs, of those its model reads: a stated fact
\* is true, any other may have either reading.
ActualFacts(names) ==
    {[n \in FactNames |-> n \in costly] : costly \in SUBSET {n \in names : options.stated[n]}}

Add(planned, cheaper, actual) ==
    /\ plan'  = Sum(plan, planned)
    /\ cheap' = Sum(cheap, cheaper)
    /\ chain' = Sum(chain, actual)

\* One more call of the batch, or the message itself.
Room == phase = "calls" /\ calls < (IF batched THEN MaxCalls ELSE 1)
Describe(planned, cheaper, actual) ==
    /\ Room
    /\ calls' = calls + 1
    /\ Add(planned, cheaper, actual)
    /\ others' = TRUE
    /\ UNCHANGED <<options, batched, phase, returned, takeInfusions, burned, budgeted>>

\* PlanFees answers false.
Refuse ==
    /\ phase' = "refused"
    /\ UNCHANGED <<options, batched, plan, cheap, chain, calls, returned,
                   takeInfusions, burned, others, budgeted>>

HolderFacts == {"recipientHoldsToken"}
MintFacts   == {"recipientHoldsToken", "supplyRowExists", "bigFungible", "romHasMetaId",
                "duplicatedSeries"}
BurnFacts   == {"tokenBurnedBefore", "supplyRowExists", "bigFungible", "romHasMetaId"}
SeriesFacts == {"seriesHasMetaId"}

DescribeTransferFungible ==
    \E free, toNft \in BOOLEAN, f \in ActualFacts(HolderFacts) :
        Describe(TransferFungible(StateFacts, free, toNft),
                 TransferFungible(Cheapest, free, toNft), TransferFungible(f, free, toNft))

DescribeTransferNonFungible ==
    \E count \in Counts \ {0}, toNft \in BOOLEAN, f \in ActualFacts(HolderFacts) :
        Describe(TransferNonFungible(StateFacts, count, toNft),
                 TransferNonFungible(Cheapest, count, toNft),
                 TransferNonFungible(f, count, toNft))

DescribeMintFungible == \E free, toNft \in BOOLEAN, f \in ActualFacts(MintFacts) :
    Describe(MintFungible(StateFacts, free, toNft),
             MintFungible(Cheapest, free, toNft), MintFungible(f, free, toNft))

DescribeBurnFungible == \E free \in BOOLEAN, f \in ActualFacts(BurnFacts) :
    Describe(BurnFungible(StateFacts, free), BurnFungible(Cheapest, free), BurnFungible(f, free))

\* Only as a transaction type of its own; inside a call it is budgeted.
DescribeMintNonFungible == \E rows \in Rows, toNft \in BOOLEAN, f \in ActualFacts(MintFacts) :
    /\ ~batched
    /\ Describe(MintNonFungible(StateFacts, 1, 1 + rows, toNft),
                MintNonFungible(Cheapest, 1, 1 + rows, toNft),
                MintNonFungible(f, 1, 1 + rows, toNft))

DescribeMintPhantasma ==
    \E count \in Counts \ {0}, rows \in Rows, toNft \in BOOLEAN, f \in ActualFacts(MintFacts) :
        \E series \in 1 .. count :
            Describe(MintPhantasmaNonFungible(StateFacts, count, count + rows, series, toNft),
                     MintPhantasmaNonFungible(Cheapest, count, count + rows, series, toNft),
                     MintPhantasmaNonFungible(f, count, count + rows, series, toNft))

DescribeCreateToken == \E length \in Lengths, queries \in 0 .. 2, rows \in Rows :
    /\ SymbolShift(length, maxSymbolLength) # Refused
    /\ LET part == CreateToken(length, queries, 1 + rows) IN Describe(part, part, part)

DescribeCreateTokenSeries == \E rows \in Rows, f \in ActualFacts(SeriesFacts) :
    Describe(CreateTokenSeries(StateFacts, 1 + rows),
             CreateTokenSeries(Cheapest, 1 + rows), CreateTokenSeries(f, 1 + rows))

DescribeRegisterName == \E length \in Lengths \ {0} :
    /\ SymbolShift(length, maxNameLength) # Refused
    /\ Describe(RegisterName(length), RegisterName(length), RegisterName(length))

\* A VM script, a trade, an unmodelled call: budgeted, whatever it does.
DescribeScript ==
    /\ Room
    /\ calls' = calls + 1
    /\ Add(Script, Script, Script)
    /\ others' = TRUE /\ budgeted' = TRUE
    /\ UNCHANGED <<options, batched, phase, returned, takeInfusions, burned>>

\* The first burn of the message takes the whole list of what all its burns give
\* back; without a list it is refused.
DescribeBurnNonFungible ==
  \E count \in Counts \ {0}, rows \in Rows, f \in ActualFacts(BurnFacts) :
    /\ Room
    /\ takeInfusions => options.infusionsRead
    /\ calls' = calls + 1
    /\ Add(BurnNonFungible(StateFacts, count, count),
           BurnNonFungible(Cheapest, count, count), BurnNonFungible(f, count, count + rows))
    /\ phase' = IF takeInfusions THEN "returns" ELSE "calls"
    /\ takeInfusions' = FALSE
    /\ burned' = TRUE
    /\ UNCHANGED <<options, batched, returned, others, budgeted>>

\* One asset of the list: the burner may hold its token although the list does
\* not say so.
DescribeReturnedAsset ==
    \E nonFungible, free, listed, holds \in BOOLEAN, instances \in Counts \ {0} :
        /\ phase = "returns" /\ returned < MaxReturned
        /\ listed => holds
        /\ nonFungible => ~free
        /\ returned' = returned + 1
        /\ Add(ReturnedAsset(nonFungible, instances, free, listed),
               ReturnedAsset(nonFungible, instances, free, listed),
               ReturnedAsset(nonFungible, instances, free, holds))
        /\ UNCHANGED <<options, batched, phase, calls, takeInfusions, burned, others, budgeted>>

EndOfList ==
    /\ phase = "returns"
    /\ phase' = "calls"
    /\ UNCHANGED <<options, batched, plan, cheap, chain, calls, returned,
                   takeInfusions, burned, others, budgeted>>

\* Arguments too short to read, a type the planner does not price, a witness
\* count it cannot use.
RefuseMessage    == Room /\ Refuse
RefuseUnread     == Room /\ takeInfusions /\ ~options.infusionsRead /\ Refuse
RefuseNoInstance == Room /\ 0 \in Counts /\ Refuse
RefuseLength     ==
    /\ Room /\ \E length \in Lengths, max \in {maxSymbolLength, maxNameLength} : SymbolShift(length, max) = Refused
    /\ Refuse
RefuseEmptyAsset == phase = "returns" /\ returned < MaxReturned /\ 0 \in Counts /\ Refuse

\* PlanFees settles the totals and answers true.
Answer ==
    /\ phase = "calls" /\ (batched \/ calls = 1)
    /\ phase' = "planned"
    /\ UNCHANGED <<options, batched, plan, cheap, chain, calls, returned,
                   takeInfusions, burned, others, budgeted>>

Next ==
    \/ DescribeTransferFungible \/ DescribeTransferNonFungible \/ DescribeMintFungible
    \/ DescribeBurnFungible \/ DescribeMintNonFungible \/ DescribeMintPhantasma
    \/ DescribeCreateToken \/ DescribeCreateTokenSeries \/ DescribeRegisterName
    \/ DescribeScript \/ DescribeBurnNonFungible \/ DescribeReturnedAsset \/ EndOfList
    \/ RefuseMessage \/ RefuseUnread \/ RefuseNoInstance \/ RefuseLength \/ RefuseEmptyAsset
    \/ Answer

Spec == Init /\ [][Next]_vars

----------------------------------------------------------------------------
(* Properties.                                                             *)

ModelType == [transfers : Nat, queries : Nat, units : Nat, policy : Nat,
              result : Nat, new : Nat, deleted : Nat]

\* The options, the totals and the flags have their types.
TypeOK ==
    /\ options \in [stated : Facts, infusionsRead : BOOLEAN]
    /\ batched \in BOOLEAN /\ takeInfusions \in BOOLEAN
    /\ burned \in BOOLEAN /\ others \in BOOLEAN /\ budgeted \in BOOLEAN
    /\ phase \in {"calls", "returns", "planned", "refused"}
    /\ plan \in ModelType /\ cheap \in ModelType /\ chain \in ModelType
    /\ calls \in Nat /\ returned \in Nat

\* A burn priced together with other operations: then what it deletes is taken
\* off what they create, and both of the plan's readings of it may be off.
Mixed == burned /\ others

\* The work and the bytes of a message, unscaled, fit a word: past that the
\* calculator quotes the scaled maximum, whatever the sum was.
WorkFits(m) ==
    m.transfers * gasFeeTransfer + m.queries * gasFeeQuery + m.units
        + BlockData(m) * (IF V2 THEN UnitsPerByte ELSE 0) <= kU64Max

\* The offer covers what the chain bills, whatever the unstated facts turn out
\* to be: no message is sent to abort and be billed (FeePlan.h, PlanFees).  A
\* batch that mixes a burn with other operations is left out unless the caller
\* stated romHasMetaId.
BillCovered ==
    (/\ phase = "planned" /\ ~budgeted /\ WorkFits(plan)
     /\ Mixed => ~options.stated["romHasMetaId"])
        => MaxGas(plan) >= ChainBill(chain)

\* Every state fact defaults to the reading that costs more; "a plan that states
\* nothing is an upper bound" (FeePlan.h, FeePlanOptions).  It fails for a batch
\* of a burn and a creation, where the default of romHasMetaId deletes a row.
PlanIsUpperBound ==
    (phase = "planned" /\ ~budgeted) => MaxGas(plan) >= ChainBill(chain)

\* The storage ceiling covers every row the chain creates, the rows of returned
\* assets included, with no exception (FeeEstimator.h, maxData).
EscrowCovered ==
    (phase = "planned" /\ ~budgeted)
        => MaxData(plan) >= SaturatingMul(chain.new, dataEscrowPerRow)

\* Charges the chain scales on their own: each loses less than one to rounding.
ScaledCharges(m) == m.transfers + m.queries + 2

\* A plan that calls itself exact is the bill, but for what the chain rounds off
\* each charge: no fact left unstated could have moved it (FeePlan.h,
\* AssumptionsMattered).  Mixed batches are left out, and work past the word,
\* whose quote is a clamp.
ExactIsTheBill ==
    (phase = "planned" /\ Exact /\ WorkFits(plan) /\ ~Mixed)
        => ExpectedGasBill(plan) - ChainBill(chain) \in 0 .. ScaledCharges(chain)

----------------------------------------------------------------------------
(* The inductive invariant behind BillCovered, EscrowCovered and           *)
(* ExactIsTheBill.                                                         *)

\* The charges and the result bytes of m are those of n, or more.
ChargesCover(m, n) ==
    /\ m.transfers = n.transfers /\ m.units = n.units /\ m.policy = n.policy
    /\ m.queries >= n.queries /\ m.result >= n.result

\* The plan counts at least what the chain counts.
Dominates(m, n) == ChargesCover(m, n) /\ m.new >= n.new

\* What the plan takes off for deleted rows: no more than the chain, when the
\* fact that decides it is stated; the same, when nothing is burned.
DeletedCovered ==
    /\ ~options.stated["romHasMetaId"] => plan.deleted <= chain.deleted
    /\ ~burned => plan.deleted = chain.deleted

\* The chain counts at least what the cheaper reading counts, but for the rows of
\* returned assets, which the cheaper reading takes as they are listed.
CheapCovered ==
    /\ ChargesCover(chain, cheap)
    /\ ~burned => chain.new >= cheap.new /\ chain.deleted = cheap.deleted

\* A message of burns alone has no net growth, at either reading and on the chain.
BurnsShrink ==
    /\ ~others => /\ plan.new <= plan.deleted /\ chain.new <= chain.deleted
                  /\ cheap.new <= cheap.deleted
    /\ phase = "returns" => burned

PlanInv == TypeOK /\ Dominates(plan, chain) /\ DeletedCovered /\ CheapCovered /\ BurnsShrink

============================================================================

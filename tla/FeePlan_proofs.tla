--------------------------- MODULE FeePlan_proofs ---------------------------
(***************************************************************************)
(* Proofs about FeePlan: the totals the plan is made of dominate what the  *)
(* chain counts, for every set of facts, so the storage ceiling and the    *)
(* offer cover it; and where no assumption mattered the quote is the bill, *)
(* but for what the chain rounds off each charge.                          *)
(***************************************************************************)
EXTENDS FeePlan, TLAPS

\* The word's largest value is a number.
LEMMA WordFacts == kU64Max \in Nat /\ U64 = 0 .. kU64Max
  BY WordAssumption DEF kU64Max, U64

\* A division by b > 0 leaves a remainder below b.
LEMMA DivisionFacts ==
    ASSUME NEW n \in Nat, NEW b \in Nat \ {0}
    PROVE  /\ n \div b \in Nat
           /\ b * (n \div b) <= n
           /\ n < b * (n \div b) + b
  OBVIOUS

LEMMA ProductGrows ==
    ASSUME NEW a \in Nat, NEW c \in Nat, a <= c, NEW b \in Nat
    PROVE  a * b \in Nat /\ a * b <= c * b
  OBVIOUS

\* SaturatingMul is the product clamped to the word.
LEMMA SaturatingMulClamps ==
    ASSUME NEW a \in Nat, NEW b \in Nat
    PROVE  SaturatingMul(a, b) = Clamped(a * b)
  <1>1. CASE a = 0 \/ b = 0
    BY <1>1, WordFacts DEF SaturatingMul, Clamped
  <1>2. CASE a # 0 /\ b # 0
    <2>1. /\ kU64Max \div b \in Nat
          /\ b * (kU64Max \div b) <= kU64Max
          /\ kU64Max < b * (kU64Max \div b) + b
      BY <1>2, WordFacts, DivisionFacts
    <2>2. CASE a <= kU64Max \div b
      <3>1. a * b <= (kU64Max \div b) * b
        BY <2>1, <2>2, ProductGrows
      <3> QED BY <1>2, <2>1, <2>2, <3>1, WordFacts DEF SaturatingMul, Clamped
    <2>3. CASE a > kU64Max \div b
      <3>1. ((kU64Max \div b) + 1) * b <= a * b
        BY <2>1, <2>3, ProductGrows
      <3>2. ((kU64Max \div b) + 1) * b = b * (kU64Max \div b) + b
        BY <2>1
      <3> QED BY <1>2, <2>1, <2>3, <3>1, <3>2, WordFacts DEF SaturatingMul, Clamped
    <2> QED BY <2>1, <2>2, <2>3
  <1> QED BY <1>1, <1>2

LEMMA SaturatingMulGrows ==
    ASSUME NEW a \in Nat, NEW c \in Nat, a <= c, NEW b \in Nat
    PROVE  SaturatingMul(a, b) <= SaturatingMul(c, b)
  <1>1. a * b \in Nat /\ c * b \in Nat /\ a * b <= c * b
    BY ProductGrows
  <1>2. SaturatingMul(a, b) = Clamped(a * b) /\ SaturatingMul(c, b) = Clamped(c * b)
    BY SaturatingMulClamps
  <1>3. ASSUME NEW x \in Nat, NEW y \in Nat, x <= y PROVE Clamped(x) <= Clamped(y)
    BY <1>3, WordFacts DEF Clamped
  <1> QED BY <1>1, <1>2, <1>3

----------------------------------------------------------------------------
(* The models of the operations: the plan's part counts at least the       *)
(* chain's, when the chain's facts are costly only where the plan's are.   *)

Under(f, g) == \A n \in FactNames : f[n] => g[n]

\* A part's totals are numbers.
LEMMA SumType ==
    ASSUME NEW m \in ModelType, NEW n \in ModelType PROVE Sum(m, n) \in ModelType
  BY DEF Sum, Model, ModelType

LEMMA SumDominates ==
    ASSUME NEW m \in ModelType, NEW n \in ModelType, NEW p \in ModelType, NEW q \in ModelType
    PROVE  /\ ChargesCover(m, n) /\ ChargesCover(p, q) => ChargesCover(Sum(m, p), Sum(n, q))
           /\ Dominates(m, n) /\ Dominates(p, q) => Dominates(Sum(m, p), Sum(n, q))
  BY DEF Sum, Model, ModelType, Dominates, ChargesCover

LEMMA NameFacts ==
    ASSUME NEW f \in Facts, NEW n \in FactNames PROVE f[n] \in BOOLEAN
  BY DEF Facts

\* Facts that hold when a call runs are costly only where the plan's are.
LEMMA ActualUnder ==
    ASSUME TypeOK, NEW names, names \subseteq FactNames, NEW f \in ActualFacts(names)
    PROVE  f \in Facts /\ Under(f, StateFacts)
  <1>1. PICK costly \in SUBSET {n \in names : options.stated[n]} :
          f = [n \in FactNames |-> n \in costly]
    BY DEF ActualFacts
  <1>2. \A n \in FactNames : f[n] <=> n \in costly
    BY <1>1
  <1>3. f \in [FactNames -> BOOLEAN]
    BY <1>1
  <1>4. ASSUME NEW n \in FactNames, f[n] PROVE options.stated[n]
    BY <1>1, <1>2, <1>4
  <1> QED BY <1>3, <1>4 DEF Facts, Under, StateFacts

LEMMA CheapestIsFacts == Cheapest \in Facts
  BY DEF Cheapest, Facts

LEMMA StatedIsFacts == ASSUME TypeOK PROVE StateFacts \in Facts
  BY DEF TypeOK, StateFacts

\* The rows and the bytes a single fact decides.
LEMMA RowFacts ==
    ASSUME NEW f \in Facts, NEW free
    PROVE  /\ RecipientRow(f, free) \in Nat /\ RecipientRow(f, free) <= 1
           /\ BurntRow(f, free) \in Nat /\ BurntRow(f, free) <= 1
           /\ SupplyRow(f, free) \in Nat /\ SupplyRow(f, free) <= 1
           /\ BalanceBytes(f) \in Nat
  BY DEF RecipientRow, BurntRow, SupplyRow, BalanceBytes, One

LEMMA RowsGrow ==
    ASSUME NEW f \in Facts, NEW g \in Facts, Under(f, g), NEW free
    PROVE  /\ RecipientRow(f, free) <= RecipientRow(g, free)
           /\ BurntRow(f, free) <= BurntRow(g, free)
           /\ SupplyRow(f, free) <= SupplyRow(g, free)
           /\ BalanceBytes(f) <= BalanceBytes(g)
  <1>1. \A n \in FactNames : f[n] => g[n]
    BY DEF Under
  <1> QED
    BY <1>1 DEF RecipientRow, BurntRow, SupplyRow, BalanceBytes, One, FactNames

\* The rows of a token that pays for them: the recipient's, the burner's, the
\* supply's.
Holder(f) == RecipientRow(f, FALSE)
Supply(f) == SupplyRow(f, FALSE)
Burnt(f)  == BurntRow(f, FALSE)

LEMMA PaidRows ==
    ASSUME NEW f \in Facts, NEW g \in Facts, Under(f, g)
    PROVE  /\ Holder(f) \in Nat /\ Holder(g) \in Nat /\ Holder(f) <= Holder(g)
           /\ Supply(f) \in Nat /\ Supply(g) \in Nat /\ Supply(f) <= Supply(g)
           /\ Burnt(f) \in Nat /\ Burnt(g) \in Nat /\ Burnt(f) <= Burnt(g)
           /\ Supply(g) <= 1 /\ Burnt(g) <= 1
  BY RowFacts, RowsGrow DEF Holder, Supply, Burnt

LEMMA OneIsBit == \A b : One(b) \in Nat /\ One(b) <= 1
  BY DEF One

\* What the models of a plan (at the facts g) and of the chain (at f) owe each
\* other, when both delete the same.
Covers(m, n) ==
    /\ m \in ModelType /\ n \in ModelType
    /\ Dominates(m, n)
    /\ m.deleted = n.deleted

LEMMA TransferFungibleCovers ==
    ASSUME NEW f \in Facts, NEW g \in Facts, Under(f, g), NEW free, NEW toNft
    PROVE  Covers(TransferFungible(g, free, toNft), TransferFungible(f, free, toNft))
  <1>1. One(toNft) \in Nat
    BY OneIsBit
  <1> QED
    BY <1>1, RowFacts, RowsGrow DEF Covers, TransferFungible, Model, ModelType, Dominates, ChargesCover

LEMMA TransferNonFungibleCovers ==
    ASSUME NEW f \in Facts, NEW g \in Facts, Under(f, g), NEW count \in Nat, NEW toNft
    PROVE  Covers(TransferNonFungible(g, count, toNft), TransferNonFungible(f, count, toNft))
  <1>1. One(toNft) \in Nat
    BY OneIsBit
  <1> QED
    <2> DEFINE New(h) == count + Holder(h)
    <2>1. New(f) \in Nat /\ New(g) \in Nat /\ New(f) <= New(g)
      BY PaidRows
    <2>2. ASSUME NEW h \in Facts
          PROVE TransferNonFungible(h, count, toNft) =
                  Model(count, One(toNft), 0, 0, 0, New(h), count)
      BY DEF TransferNonFungible, Holder
    <2> HIDE DEF New
    <2> QED BY <1>1, <2>1, <2>2 DEF Covers, Model, ModelType, Dominates, ChargesCover

LEMMA MintFungibleCovers ==
    ASSUME NEW f \in Facts, NEW g \in Facts, Under(f, g), NEW free, NEW toNft
    PROVE  Covers(MintFungible(g, free, toNft), MintFungible(f, free, toNft))
  <1>1. One(toNft) \in Nat
    BY OneIsBit
  <1> QED
    BY <1>1, RowFacts, RowsGrow DEF Covers, MintFungible, Model, ModelType, Dominates, ChargesCover

LEMMA BurnFungibleCovers ==
    ASSUME NEW f \in Facts, NEW g \in Facts, Under(f, g), NEW free
    PROVE  Covers(BurnFungible(g, free), BurnFungible(f, free))
  BY RowFacts, RowsGrow DEF Covers, BurnFungible, Model, ModelType, Dominates, ChargesCover

\* Of an instance, two rows, and a third when its ROM names it.
MetaRows(f) == IF f["romHasMetaId"] THEN 3 ELSE 2

LEMMA MetaRowsGrow ==
    ASSUME NEW f \in Facts, NEW g \in Facts, Under(f, g), NEW count \in Nat
    PROVE  /\ MetaRows(f) * count \in Nat /\ MetaRows(g) * count \in Nat
           /\ 2 * count <= MetaRows(f) * count
           /\ MetaRows(f) * count <= MetaRows(g) * count
  <1>1. f["romHasMetaId"] => g["romHasMetaId"]
    BY DEF Under, FactNames
  <1> QED BY <1>1 DEF MetaRows

LEMMA MintNonFungibleCovers ==
    ASSUME NEW f \in Facts, NEW g \in Facts, Under(f, g), NEW count \in Nat, NEW rows \in Nat,
           NEW toNft
    PROVE  Covers(MintNonFungible(g, count, rows, toNft), MintNonFungible(f, count, rows, toNft))
  <1>1. One(toNft) \in Nat
    BY OneIsBit
  <1>2. /\ MetaRows(f) * count \in Nat /\ MetaRows(g) * count \in Nat
        /\ MetaRows(f) * count <= MetaRows(g) * count
    BY MetaRowsGrow
  <1>3. ASSUME NEW h \in Facts
        PROVE MintNonFungible(h, count, rows, toNft) =
                Model(count, One(toNft), 0, 0, 4 + 8 * count,
                      Holder(h) + Supply(h) + rows + MetaRows(h) * count, 0)
    BY DEF MintNonFungible, MetaRows, Holder, Supply
  <1>4. /\ Holder(f) \in Nat /\ Holder(g) \in Nat /\ Holder(f) <= Holder(g)
        /\ Supply(f) \in Nat /\ Supply(g) \in Nat /\ Supply(f) <= Supply(g)
    BY PaidRows
  <1>5. 4 + 8 * count \in Nat
    OBVIOUS
  <1> DEFINE New(h) == Holder(h) + Supply(h) + rows + MetaRows(h) * count
  <1>6. New(f) \in Nat /\ New(g) \in Nat /\ New(f) <= New(g)
    BY <1>2, <1>4
  <1> HIDE DEF New
  <1>7. ASSUME NEW h \in Facts
        PROVE MintNonFungible(h, count, rows, toNft) =
                Model(count, One(toNft), 0, 0, 4 + 8 * count, New(h), 0)
    BY <1>3 DEF New
  <1> QED BY <1>1, <1>5, <1>6, <1>7 DEF Covers, Model, ModelType, Dominates, ChargesCover

LEMMA MintPhantasmaCovers ==
    ASSUME NEW f \in Facts, NEW g \in Facts, Under(f, g), NEW count \in Nat, NEW rows \in Nat,
           NEW series \in 1 .. count, NEW toNft
    PROVE  Covers(MintPhantasmaNonFungible(g, count, rows, series, toNft),
                  MintPhantasmaNonFungible(f, count, rows, series, toNft))
  <1>1. One(toNft) \in Nat
    BY OneIsBit
  <1>2. f["duplicatedSeries"] => g["duplicatedSeries"]
    BY DEF Under, FactNames
  <1>3. /\ Holder(f) \in Nat /\ Holder(g) \in Nat /\ Holder(f) <= Holder(g)
        /\ Supply(f) \in Nat /\ Supply(g) \in Nat /\ Supply(f) <= Supply(g)
    BY PaidRows
  <1> DEFINE Queries(h) ==
        (IF h["duplicatedSeries"] THEN 3 * count + series ELSE 2 * count) + One(toNft)
             New(h) == Holder(h) + Supply(h) + rows + 3 * count
  <1>4. Queries(f) \in Nat /\ Queries(g) \in Nat /\ Queries(f) <= Queries(g)
    BY <1>1, <1>2
  <1>5. New(f) \in Nat /\ New(g) \in Nat /\ New(f) <= New(g)
    BY <1>3, 3 * count \in Nat
  <1>6. ASSUME NEW h \in Facts
        PROVE MintPhantasmaNonFungible(h, count, rows, series, toNft) =
                Model(count, Queries(h), 0, 0, 4 + 40 * count, New(h), 0)
    BY DEF MintPhantasmaNonFungible, Holder, Supply
  <1>7. 4 + 40 * count \in Nat
    OBVIOUS
  <1> HIDE DEF Queries, New
  <1> QED BY <1>4, <1>5, <1>6, <1>7 DEF Covers, Model, ModelType, Dominates, ChargesCover

\* A price shifted by a symbol's length is a number: no shift is as wide as the
\* word, whose result the code could not rely on.
LEMMA ShiftedPriceType ==
    ASSUME NEW price \in Nat, NEW length \in Nat, NEW max \in Nat, SymbolShift(length, max) # Refused
    PROVE  ShiftedPrice(price, length, max) \in Nat
  <1>1. WordBits \in Nat /\ WordBits > 0
    BY WordAssumption
  <1>2. SymbolShift(length, max) \in 0 .. WordBits
    BY <1>1 DEF SymbolShift, kMaxPriceableLength, Refused
  <1>3. 2 ^ SymbolShift(length, max) \in Nat \ {0}
    BY <1>2, WordAssumption
  <1> QED BY <1>3, DivisionFacts DEF ShiftedPrice

LEMMA PricedType ==
    ASSUME NEW price \in Nat, NEW queries \in Nat, NEW result \in Nat, NEW new \in Nat
    PROVE  Priced(price, queries, result, new) \in ModelType
  BY DEF Priced, Model, ModelType

LEMMA SelfCovers == ASSUME NEW m \in ModelType PROVE Covers(m, m)
  BY DEF ModelType, Covers, Dominates, ChargesCover

LEMMA PricesAreNumbers ==
    /\ priceBase \in Nat /\ priceSymbol \in Nat /\ priceSeries \in Nat /\ priceName \in Nat
    /\ ScriptUnits \in Nat /\ dataEscrowPerRow \in Nat
  BY ConfigAssumption, WordFacts

LEMMA CreateTokenType ==
    ASSUME NEW length \in Nat, NEW queries \in Nat, NEW rows \in Nat,
           SymbolShift(length, maxSymbolLength) # Refused
    PROVE  CreateToken(length, queries, rows) \in ModelType
  <1>1. ShiftedPrice(priceSymbol, length, maxSymbolLength) \in Nat
    BY ShiftedPriceType, PricesAreNumbers, ConfigAssumption
  <1>2. priceBase + (IF length > 0 THEN ShiftedPrice(priceSymbol, length, maxSymbolLength) ELSE 0) \in Nat
    BY <1>1, PricesAreNumbers
  <1>3. One(length > 0) + rows + 1 \in Nat
    BY DEF One
  <1> QED BY <1>2, <1>3, PricedType DEF CreateToken

LEMMA RegisterNameType ==
    ASSUME NEW length \in Nat, SymbolShift(length, maxNameLength) # Refused
    PROVE  RegisterName(length) \in ModelType
  BY ShiftedPriceType, PricesAreNumbers, ConfigAssumption, PricedType DEF RegisterName

LEMMA ScriptType == Script \in ModelType
  BY ConfigAssumption, PricesAreNumbers DEF Script, Model, ModelType

LEMMA CreateTokenSeriesCovers ==
    ASSUME NEW f \in Facts, NEW g \in Facts, Under(f, g), NEW rows \in Nat
    PROVE  Covers(CreateTokenSeries(g, rows), CreateTokenSeries(f, rows))
  <1>1. f["seriesHasMetaId"] => g["seriesHasMetaId"]
    BY DEF Under, FactNames
  <1>2. /\ One(f["seriesHasMetaId"]) \in Nat /\ One(g["seriesHasMetaId"]) \in Nat
        /\ One(f["seriesHasMetaId"]) <= One(g["seriesHasMetaId"])
    BY <1>1 DEF One
  <1>3. priceSeries \in Nat
    BY PricesAreNumbers
  <1> DEFINE New(h) == rows + 1 + One(h["seriesHasMetaId"])
  <1>4. New(f) \in Nat /\ New(g) \in Nat /\ New(f) <= New(g)
    BY <1>2
  <1>5. ASSUME NEW h \in Facts
        PROVE CreateTokenSeries(h, rows) =
                Model(0, 0, IF V2 THEN 0 ELSE priceSeries, IF V2 THEN priceSeries ELSE 0, 4,
                      New(h), 0)
    BY DEF CreateTokenSeries, Priced
  <1> HIDE DEF New
  <1> QED BY <1>3, <1>4, <1>5 DEF Covers, Model, ModelType, Dominates, ChargesCover

\* A burn deletes more than it creates, at any facts, and what it creates and
\* calls grows with the facts.
LEMMA BurnNonFungibleCovers ==
    ASSUME NEW f \in Facts, NEW g \in Facts, Under(f, g), NEW count \in Nat \ {0},
           NEW rows \in Nat
    PROVE  LET p == BurnNonFungible(g, count, count)
               a == BurnNonFungible(f, count, count + rows)
           IN  /\ p \in ModelType /\ a \in ModelType /\ Dominates(p, a)
               /\ p.new <= p.deleted /\ a.new <= a.deleted
               /\ ~g["romHasMetaId"] => p.deleted <= a.deleted
  <1>1. /\ Supply(f) \in Nat /\ Supply(g) \in Nat /\ Supply(f) <= Supply(g) /\ Supply(g) <= 1
        /\ Burnt(f) \in Nat /\ Burnt(g) \in Nat /\ Burnt(f) <= Burnt(g) /\ Burnt(g) <= 1
    BY PaidRows
  <1>2. /\ MetaRows(f) * count \in Nat /\ MetaRows(g) * count \in Nat
        /\ 2 * count <= MetaRows(f) * count
        /\ 2 * count <= MetaRows(g) * count
        /\ ~g["romHasMetaId"] => MetaRows(g) * count = 2 * count
    <2>1. Under(g, g)
      BY DEF Under
    <2> QED BY <2>1, MetaRowsGrow DEF MetaRows
  <1> DEFINE New(h) == Burnt(h) + Supply(h)
             Deleted(h, r) == r + MetaRows(h) * count
  <1>3. /\ New(f) \in Nat /\ New(g) \in Nat /\ New(f) <= New(g) /\ New(g) <= 2
    BY <1>1
  <1>4. /\ Deleted(f, count + rows) \in Nat /\ Deleted(g, count) \in Nat
        /\ Deleted(f, count + rows) >= 2 /\ Deleted(g, count) >= 2
        /\ ~g["romHasMetaId"] => Deleted(g, count) <= Deleted(f, count + rows)
    <2> HIDE DEF MetaRows
    <2> QED BY <1>2
  <1>5. ASSUME NEW h \in Facts, NEW r
        PROVE BurnNonFungible(h, count, r) =
                Model(count, 2 * count, 0, 0, 0, New(h), Deleted(h, r))
    BY DEF BurnNonFungible, MetaRows, Burnt, Supply
  <1> HIDE DEF New, Deleted
  <1> QED BY <1>3, <1>4, <1>5 DEF Model, ModelType, Dominates, ChargesCover

\* What a burn gives back: the row that may be created is one the plan counts,
\* and never more than the rows the return deletes.
LEMMA ReturnedAssetCovers ==
    ASSUME NEW nonFungible \in BOOLEAN, NEW free \in BOOLEAN, NEW listed \in BOOLEAN,
           NEW holds \in BOOLEAN, NEW instances \in Nat, listed => holds
    PROVE  LET p == ReturnedAsset(nonFungible, instances, free, listed)
               a == ReturnedAsset(nonFungible, instances, free, holds)
           IN  Covers(p, a) /\ p.new <= p.deleted /\ a.new <= a.deleted
  <1> DEFINE Row(held) == One(~held /\ ~free)
  <1>1. /\ Row(listed) \in Nat /\ Row(holds) \in Nat /\ Row(holds) <= Row(listed)
        /\ Row(listed) <= 1 /\ Row(listed) <= One(~free) /\ One(~free) \in Nat
    BY DEF One
  <1>2. ASSUME NEW held \in BOOLEAN
        PROVE ReturnedAsset(nonFungible, instances, free, held) =
                IF nonFungible
                THEN Model(instances, 2, 0, 0, 0, Row(held) + instances, 1 + instances)
                ELSE Model(1, 1, 0, 0, 0, Row(held), One(~free))
    BY DEF ReturnedAsset
  <1> HIDE DEF Row
  <1>3. CASE nonFungible
    <2>1. /\ Row(listed) + instances \in Nat /\ Row(holds) + instances \in Nat
          /\ 1 + instances \in Nat
          /\ Row(holds) + instances <= Row(listed) + instances
          /\ Row(listed) + instances <= 1 + instances
          /\ Row(holds) + instances <= 1 + instances
      BY <1>1
    <2>2. /\ ReturnedAsset(nonFungible, instances, free, listed) =
               Model(instances, 2, 0, 0, 0, Row(listed) + instances, 1 + instances)
          /\ ReturnedAsset(nonFungible, instances, free, holds) =
               Model(instances, 2, 0, 0, 0, Row(holds) + instances, 1 + instances)
      BY <1>2, <1>3
    <2> QED BY <2>1, <2>2 DEF Covers, Model, ModelType, Dominates, ChargesCover
  <1>4. CASE ~nonFungible
    BY <1>1, <1>2, <1>4 DEF Covers, Model, ModelType, Dominates, ChargesCover
  <1> QED BY <1>3, <1>4

----------------------------------------------------------------------------
(* The totals under Add.                                                   *)

LEMMA AddKeeps ==
    ASSUME TypeOK, Dominates(plan, chain), ChargesCover(chain, cheap),
           NEW p \in ModelType, NEW c \in ModelType, NEW a \in ModelType,
           Dominates(p, a), ChargesCover(a, c), Add(p, c, a)
    PROVE  /\ plan' \in ModelType /\ cheap' \in ModelType /\ chain' \in ModelType
           /\ Dominates(plan, chain)' /\ ChargesCover(chain, cheap)'
           /\ plan'.new = plan.new + p.new /\ plan'.deleted = plan.deleted + p.deleted
           /\ chain'.new = chain.new + a.new /\ chain'.deleted = chain.deleted + a.deleted
           /\ cheap'.new = cheap.new + c.new /\ cheap'.deleted = cheap.deleted + c.deleted
           /\ plan.new \in Nat /\ plan.deleted \in Nat /\ chain.new \in Nat
           /\ chain.deleted \in Nat /\ cheap.new \in Nat /\ cheap.deleted \in Nat
  <1>1. plan \in ModelType /\ cheap \in ModelType /\ chain \in ModelType
    BY DEF TypeOK
  <1>2. plan' = Sum(plan, p) /\ cheap' = Sum(cheap, c) /\ chain' = Sum(chain, a)
    BY DEF Add
  <1>3. plan' \in ModelType /\ cheap' \in ModelType /\ chain' \in ModelType
    BY <1>1, <1>2, SumType
  <1>4. Dominates(plan', chain') /\ ChargesCover(chain', cheap')
    BY <1>1, <1>2, SumDominates
  <1>5. /\ plan'.new = plan.new + p.new /\ plan'.deleted = plan.deleted + p.deleted
        /\ chain'.new = chain.new + a.new /\ chain'.deleted = chain.deleted + a.deleted
        /\ cheap'.new = cheap.new + c.new /\ cheap'.deleted = cheap.deleted + c.deleted
    BY <1>2 DEF Sum, Model
  <1> QED BY <1>1, <1>3, <1>4, <1>5 DEF ModelType, Dominates, ChargesCover

\* A call that is no burn: its part covers the chain's, the chain's covers the
\* cheaper one's, and all delete as much.
LEMMA DescribeKeeps ==
    ASSUME PlanInv, NEW p, NEW c, NEW a, Covers(p, a), Covers(a, c), Describe(p, c, a)
    PROVE  PlanInv'
  <1>1. /\ TypeOK /\ Dominates(plan, chain) /\ DeletedCovered /\ CheapCovered /\ BurnsShrink
        /\ p \in ModelType /\ a \in ModelType /\ c \in ModelType
        /\ Dominates(p, a) /\ p.deleted = a.deleted
        /\ Dominates(a, c) /\ a.deleted = c.deleted
    BY DEF PlanInv, Covers
  <1>2. /\ phase = "calls" /\ calls' = calls + 1 /\ Add(p, c, a) /\ others' = TRUE
        /\ UNCHANGED <<options, batched, phase, returned, takeInfusions, burned, budgeted>>
    BY DEF Describe, Room
  <1>3. ChargesCover(chain, cheap) /\ ChargesCover(a, c) /\ a.new >= c.new
    BY <1>1 DEF CheapCovered, Dominates
  <1>4. /\ plan' \in ModelType /\ cheap' \in ModelType /\ chain' \in ModelType
        /\ Dominates(plan, chain)' /\ ChargesCover(chain, cheap)'
        /\ plan'.deleted = plan.deleted + p.deleted
        /\ chain'.new = chain.new + a.new /\ chain'.deleted = chain.deleted + a.deleted
        /\ cheap'.new = cheap.new + c.new /\ cheap'.deleted = cheap.deleted + c.deleted
        /\ plan.deleted \in Nat /\ chain.new \in Nat /\ chain.deleted \in Nat
        /\ cheap.new \in Nat /\ cheap.deleted \in Nat
    BY <1>1, <1>2, <1>3, AddKeeps
  <1>5. /\ p.deleted \in Nat /\ a.new \in Nat /\ a.deleted \in Nat
        /\ c.new \in Nat /\ c.deleted \in Nat
    BY <1>1 DEF ModelType
  <1>6. TypeOK'
    BY <1>1, <1>2, <1>4 DEF TypeOK
  <1>7. DeletedCovered'
    BY <1>1, <1>2, <1>4, <1>5 DEF DeletedCovered
  <1>8. CheapCovered'
    BY <1>1, <1>2, <1>3, <1>4, <1>5 DEF CheapCovered
  <1>9. BurnsShrink'
    BY <1>2 DEF BurnsShrink
  <1> QED BY <1>4, <1>6, <1>7, <1>8, <1>9 DEF PlanInv

\* The facts a call is described at, in the three totals.
LEMMA CallFacts ==
    ASSUME TypeOK, NEW names \in {HolderFacts, MintFacts, BurnFacts, SeriesFacts},
           NEW f \in ActualFacts(names)
    PROVE  /\ f \in Facts /\ StateFacts \in Facts /\ Cheapest \in Facts
           /\ Under(f, StateFacts) /\ Under(Cheapest, f)
  <1>1. names \subseteq FactNames
    BY DEF HolderFacts, MintFacts, BurnFacts, SeriesFacts, FactNames
  <1>2. Under(Cheapest, f)
    BY DEF Under, Cheapest
  <1> QED BY <1>1, <1>2, ActualUnder, StatedIsFacts, CheapestIsFacts

LEMMA InputFacts ==
    /\ \A n \in Counts : n \in Nat
    /\ \A n \in Rows : n \in Nat /\ 1 + n \in Nat
    /\ \A n \in Lengths : n \in Nat
  BY InputsAssumption

LEMMA TransfersKeep ==
    ASSUME PlanInv, DescribeTransferFungible \/ DescribeTransferNonFungible
    PROVE  PlanInv'
  <1>1. TypeOK
    BY DEF PlanInv
  <1>2. CASE DescribeTransferFungible
    <2>1. PICK free \in BOOLEAN, toNft \in BOOLEAN, f \in ActualFacts(HolderFacts) :
            Describe(TransferFungible(StateFacts, free, toNft),
                     TransferFungible(Cheapest, free, toNft), TransferFungible(f, free, toNft))
      BY <1>2 DEF DescribeTransferFungible
    <2>2. /\ Covers(TransferFungible(StateFacts, free, toNft), TransferFungible(f, free, toNft))
          /\ Covers(TransferFungible(f, free, toNft), TransferFungible(Cheapest, free, toNft))
      BY <1>1, CallFacts, TransferFungibleCovers
    <2> QED BY <2>1, <2>2, DescribeKeeps
  <1>3. CASE DescribeTransferNonFungible
    <2>1. PICK count \in Counts \ {0}, toNft \in BOOLEAN, f \in ActualFacts(HolderFacts) :
            Describe(TransferNonFungible(StateFacts, count, toNft),
                     TransferNonFungible(Cheapest, count, toNft),
                     TransferNonFungible(f, count, toNft))
      BY <1>3 DEF DescribeTransferNonFungible
    <2>2. /\ Covers(TransferNonFungible(StateFacts, count, toNft),
                    TransferNonFungible(f, count, toNft))
          /\ Covers(TransferNonFungible(f, count, toNft),
                    TransferNonFungible(Cheapest, count, toNft))
      BY <1>1, InputFacts, CallFacts, TransferNonFungibleCovers
    <2> QED BY <2>1, <2>2, DescribeKeeps
  <1> QED BY <1>2, <1>3

LEMMA FungiblesKeep ==
    ASSUME PlanInv, DescribeMintFungible \/ DescribeBurnFungible
    PROVE  PlanInv'
  <1>1. TypeOK
    BY DEF PlanInv
  <1>2. CASE DescribeMintFungible
    <2>1. PICK free \in BOOLEAN, toNft \in BOOLEAN, f \in ActualFacts(MintFacts) :
            Describe(MintFungible(StateFacts, free, toNft),
                     MintFungible(Cheapest, free, toNft), MintFungible(f, free, toNft))
      BY <1>2 DEF DescribeMintFungible
    <2>2. /\ Covers(MintFungible(StateFacts, free, toNft), MintFungible(f, free, toNft))
          /\ Covers(MintFungible(f, free, toNft), MintFungible(Cheapest, free, toNft))
      BY <1>1, CallFacts, MintFungibleCovers
    <2> QED BY <2>1, <2>2, DescribeKeeps
  <1>3. CASE DescribeBurnFungible
    <2>1. PICK free \in BOOLEAN, f \in ActualFacts(BurnFacts) :
            Describe(BurnFungible(StateFacts, free), BurnFungible(Cheapest, free),
                     BurnFungible(f, free))
      BY <1>3 DEF DescribeBurnFungible
    <2>2. /\ Covers(BurnFungible(StateFacts, free), BurnFungible(f, free))
          /\ Covers(BurnFungible(f, free), BurnFungible(Cheapest, free))
      BY <1>1, CallFacts, BurnFungibleCovers
    <2> QED BY <2>1, <2>2, DescribeKeeps
  <1> QED BY <1>2, <1>3

LEMMA MintsKeep ==
    ASSUME PlanInv, DescribeMintNonFungible \/ DescribeMintPhantasma
    PROVE  PlanInv'
  <1>1. TypeOK
    BY DEF PlanInv
  <1>2. CASE DescribeMintNonFungible
    <2>1. PICK rows \in Rows, toNft \in BOOLEAN, f \in ActualFacts(MintFacts) :
            Describe(MintNonFungible(StateFacts, 1, 1 + rows, toNft),
                     MintNonFungible(Cheapest, 1, 1 + rows, toNft),
                     MintNonFungible(f, 1, 1 + rows, toNft))
      BY <1>2 DEF DescribeMintNonFungible
    <2>2. /\ Covers(MintNonFungible(StateFacts, 1, 1 + rows, toNft),
                    MintNonFungible(f, 1, 1 + rows, toNft))
          /\ Covers(MintNonFungible(f, 1, 1 + rows, toNft),
                    MintNonFungible(Cheapest, 1, 1 + rows, toNft))
      BY <1>1, InputFacts, CallFacts, MintNonFungibleCovers
    <2> QED BY <2>1, <2>2, DescribeKeeps
  <1>3. CASE DescribeMintPhantasma
    <2>0. PICK count \in Counts \ {0}, rows \in Rows, toNft \in BOOLEAN,
               f \in ActualFacts(MintFacts) : \E series \in 1 .. count :
            Describe(MintPhantasmaNonFungible(StateFacts, count, count + rows, series, toNft),
                     MintPhantasmaNonFungible(Cheapest, count, count + rows, series, toNft),
                     MintPhantasmaNonFungible(f, count, count + rows, series, toNft))
      BY <1>3 DEF DescribeMintPhantasma
    <2>1. PICK series \in 1 .. count :
            Describe(MintPhantasmaNonFungible(StateFacts, count, count + rows, series, toNft),
                     MintPhantasmaNonFungible(Cheapest, count, count + rows, series, toNft),
                     MintPhantasmaNonFungible(f, count, count + rows, series, toNft))
      BY <2>0
    <2>2. count \in Nat /\ count + rows \in Nat
      BY InputFacts
    <2>3. /\ Covers(MintPhantasmaNonFungible(StateFacts, count, count + rows, series, toNft),
                    MintPhantasmaNonFungible(f, count, count + rows, series, toNft))
          /\ Covers(MintPhantasmaNonFungible(f, count, count + rows, series, toNft),
                    MintPhantasmaNonFungible(Cheapest, count, count + rows, series, toNft))
      BY <1>1, <2>2, CallFacts, MintPhantasmaCovers
    <2> QED BY <2>1, <2>3, DescribeKeeps
  <1> QED BY <1>2, <1>3

LEMMA CreationsKeep ==
    ASSUME PlanInv, DescribeCreateToken \/ DescribeCreateTokenSeries \/ DescribeRegisterName
    PROVE  PlanInv'
  <1>1. TypeOK
    BY DEF PlanInv
  <1>2. CASE DescribeCreateToken
    <2>1. PICK length \in Lengths, queries \in 0 .. 2, rows \in Rows :
            /\ SymbolShift(length, maxSymbolLength) # Refused
            /\ Describe(CreateToken(length, queries, 1 + rows),
                        CreateToken(length, queries, 1 + rows),
                        CreateToken(length, queries, 1 + rows))
      BY <1>2 DEF DescribeCreateToken
    <2>2. CreateToken(length, queries, 1 + rows) \in ModelType
      BY <2>1, InputFacts, CreateTokenType
    <2> QED BY <2>1, <2>2, SelfCovers, DescribeKeeps
  <1>3. CASE DescribeCreateTokenSeries
    <2>1. PICK rows \in Rows, f \in ActualFacts(SeriesFacts) :
            Describe(CreateTokenSeries(StateFacts, 1 + rows),
                     CreateTokenSeries(Cheapest, 1 + rows), CreateTokenSeries(f, 1 + rows))
      BY <1>3 DEF DescribeCreateTokenSeries
    <2>2. /\ Covers(CreateTokenSeries(StateFacts, 1 + rows), CreateTokenSeries(f, 1 + rows))
          /\ Covers(CreateTokenSeries(f, 1 + rows), CreateTokenSeries(Cheapest, 1 + rows))
      BY <1>1, InputFacts, CallFacts, CreateTokenSeriesCovers
    <2> QED BY <2>1, <2>2, DescribeKeeps
  <1>4. CASE DescribeRegisterName
    <2>1. PICK length \in Lengths \ {0} :
            /\ SymbolShift(length, maxNameLength) # Refused
            /\ Describe(RegisterName(length), RegisterName(length), RegisterName(length))
      BY <1>4 DEF DescribeRegisterName
    <2>2. RegisterName(length) \in ModelType
      BY <2>1, InputFacts, RegisterNameType
    <2> QED BY <2>1, <2>2, SelfCovers, DescribeKeeps
  <1> QED BY <1>2, <1>3, <1>4

LEMMA ScriptKeeps ==
    ASSUME PlanInv, DescribeScript
    PROVE  PlanInv'
  <1>1. TypeOK /\ Dominates(plan, chain) /\ DeletedCovered /\ CheapCovered /\ BurnsShrink
    BY DEF PlanInv
  <1>2. /\ phase = "calls" /\ calls' = calls + 1 /\ Add(Script, Script, Script)
        /\ others' = TRUE /\ budgeted' = TRUE
        /\ UNCHANGED <<options, batched, phase, returned, takeInfusions, burned>>
    BY DEF DescribeScript, Room
  <1>3. Script \in ModelType /\ Dominates(Script, Script) /\ ChargesCover(Script, Script)
    BY ScriptType, SelfCovers DEF Covers, Dominates
  <1>4. ChargesCover(chain, cheap)
    BY <1>1 DEF CheapCovered
  <1>5. /\ plan' \in ModelType /\ cheap' \in ModelType /\ chain' \in ModelType
        /\ Dominates(plan, chain)' /\ ChargesCover(chain, cheap)'
        /\ plan'.deleted = plan.deleted + Script.deleted
        /\ chain'.new = chain.new + Script.new
        /\ chain'.deleted = chain.deleted + Script.deleted
        /\ cheap'.new = cheap.new + Script.new
        /\ cheap'.deleted = cheap.deleted + Script.deleted
        /\ plan.deleted \in Nat /\ chain.new \in Nat /\ chain.deleted \in Nat
        /\ cheap.new \in Nat /\ cheap.deleted \in Nat
    BY <1>1, <1>2, <1>3, <1>4, AddKeeps
  <1>6. Script.new \in Nat /\ Script.deleted \in Nat
    BY <1>3 DEF ModelType
  <1>7. TypeOK'
    BY <1>1, <1>2, <1>5 DEF TypeOK
  <1>8. DeletedCovered'
    BY <1>1, <1>2, <1>5, <1>6 DEF DeletedCovered
  <1>9. CheapCovered'
    BY <1>1, <1>2, <1>5, <1>6 DEF CheapCovered
  <1>10. BurnsShrink'
    BY <1>2 DEF BurnsShrink
  <1> QED BY <1>5, <1>7, <1>8, <1>9, <1>10 DEF PlanInv

LEMMA BurnKeeps ==
    ASSUME PlanInv, DescribeBurnNonFungible
    PROVE  PlanInv'
  <1>1. TypeOK /\ Dominates(plan, chain) /\ DeletedCovered /\ CheapCovered /\ BurnsShrink
    BY DEF PlanInv
  <1>2. PICK count \in Counts \ {0}, rows \in Rows, f \in ActualFacts(BurnFacts) :
          Add(BurnNonFungible(StateFacts, count, count),
              BurnNonFungible(Cheapest, count, count), BurnNonFungible(f, count, count + rows))
    BY DEF DescribeBurnNonFungible
  <1>3. /\ phase = "calls" /\ calls' = calls + 1 /\ takeInfusions' = FALSE /\ burned' = TRUE
        /\ phase' \in {"returns", "calls"}
        /\ UNCHANGED <<options, batched, returned, others, budgeted>>
    BY DEF DescribeBurnNonFungible, Room
  <1> DEFINE p == BurnNonFungible(StateFacts, count, count)
             c == BurnNonFungible(Cheapest, count, count)
             a == BurnNonFungible(f, count, count + rows)
  <1>4. /\ p \in ModelType /\ a \in ModelType /\ Dominates(p, a)
        /\ p.new <= p.deleted /\ a.new <= a.deleted
        /\ ~StateFacts["romHasMetaId"] => p.deleted <= a.deleted
    BY <1>1, InputFacts, CallFacts, BurnNonFungibleCovers
  <1>5. c \in ModelType /\ ChargesCover(a, c) /\ c.new <= c.deleted
    <2>1. f \in Facts /\ Cheapest \in Facts /\ Under(Cheapest, f) /\ count \in Nat
      BY <1>1, InputFacts, CallFacts
    <2>2. Under(Cheapest, Cheapest)
      BY DEF Under
    <2>3. count + 0 = count
      BY <2>1
    <2>4. c \in ModelType /\ c.new <= c.deleted
      BY <2>1, <2>2, <2>3, BurnNonFungibleCovers
    <2>5. a.transfers = c.transfers /\ a.queries = c.queries /\ a.units = c.units
      BY DEF BurnNonFungible, Model
    <2>6. a.policy = c.policy /\ a.result = c.result
      BY DEF BurnNonFungible, Model
    <2>7. a.queries \in Nat /\ a.result \in Nat
      BY <1>4 DEF ModelType
    <2> HIDE DEF p, c, a
    <2> QED BY <2>4, <2>5, <2>6, <2>7 DEF ChargesCover
  <1> HIDE DEF p, c, a
  <1>6. /\ plan' \in ModelType /\ cheap' \in ModelType /\ chain' \in ModelType
        /\ Dominates(plan, chain)' /\ ChargesCover(chain, cheap)'
        /\ plan'.new = plan.new + p.new /\ plan'.deleted = plan.deleted + p.deleted
        /\ chain'.new = chain.new + a.new /\ chain'.deleted = chain.deleted + a.deleted
        /\ cheap'.new = cheap.new + c.new /\ cheap'.deleted = cheap.deleted + c.deleted
        /\ plan.new \in Nat /\ plan.deleted \in Nat /\ chain.new \in Nat
        /\ chain.deleted \in Nat /\ cheap.new \in Nat /\ cheap.deleted \in Nat
    BY <1>1, <1>2, <1>4, <1>5, AddKeeps DEF p, c, a, CheapCovered
  <1>7. /\ p.new \in Nat /\ p.deleted \in Nat /\ a.new \in Nat /\ a.deleted \in Nat
        /\ c.new \in Nat /\ c.deleted \in Nat
    BY <1>4, <1>5 DEF ModelType
  <1>8. TypeOK'
    <2>1. /\ takeInfusions' \in BOOLEAN /\ burned' \in BOOLEAN
          /\ phase' \in {"calls", "returns", "planned", "refused"}
      BY <1>3
    <2>2. calls' \in Nat /\ returned' \in Nat
      BY <1>1, <1>3 DEF TypeOK
    <2>3. /\ options' \in [stated : Facts, infusionsRead : BOOLEAN]
          /\ batched' \in BOOLEAN /\ others' \in BOOLEAN /\ budgeted' \in BOOLEAN
      BY <1>1, <1>3 DEF TypeOK
    <2> QED BY <1>6, <2>1, <2>2, <2>3 DEF TypeOK
  <1>9. DeletedCovered'
    BY <1>1, <1>3, <1>4, <1>6, <1>7 DEF DeletedCovered, StateFacts
  <1>10. CheapCovered'
    BY <1>3, <1>6 DEF CheapCovered
  <1>11. BurnsShrink'
    BY <1>1, <1>3, <1>4, <1>5, <1>6, <1>7 DEF BurnsShrink
  <1> QED BY <1>6, <1>8, <1>9, <1>10, <1>11 DEF PlanInv

LEMMA ReturnKeeps ==
    ASSUME PlanInv, DescribeReturnedAsset
    PROVE  PlanInv'
  <1>1. TypeOK /\ Dominates(plan, chain) /\ DeletedCovered /\ CheapCovered /\ BurnsShrink
    BY DEF PlanInv
  <1>2. PICK nonFungible \in BOOLEAN, free \in BOOLEAN, listed \in BOOLEAN, holds \in BOOLEAN,
             instances \in Counts \ {0} :
          /\ listed => holds
          /\ Add(ReturnedAsset(nonFungible, instances, free, listed),
                 ReturnedAsset(nonFungible, instances, free, listed),
                 ReturnedAsset(nonFungible, instances, free, holds))
    BY DEF DescribeReturnedAsset
  <1>3. /\ phase = "returns" /\ returned' = returned + 1
        /\ UNCHANGED <<options, batched, phase, calls, takeInfusions, burned, others, budgeted>>
    BY DEF DescribeReturnedAsset
  <1> DEFINE p == ReturnedAsset(nonFungible, instances, free, listed)
             a == ReturnedAsset(nonFungible, instances, free, holds)
  <1>4. Covers(p, a) /\ p.new <= p.deleted /\ a.new <= a.deleted /\ ChargesCover(a, p)
    <2>1. Covers(p, a) /\ p.new <= p.deleted /\ a.new <= a.deleted
      BY <1>2, InputFacts, ReturnedAssetCovers
    <2>2. a.queries = p.queries /\ a.result = p.result
      BY DEF ReturnedAsset, Model
    <2>3. a.queries \in Nat /\ a.result \in Nat
      BY <2>1 DEF Covers, ModelType
    <2> HIDE DEF p, a
    <2> QED BY <2>1, <2>2, <2>3 DEF Covers, Dominates, ChargesCover
  <1> HIDE DEF p, a
  <1>5. p \in ModelType /\ a \in ModelType /\ Dominates(p, a) /\ p.deleted = a.deleted
    BY <1>4 DEF Covers
  <1>6. /\ plan' \in ModelType /\ cheap' \in ModelType /\ chain' \in ModelType
        /\ Dominates(plan, chain)' /\ ChargesCover(chain, cheap)'
        /\ plan'.new = plan.new + p.new /\ plan'.deleted = plan.deleted + p.deleted
        /\ chain'.new = chain.new + a.new /\ chain'.deleted = chain.deleted + a.deleted
        /\ cheap'.new = cheap.new + p.new /\ cheap'.deleted = cheap.deleted + p.deleted
        /\ plan.new \in Nat /\ plan.deleted \in Nat /\ chain.new \in Nat
        /\ chain.deleted \in Nat /\ cheap.new \in Nat /\ cheap.deleted \in Nat
    BY <1>1, <1>2, <1>4, <1>5, AddKeeps DEF p, a, CheapCovered
  <1>7. p.new \in Nat /\ p.deleted \in Nat /\ a.new \in Nat /\ a.deleted \in Nat
    BY <1>5 DEF ModelType
  <1>8. TypeOK'
    BY <1>1, <1>3, <1>6 DEF TypeOK
  <1>9. DeletedCovered'
    BY <1>1, <1>3, <1>5, <1>6, <1>7 DEF DeletedCovered
  <1>10. CheapCovered'
    <2>1. burned'
      BY <1>1, <1>3 DEF BurnsShrink
    <2> QED BY <1>6, <2>1 DEF CheapCovered
  <1>11. BurnsShrink'
    BY <1>1, <1>3, <1>4, <1>6, <1>7 DEF BurnsShrink
  <1> QED BY <1>6, <1>8, <1>9, <1>10, <1>11 DEF PlanInv

\* The steps that leave the totals alone.
LEMMA PhasesKeep ==
    ASSUME PlanInv, phase' \in {"calls", "planned", "refused"},
           UNCHANGED <<options, batched, plan, cheap, chain, calls, returned, takeInfusions,
                       burned, others, budgeted>>
    PROVE  PlanInv'
  <1>1. TypeOK'
    BY DEF PlanInv, TypeOK
  <1>2. Dominates(plan, chain)' /\ DeletedCovered' /\ CheapCovered' /\ BurnsShrink'
    BY DEF PlanInv, Dominates, ChargesCover, DeletedCovered, CheapCovered, BurnsShrink
  <1> QED BY <1>1, <1>2 DEF PlanInv

----------------------------------------------------------------------------
(* The invariant and the storage ceiling.                                  *)

LEMMA InitPlanInv == Init => PlanInv
  <1> SUFFICES ASSUME Init PROVE PlanInv
    OBVIOUS
  <1>1. PICK stated \in Statements, read \in BOOLEAN :
          options = [stated |-> stated, infusionsRead |-> read]
    BY DEF Init
  <1>2. options \in [stated : Facts, infusionsRead : BOOLEAN]
    BY <1>1, InputsAssumption
  <1>3. Nothing \in ModelType
    BY DEF Nothing, Model, ModelType
  <1>4. TypeOK
    BY <1>2, <1>3 DEF Init, TypeOK
  <1>5. Dominates(plan, chain) /\ DeletedCovered /\ CheapCovered /\ BurnsShrink
    BY DEF Init, Nothing, Model, Dominates, ChargesCover, DeletedCovered, CheapCovered, BurnsShrink
  <1> QED BY <1>4, <1>5 DEF PlanInv

\* PlanInv holds in every state: the plan's totals dominate the chain's, take no
\* more off for deleted rows than they may, and a message of burns alone has no
\* net growth (FeePlan.h, Describe and DescribeCall).
THEOREM PlanInvariant == Spec => []PlanInv
  <1>1. PlanInv /\ [Next]_vars => PlanInv'
    <2> SUFFICES ASSUME PlanInv, [Next]_vars PROVE PlanInv'
      OBVIOUS
    <2>1. CASE DescribeTransferFungible \/ DescribeTransferNonFungible
      BY <2>1, TransfersKeep
    <2>2. CASE DescribeMintFungible \/ DescribeBurnFungible
      BY <2>2, FungiblesKeep
    <2>3. CASE DescribeMintNonFungible \/ DescribeMintPhantasma
      BY <2>3, MintsKeep
    <2>4. CASE DescribeCreateToken \/ DescribeCreateTokenSeries \/ DescribeRegisterName
      BY <2>4, CreationsKeep
    <2>5. CASE DescribeScript
      BY <2>5, ScriptKeeps
    <2>6. CASE DescribeBurnNonFungible
      BY <2>6, BurnKeeps
    <2>7. CASE DescribeReturnedAsset
      BY <2>7, ReturnKeeps
    <2>8. CASE EndOfList \/ Answer
      BY <2>8, PhasesKeep DEF EndOfList, Answer
    <2>9. CASE \/ RefuseMessage \/ RefuseUnread \/ RefuseNoInstance \/ RefuseLength
               \/ RefuseEmptyAsset
      BY <2>9, PhasesKeep
         DEF RefuseMessage, RefuseUnread, RefuseNoInstance, RefuseLength, RefuseEmptyAsset, Refuse
    <2>10. CASE UNCHANGED vars
      BY <2>10 DEF vars, PlanInv, TypeOK, Dominates, ChargesCover, DeletedCovered, CheapCovered,
                     BurnsShrink
    <2> QED
      BY <2>1, <2>2, <2>3, <2>4, <2>5, <2>6, <2>7, <2>8, <2>9, <2>10 DEF Next
  <1> QED BY InitPlanInv, <1>1, PTL DEF Spec

\* The options, the totals and the flags keep their types.
THEOREM PlanTypeOK == Spec => []TypeOK
  <1>1. PlanInv => TypeOK
    BY DEF PlanInv
  <1> QED BY <1>1, PlanInvariant, PTL

\* The storage ceiling of a plan covers every row the chain creates, whatever
\* the unstated facts turn out to be and whatever the batch mixes, for every
\* escrow price and word width (FeeEstimator.h, Settle's maxData).
THEOREM CeilingCoversEscrow == Spec => []EscrowCovered
  <1>1. PlanInv => EscrowCovered
    <2> SUFFICES ASSUME PlanInv
                 PROVE MaxData(plan) >= SaturatingMul(chain.new, dataEscrowPerRow)
      BY DEF EscrowCovered
    <2>1. plan.new \in Nat /\ chain.new \in Nat /\ chain.new <= plan.new
      BY DEF PlanInv, TypeOK, ModelType, Dominates, ChargesCover
    <2>2. SaturatingMul(chain.new, dataEscrowPerRow) <= SaturatingMul(plan.new, dataEscrowPerRow)
      BY <2>1, PricesAreNumbers, SaturatingMulGrows
    <2>3. /\ SaturatingMul(chain.new, dataEscrowPerRow) \in Nat
          /\ SaturatingMul(plan.new, dataEscrowPerRow) \in Nat
      BY <2>1, PricesAreNumbers, SaturatingMulClamps, ProductGrows, WordFacts DEF Clamped
    <2> QED BY <2>2, <2>3 DEF MaxData
  <1> QED BY <1>1, PlanInvariant, PTL

----------------------------------------------------------------------------
(* The bill: scaling the sum of the charges once covers the chain, which   *)
(* scales each charge as it is made.                                       *)

LEMMA DivAtLeast ==
    ASSUME NEW n \in Nat, NEW a \in Nat, NEW b \in Nat \ {0}, b * a <= n
    PROVE  a <= n \div b
  <1>1. n \div b \in Nat /\ n < b * (n \div b) + b
    BY DivisionFacts
  <1>2. SUFFICES ASSUME n \div b + 1 <= a PROVE FALSE
    BY <1>1
  <1>3. (n \div b + 1) * b <= a * b
    BY <1>1, <1>2, ProductGrows
  <1>4. (n \div b + 1) * b = b * (n \div b) + b /\ a * b = b * a
    BY <1>1
  <1> QED BY <1>1, <1>3, <1>4

Power == 2 ^ feeShift
Unclamped(n) == (n * feeMultiplier) \div Power

LEMMA ScaleFacts ==
    /\ feeMultiplier \in Nat /\ Power \in Nat \ {0}
    /\ gasFeeTransfer \in Nat /\ gasFeeQuery \in Nat /\ gasFeePerByte \in Nat
    /\ UnitsPerByte \in Nat /\ minimumGasBill \in U64 /\ minimumGasOffer \in Nat
    /\ EnvelopeSize \in Nat /\ kU64Max \in Nat /\ V2 \in BOOLEAN
  BY ConfigAssumption, WordFacts DEF Power

LEMMA UnclampedType ==
    ASSUME NEW n \in Nat
    PROVE  /\ n * feeMultiplier \in Nat /\ Unclamped(n) \in Nat
           /\ Power * Unclamped(n) <= n * feeMultiplier
  <1>1. n * feeMultiplier \in Nat
    BY ScaleFacts
  <1> QED BY <1>1, ScaleFacts, DivisionFacts DEF Unclamped

LEMMA UnclampedAdds ==
    ASSUME NEW x \in Nat, NEW y \in Nat
    PROVE  Unclamped(x) + Unclamped(y) <= Unclamped(x + y)
  <1>1. /\ x * feeMultiplier \in Nat /\ Unclamped(x) \in Nat
        /\ Power * Unclamped(x) <= x * feeMultiplier
        /\ y * feeMultiplier \in Nat /\ Unclamped(y) \in Nat
        /\ Power * Unclamped(y) <= y * feeMultiplier
    BY UnclampedType
  <1>2. (x + y) * feeMultiplier = x * feeMultiplier + y * feeMultiplier
    BY ScaleFacts
  <1>3. Power * (Unclamped(x) + Unclamped(y)) = Power * Unclamped(x) + Power * Unclamped(y)
    BY <1>1, ScaleFacts
  <1>4. Power * Unclamped(x) \in Nat /\ Power * Unclamped(y) \in Nat
    BY <1>1, ScaleFacts
  <1>5. Power * (Unclamped(x) + Unclamped(y)) <= (x + y) * feeMultiplier
    BY <1>1, <1>2, <1>3, <1>4
  <1>6. Unclamped(x) + Unclamped(y) \in Nat /\ (x + y) * feeMultiplier \in Nat
    BY <1>1, <1>2
  <1>7. Unclamped(x) + Unclamped(y) <= ((x + y) * feeMultiplier) \div Power
    BY <1>5, <1>6, ScaleFacts, DivAtLeast
  <1> QED BY <1>7 DEF Unclamped

LEMMA UnclampedGrows ==
    ASSUME NEW x \in Nat, NEW y \in Nat, x <= y
    PROVE  Unclamped(x) <= Unclamped(y)
  <1>1. y - x \in Nat /\ x + (y - x) = y
    OBVIOUS
  <1>2. Unclamped(x) + Unclamped(y - x) <= Unclamped(y)
    BY <1>1, UnclampedAdds
  <1>3. Unclamped(x) \in Nat /\ Unclamped(y - x) \in Nat /\ Unclamped(y) \in Nat
    BY <1>1, UnclampedType
  <1> QED BY <1>2, <1>3

LEMMA UnclampedMultiplies ==
    ASSUME NEW k \in Nat, NEW x \in Nat
    PROVE  k * Unclamped(x) <= Unclamped(k * x)
  <1>1. /\ x * feeMultiplier \in Nat /\ Unclamped(x) \in Nat
        /\ Power * Unclamped(x) <= x * feeMultiplier
    BY UnclampedType
  <1>2. Power * Unclamped(x) \in Nat
    BY <1>1, ScaleFacts
  <1>3. (Power * Unclamped(x)) * k <= (x * feeMultiplier) * k
    BY <1>1, <1>2, ProductGrows
  <1>4. Power * (k * Unclamped(x)) = (Power * Unclamped(x)) * k
    BY <1>1, ScaleFacts
  <1>5. (k * x) * feeMultiplier = (x * feeMultiplier) * k
    BY ScaleFacts
  <1>6. k * Unclamped(x) \in Nat /\ k * x \in Nat /\ (k * x) * feeMultiplier \in Nat
    BY <1>1, ScaleFacts
  <1>7. Power * (k * Unclamped(x)) <= (k * x) * feeMultiplier
    BY <1>3, <1>4, <1>5
  <1> QED BY <1>6, <1>7, ScaleFacts, DivAtLeast DEF Unclamped

LEMMA ScaledIs ==
    ASSUME NEW n \in Nat
    PROVE  /\ Scaled(n) = IF feeShift >= WordBits THEN 0 ELSE Clamped(Unclamped(n))
           /\ Scaled(n) \in Nat /\ Scaled(n) <= Unclamped(n)
  <1>1. Scaled(n) = IF feeShift >= WordBits THEN 0 ELSE Clamped(Unclamped(n))
    BY DEF Scaled, MulShift, Clamped, Unclamped, Power
  <1>2. Unclamped(n) \in Nat
    BY UnclampedType
  <1> QED BY <1>1, <1>2, WordFacts DEF Clamped

\* A message whose unscaled work and bytes fit the word is quoted without a clamp
\* before the scaling.
LEMMA FittingWork ==
    ASSUME NEW m \in ModelType, WorkFits(m)
    PROVE  /\ m.transfers * gasFeeTransfer \in Nat /\ m.queries * gasFeeQuery \in Nat
           /\ m.units \in Nat /\ BlockData(m) \in Nat
           /\ WorkUnits(m) = m.transfers * gasFeeTransfer + m.queries * gasFeeQuery + m.units
           /\ V2 => /\ BlockData(m) * UnitsPerByte \in Nat
                    /\ SaturatingMul(BlockData(m), UnitsPerByte) = BlockData(m) * UnitsPerByte
                    /\ SaturatingAdd(WorkUnits(m), SaturatingMul(BlockData(m), UnitsPerByte))
                         = WorkUnits(m) + BlockData(m) * UnitsPerByte
  <1> DEFINE T == m.transfers * gasFeeTransfer
             Q == m.queries * gasFeeQuery
             B == BlockData(m) * UnitsPerByte
  <1>1. /\ m.transfers \in Nat /\ m.queries \in Nat /\ m.units \in Nat /\ m.result \in Nat
        /\ m.new \in Nat /\ m.deleted \in Nat
    BY DEF ModelType
  <1>2. BlockData(m) \in Nat
    BY <1>1, ScaleFacts DEF BlockData, NetQuanta
  <1>3. T \in Nat /\ Q \in Nat /\ B \in Nat
    BY <1>1, <1>2, ScaleFacts
  <1>4. T + Q + m.units <= kU64Max /\ (V2 => T + Q + m.units + B <= kU64Max)
    <2>1. CASE V2
      <3>1. T + Q + m.units + B <= kU64Max
        BY <2>1 DEF WorkFits
      <3> HIDE DEF T, Q, B
      <3> QED BY <1>1, <1>3, <3>1, ScaleFacts
    <2>2. CASE ~V2
      <3>1. T + Q + m.units + BlockData(m) * 0 <= kU64Max
        BY <2>2 DEF WorkFits
      <3>2. BlockData(m) * 0 = 0
        BY <1>2
      <3> HIDE DEF T, Q, B
      <3> QED BY <1>1, <1>3, <2>2, <3>1, <3>2, ScaleFacts
    <2> QED BY <2>1, <2>2, ScaleFacts
  <1>5. /\ SaturatingMul(gasFeeTransfer, m.transfers) = Clamped(gasFeeTransfer * m.transfers)
        /\ SaturatingMul(gasFeeQuery, m.queries) = Clamped(gasFeeQuery * m.queries)
        /\ SaturatingMul(BlockData(m), UnitsPerByte) = Clamped(B)
    BY <1>1, <1>2, ScaleFacts, SaturatingMulClamps
  <1>6. gasFeeTransfer * m.transfers = T /\ gasFeeQuery * m.queries = Q
    BY <1>1, ScaleFacts
  <1> HIDE DEF T, Q, B
  <1>7. /\ Clamped(T) = T /\ Clamped(Q) = Q /\ Clamped(m.units) = m.units
        /\ V2 => Clamped(B) = B
    BY <1>1, <1>3, <1>4, ScaleFacts DEF Clamped
  <1>8. WorkUnits(m) = T + Q + m.units
    BY <1>1, <1>3, <1>4, <1>5, <1>6, <1>7, ScaleFacts DEF WorkUnits, SaturatingAdd
  <1>9. V2 => SaturatingAdd(T + Q + m.units, B) = T + Q + m.units + B
    BY <1>1, <1>3, <1>4, ScaleFacts DEF SaturatingAdd
  <1>10. V2 => SaturatingMul(BlockData(m), UnitsPerByte) = B
    BY <1>5, <1>7
  <1> QED BY <1>1, <1>2, <1>3, <1>8, <1>9, <1>10 DEF T, Q, B

\* The chain counts no more block data than the plan, when what the plan takes
\* off for deleted rows is no more than the chain does, or nothing is net.
LEMMA BlockDataCovered ==
    ASSUME PlanInv, Mixed => ~options.stated["romHasMetaId"]
    PROVE  BlockData(plan) \in Nat /\ BlockData(chain) \in Nat /\ BlockData(chain) <= BlockData(plan)
  <1>1. /\ plan.new \in Nat /\ plan.deleted \in Nat /\ plan.result \in Nat
        /\ chain.new \in Nat /\ chain.deleted \in Nat /\ chain.result \in Nat
        /\ chain.new <= plan.new /\ chain.result <= plan.result
    BY DEF PlanInv, TypeOK, ModelType, Dominates, ChargesCover
  <1>2. \/ plan.deleted <= chain.deleted
        \/ plan.new <= plan.deleted /\ chain.new <= chain.deleted
    BY <1>1 DEF PlanInv, DeletedCovered, BurnsShrink, Mixed
  <1>3. NetQuanta(plan) \in Nat /\ NetQuanta(chain) \in Nat /\ NetQuanta(chain) <= NetQuanta(plan)
    BY <1>1, <1>2 DEF NetQuanta
  <1> QED BY <1>1, <1>3, ScaleFacts DEF BlockData

\* A charge the chain makes k times, scaled each time, against the k charges
\* scaled together.
LEMMA ChargeCovered ==
    ASSUME NEW k \in Nat, NEW charge \in Nat
    PROVE  /\ SaturatingMul(k, Scaled(charge)) \in Nat
           /\ SaturatingMul(k, Scaled(charge)) <= Unclamped(k * charge)
           /\ feeShift >= WordBits => SaturatingMul(k, Scaled(charge)) = 0
  <1>1. /\ Scaled(charge) \in Nat /\ Scaled(charge) <= Unclamped(charge)
        /\ feeShift >= WordBits => Scaled(charge) = 0
    BY ScaledIs
  <1>2. Unclamped(charge) \in Nat
    BY UnclampedType
  <1>3. /\ Scaled(charge) * k \in Nat /\ Unclamped(charge) * k \in Nat
        /\ Scaled(charge) * k <= Unclamped(charge) * k
    BY <1>1, <1>2, ProductGrows
  <1>4. k * Scaled(charge) = Scaled(charge) * k /\ k * Unclamped(charge) = Unclamped(charge) * k
    BY <1>1, <1>2
  <1>5. k * Unclamped(charge) <= Unclamped(k * charge)
    BY UnclampedMultiplies
  <1>6. Unclamped(k * charge) \in Nat
    BY UnclampedType
  <1>7. SaturatingMul(k, Scaled(charge)) = Clamped(k * Scaled(charge))
    BY <1>1, SaturatingMulClamps
  <1>8. ASSUME NEW x \in Nat PROVE Clamped(x) \in Nat /\ Clamped(x) <= x
    BY WordFacts DEF Clamped
  <1>9. k * Scaled(charge) \in Nat /\ k * Unclamped(charge) \in Nat
    BY <1>3, <1>4
  <1>10. Clamped(k * Scaled(charge)) \in Nat /\ Clamped(k * Scaled(charge)) <= k * Scaled(charge)
    BY <1>8, <1>9
  <1>11. SaturatingMul(k, Scaled(charge)) <= Unclamped(k * charge)
    BY <1>3, <1>4, <1>5, <1>6, <1>7, <1>9, <1>10
  <1>12. feeShift >= WordBits => SaturatingMul(k, Scaled(charge)) = 0
    BY <1>1 DEF SaturatingMul
  <1> QED BY <1>7, <1>10, <1>11, <1>12

\* What the chain bills for work, charge by charge.
ChainWork(m) ==
    SaturatingMul(m.transfers, Scaled(gasFeeTransfer))
      + SaturatingMul(m.queries, Scaled(gasFeeQuery)) + Scaled(Clamped(m.units))

LEMMA WorkCovered ==
    ASSUME PlanInv, WorkFits(plan)
    PROVE  /\ WorkUnits(plan) \in Nat /\ ChainWork(chain) \in Nat
           /\ ChainWork(chain) <= Unclamped(WorkUnits(plan))
           /\ feeShift >= WordBits => ChainWork(chain) = 0
  <1>1. /\ plan \in ModelType /\ chain \in ModelType /\ Dominates(plan, chain)
    BY DEF PlanInv, TypeOK
  <1>2. /\ chain.transfers \in Nat /\ chain.queries \in Nat /\ chain.units \in Nat
        /\ plan.transfers = chain.transfers /\ plan.units = chain.units
        /\ plan.queries \in Nat /\ chain.queries <= plan.queries
    BY <1>1 DEF ModelType, Dominates, ChargesCover
  <1>3. /\ SaturatingMul(chain.transfers, Scaled(gasFeeTransfer)) \in Nat
        /\ SaturatingMul(chain.transfers, Scaled(gasFeeTransfer))
             <= Unclamped(chain.transfers * gasFeeTransfer)
        /\ feeShift >= WordBits => SaturatingMul(chain.transfers, Scaled(gasFeeTransfer)) = 0
    BY <1>2, ScaleFacts, ChargeCovered
  <1>4. /\ SaturatingMul(chain.queries, Scaled(gasFeeQuery)) \in Nat
        /\ SaturatingMul(chain.queries, Scaled(gasFeeQuery))
             <= Unclamped(chain.queries * gasFeeQuery)
        /\ feeShift >= WordBits => SaturatingMul(chain.queries, Scaled(gasFeeQuery)) = 0
    BY <1>2, ScaleFacts, ChargeCovered
  <1>5. /\ Clamped(chain.units) \in Nat /\ Clamped(chain.units) <= chain.units
    BY <1>2, WordFacts DEF Clamped
  <1>6. /\ Scaled(Clamped(chain.units)) \in Nat
        /\ Scaled(Clamped(chain.units)) <= Unclamped(Clamped(chain.units))
        /\ feeShift >= WordBits => Scaled(Clamped(chain.units)) = 0
    BY <1>5, ScaledIs
  <1>7. Unclamped(Clamped(chain.units)) <= Unclamped(chain.units)
    BY <1>2, <1>5, UnclampedGrows
  <1> DEFINE t == chain.transfers * gasFeeTransfer
             q == chain.queries * gasFeeQuery
             Q == plan.queries * gasFeeQuery
             u == chain.units
  <1>8. t \in Nat /\ q \in Nat /\ Q \in Nat /\ u \in Nat /\ q <= Q
    BY <1>2, ScaleFacts, ProductGrows
  <1>9. WorkUnits(plan) = t + Q + u
    BY <1>1, <1>2, FittingWork
  <1> HIDE DEF t, q, Q, u
  <1>10. Unclamped(t) + Unclamped(q) <= Unclamped(t + q)
    BY <1>8, UnclampedAdds
  <1>11. Unclamped(t + q) + Unclamped(u) <= Unclamped((t + q) + u)
    BY <1>8, UnclampedAdds
  <1>12. Unclamped((t + q) + u) <= Unclamped(t + Q + u)
    BY <1>8, UnclampedGrows
  <1>13. /\ Unclamped(t) \in Nat /\ Unclamped(q) \in Nat /\ Unclamped(u) \in Nat
         /\ Unclamped(t + q) \in Nat /\ Unclamped((t + q) + u) \in Nat
         /\ Unclamped(t + Q + u) \in Nat /\ Unclamped(Clamped(u)) \in Nat
    BY <1>5, <1>8, UnclampedType DEF u
  <1>14. /\ ChainWork(chain) \in Nat
         /\ ChainWork(chain) <= Unclamped(t) + Unclamped(q) + Unclamped(u)
         /\ feeShift >= WordBits => ChainWork(chain) = 0
    BY <1>3, <1>4, <1>6, <1>7, <1>13 DEF ChainWork, t, q, u
  <1>15. ChainWork(chain) <= Unclamped(t + Q + u)
    BY <1>10, <1>11, <1>12, <1>13, <1>14
  <1> QED BY <1>8, <1>9, <1>14, <1>15

LEMMA ClampedType == ASSUME NEW x \in Nat PROVE Clamped(x) \in Nat /\ Clamped(x) <= kU64Max
  BY WordFacts DEF Clamped

LEMMA SaturatingAddClamps ==
    ASSUME NEW a \in Nat, NEW b \in Nat, a <= kU64Max, b <= kU64Max
    PROVE  SaturatingAdd(a, b) = Clamped(a + b)
  BY WordFacts DEF SaturatingAdd, Clamped

LEMMA BillCoveredV2 ==
    ASSUME PlanInv, WorkFits(plan), Mixed => ~options.stated["romHasMetaId"], V2
    PROVE  /\ ChainBill(chain) \in Nat /\ ExpectedGasBill(plan) \in Nat
           /\ ChainBill(chain) <= ExpectedGasBill(plan)
           /\ MaxGas(plan) >= ChainBill(chain)
  <1>1. /\ plan \in ModelType /\ chain \in ModelType /\ plan.policy \in Nat
        /\ chain.policy = plan.policy
    BY DEF PlanInv, TypeOK, ModelType, Dominates, ChargesCover
  <1>2. /\ BlockData(plan) \in Nat /\ BlockData(chain) \in Nat
        /\ BlockData(chain) <= BlockData(plan)
    BY BlockDataCovered
  <1> DEFINE w    == WorkUnits(plan)
             B    == BlockData(plan) * UnitsPerByte
             paid == SaturatingMul(BlockData(chain), UnitsPerByte)
             U    == Unclamped(w + B)
             p    == plan.policy
  <1>3. /\ w \in Nat /\ ChainWork(chain) \in Nat /\ ChainWork(chain) <= Unclamped(w)
        /\ feeShift >= WordBits => ChainWork(chain) = 0
    BY WorkCovered
  <1>4. /\ B \in Nat /\ SaturatingAdd(w, SaturatingMul(BlockData(plan), UnitsPerByte)) = w + B
    BY <1>1, FittingWork
  <1>5. paid \in Nat /\ paid <= B
    <2>1. BlockData(chain) * UnitsPerByte \in Nat /\ BlockData(chain) * UnitsPerByte <= B
      BY <1>2, ScaleFacts, ProductGrows
    <2>2. paid = Clamped(BlockData(chain) * UnitsPerByte)
      BY <1>2, ScaleFacts, SaturatingMulClamps
    <2> HIDE DEF paid, B
    <2>3. /\ Clamped(BlockData(chain) * UnitsPerByte) \in Nat
          /\ Clamped(BlockData(chain) * UnitsPerByte) <= BlockData(chain) * UnitsPerByte
      BY <2>1, WordFacts DEF Clamped
    <2> QED BY <1>4, <2>1, <2>2, <2>3
  <1> HIDE DEF w, B, paid
  <1>6. /\ Scaled(paid) \in Nat /\ Scaled(paid) <= Unclamped(paid)
        /\ feeShift >= WordBits => Scaled(paid) = 0
    BY <1>5, ScaledIs
  <1>7. /\ Unclamped(paid) \in Nat /\ Unclamped(w) \in Nat /\ Unclamped(B) \in Nat
        /\ w + B \in Nat /\ U \in Nat
        /\ Scaled(w + B) = IF feeShift >= WordBits THEN 0 ELSE Clamped(U)
    <2>1. w + B \in Nat
      BY <1>3, <1>4
    <2>2. U \in Nat /\ Scaled(w + B) = IF feeShift >= WordBits THEN 0 ELSE Clamped(U)
      BY <2>1, ScaledIs, UnclampedType
    <2> QED BY <1>3, <1>4, <1>5, <2>1, <2>2, UnclampedType
  <1>8. Unclamped(paid) <= Unclamped(B)
    BY <1>4, <1>5, UnclampedGrows
  <1>9. Unclamped(w) + Unclamped(B) <= U
    BY <1>3, <1>4, UnclampedAdds
  <1> HIDE DEF U
  <1> DEFINE X    == ChainWork(chain) + Scaled(paid)
             quote == SaturatingAdd(Scaled(w + B), Clamped(p))
  <1>10. ChainBill(chain) =
           Clamped(IF X + p < minimumGasBill THEN minimumGasBill ELSE X + p)
    BY <1>1 DEF ChainBill, ChainWork, paid
  <1>11. ExpectedGasBill(plan) = IF quote < minimumGasBill THEN minimumGasBill ELSE quote
    BY <1>4 DEF ExpectedGasBill, w
  <1>12. p \in Nat
    BY <1>1
  <1> HIDE DEF X, p
  <1>13. quote = Clamped((IF feeShift >= WordBits THEN 0 ELSE Clamped(U)) + Clamped(p))
    <2>1. Clamped(U) \in Nat /\ Clamped(U) <= kU64Max
      BY <1>7, ClampedType
    <2>2. Clamped(p) \in Nat /\ Clamped(p) <= kU64Max
      BY <1>12, ClampedType
    <2>3. Scaled(w + B) \in Nat /\ Scaled(w + B) <= kU64Max
      BY <1>7, <2>1, WordFacts
    <2>4. SaturatingAdd(Scaled(w + B), Clamped(p)) = Clamped(Scaled(w + B) + Clamped(p))
      BY <2>2, <2>3, SaturatingAddClamps
    <2> QED BY <1>7, <2>4
  <1>14. X \in Nat /\ X <= U /\ (feeShift >= WordBits => X = 0)
    BY <1>3, <1>6, <1>7, <1>8, <1>9 DEF X
  <1> HIDE DEF quote
  <1>15. Clamped(X + p) <= quote /\ quote \in Nat /\ quote <= kU64Max
    BY <1>7, <1>12, <1>13, <1>14, WordFacts DEF Clamped
  <1>16. ChainBill(chain) <= ExpectedGasBill(plan)
    <2>1. minimumGasBill \in Nat /\ minimumGasBill <= kU64Max
      BY ScaleFacts, WordFacts
    <2> QED BY <1>10, <1>11, <1>12, <1>14, <1>15, <2>1, WordFacts DEF Clamped
  <1>17. ChainBill(chain) \in Nat /\ ExpectedGasBill(plan) \in Nat
    BY <1>10, <1>11, <1>12, <1>14, <1>15, ScaleFacts, WordFacts DEF Clamped
  <1> QED BY <1>16, <1>17, ScaleFacts DEF MaxGas

LEMMA BillCoveredV1 ==
    ASSUME PlanInv, WorkFits(plan), Mixed => ~options.stated["romHasMetaId"], ~V2
    PROVE  MaxGas(plan) >= ChainBill(chain)
  <1>1. /\ BlockData(plan) \in Nat /\ BlockData(chain) \in Nat
        /\ BlockData(chain) <= BlockData(plan)
    BY BlockDataCovered
  <1> DEFINE w     == WorkUnits(plan)
             U     == Unclamped(w)
             floor == SaturatingMul(minimumGasOffer, 2)
             bytes == IF BlockData(plan) > 1024 THEN BlockData(plan) ELSE 1024
             Y     == SaturatingMul(bytes, gasFeePerByte)
             Z     == SaturatingMul(BlockData(chain), gasFeePerByte)
             X     == ChainWork(chain)
  <1>2. /\ w \in Nat /\ X \in Nat /\ X <= U /\ (feeShift >= WordBits => X = 0)
    BY WorkCovered
  <1>3. /\ Scaled(w) = IF feeShift >= WordBits THEN 0 ELSE Clamped(U)
        /\ U \in Nat
    BY <1>2, ScaledIs, UnclampedType
  <1>4. bytes \in Nat /\ BlockData(chain) <= bytes
    BY <1>1
  <1> HIDE DEF w, U, bytes, X
  <1>5. /\ Y \in Nat /\ Y <= kU64Max /\ Z \in Nat /\ Z <= Y
    <2>1. Z <= Y
      BY <1>1, <1>4, ScaleFacts, SaturatingMulGrows
    <2>2. /\ Y = Clamped(bytes * gasFeePerByte) /\ Z = Clamped(BlockData(chain) * gasFeePerByte)
          /\ bytes * gasFeePerByte \in Nat /\ BlockData(chain) * gasFeePerByte \in Nat
      <3>1. bytes * gasFeePerByte \in Nat /\ BlockData(chain) * gasFeePerByte \in Nat
        BY <1>1, <1>4, ScaleFacts
      <3>2. Y = Clamped(bytes * gasFeePerByte)
        BY <1>4, ScaleFacts, SaturatingMulClamps
      <3>3. Z = Clamped(BlockData(chain) * gasFeePerByte)
        BY <1>1, ScaleFacts, SaturatingMulClamps
      <3> QED BY <3>1, <3>2, <3>3
    <2> QED BY <2>1, <2>2, ClampedType
  <1>6. floor \in Nat /\ floor <= kU64Max
    <2>1. floor = Clamped(minimumGasOffer * 2) /\ minimumGasOffer * 2 \in Nat
      BY ScaleFacts, SaturatingMulClamps
    <2> QED BY <2>1, ClampedType
  <1>7. MaxGas(plan) = SaturatingAdd(SaturatingAdd(floor, Scaled(w)), Y)
    BY DEF MaxGas, w, bytes
  <1>8. ChainBill(chain) = Clamped(X + Z)
    BY DEF ChainBill, ChainWork, X
  <1> HIDE DEF floor, Y, Z
  <1>9. Scaled(w) \in Nat /\ Scaled(w) <= kU64Max
    BY <1>3, ClampedType, WordFacts
  <1>10. SaturatingAdd(floor, Scaled(w)) = Clamped(floor + Scaled(w))
    BY <1>6, <1>9, SaturatingAddClamps
  <1>11. MaxGas(plan) = Clamped(Clamped(floor + Scaled(w)) + Y)
    <2>1. Clamped(floor + Scaled(w)) \in Nat /\ Clamped(floor + Scaled(w)) <= kU64Max
      BY <1>6, <1>9, ClampedType
    <2> QED BY <1>5, <1>7, <1>10, <2>1, SaturatingAddClamps
  <1>12. Clamped(X) <= Scaled(w)
    BY <1>2, <1>3, WordFacts DEF Clamped
  <1> QED BY <1>2, <1>5, <1>6, <1>8, <1>9, <1>11, <1>12, WordFacts DEF Clamped

\* The offer of a plan covers what the chain bills, for every gas config under
\* both gas models, every word width and every batch, when the work fits a word,
\* nothing is budgeted, and a batch that mixes a burn with other operations
\* states romHasMetaId (FeePlan.h, PlanFees; FeeEstimator.h, Settle).
THEOREM OfferCoversBill == Spec => []BillCovered
  <1>1. PlanInv => BillCovered
    BY BillCoveredV1, BillCoveredV2 DEF BillCovered
  <1> QED BY <1>1, PlanInvariant, PTL

----------------------------------------------------------------------------
(* An exact plan: nothing it left open moves the quote, so the quote is    *)
(* that of the cheaper reading too, and what the chain counts lies between *)
(* the two; it differs by what the chain rounds off, charge by charge.     *)

\* Scaling loses less than one.
LEMMA UnclampedLosesLess ==
    ASSUME NEW x \in Nat
    PROVE  x * feeMultiplier <= Power * (Unclamped(x) + 1)
  <1>1. /\ x * feeMultiplier \in Nat /\ Unclamped(x) \in Nat
        /\ x * feeMultiplier < Power * Unclamped(x) + Power
    BY UnclampedType, ScaleFacts, DivisionFacts DEF Unclamped
  <1>2. /\ Power * (Unclamped(x) + 1) = Power * Unclamped(x) + Power
        /\ Power * Unclamped(x) \in Nat
    BY <1>1, ScaleFacts
  <1> QED BY <1>1, <1>2, ScaleFacts

\* A number whose product with the multiplier is at most Power * bound scales to
\* at most bound.
LEMMA UnclampedAtMost ==
    ASSUME NEW x \in Nat, NEW bound \in Nat, x * feeMultiplier <= Power * bound
    PROVE  Unclamped(x) <= bound
  <1>1. /\ x * feeMultiplier \in Nat /\ Unclamped(x) \in Nat
        /\ Power * Unclamped(x) <= x * feeMultiplier
    BY UnclampedType
  <1>2. SUFFICES ASSUME bound + 1 <= Unclamped(x) PROVE FALSE
    BY <1>1
  <1>3. (bound + 1) * Power <= Unclamped(x) * Power
    BY <1>1, <1>2, ScaleFacts, ProductGrows
  <1>4. /\ (bound + 1) * Power = Power * bound + Power
        /\ Unclamped(x) * Power = Power * Unclamped(x)
        /\ Power * bound \in Nat /\ Power * Unclamped(x) \in Nat
    BY <1>1, ScaleFacts
  <1> QED BY <1>1, <1>3, <1>4, ScaleFacts

LEMMA RepeatedLosesLess ==
    ASSUME NEW k \in Nat, NEW x \in Nat
    PROVE  (k * x) * feeMultiplier <= Power * (k * Unclamped(x) + k)
  <1>1. x * feeMultiplier \in Nat /\ Unclamped(x) \in Nat
    BY UnclampedType
  <1>2. x * feeMultiplier <= Power * (Unclamped(x) + 1)
    BY UnclampedLosesLess
  <1>3. Power * (Unclamped(x) + 1) \in Nat
    BY <1>1, ScaleFacts
  <1>4. (x * feeMultiplier) * k <= (Power * (Unclamped(x) + 1)) * k
    BY <1>1, <1>2, <1>3, ProductGrows
  <1>5. (k * x) * feeMultiplier = (x * feeMultiplier) * k
    BY ScaleFacts
  <1>6. (Power * (Unclamped(x) + 1)) * k = Power * (k * Unclamped(x) + k)
    BY <1>1, ScaleFacts
  <1> QED BY <1>4, <1>5, <1>6

\* What scaling charge by charge gives, with no clamp.
ApartUnclamped(t, q, u, b) ==
    t * Unclamped(gasFeeTransfer) + q * Unclamped(gasFeeQuery) + Unclamped(u) + Unclamped(b)

\* The sum of the charges scaled once exceeds it by less than the charges.
LEMMA TogetherNearApart ==
    ASSUME NEW t \in Nat, NEW q \in Nat, NEW u \in Nat, NEW b \in Nat
    PROVE  /\ ApartUnclamped(t, q, u, b) \in Nat
           /\ Unclamped(t * gasFeeTransfer + q * gasFeeQuery + u + b)
                <= ApartUnclamped(t, q, u, b) + (t + q + 2)
  <1> DEFINE T  == t * gasFeeTransfer
             Q  == q * gasFeeQuery
             Ut == t * Unclamped(gasFeeTransfer)
             Uq == q * Unclamped(gasFeeQuery)
             S  == Ut + Uq + Unclamped(u) + Unclamped(b)
  <1>1. /\ Unclamped(gasFeeTransfer) \in Nat /\ Unclamped(gasFeeQuery) \in Nat
        /\ Unclamped(u) \in Nat /\ Unclamped(b) \in Nat
    BY ScaleFacts, UnclampedType
  <1>2. T \in Nat /\ Q \in Nat /\ Ut \in Nat /\ Uq \in Nat
    BY <1>1, ScaleFacts
  <1>3. /\ T * feeMultiplier <= Power * (Ut + t)
        /\ Q * feeMultiplier <= Power * (Uq + q)
        /\ u * feeMultiplier <= Power * (Unclamped(u) + 1)
        /\ b * feeMultiplier <= Power * (Unclamped(b) + 1)
    BY ScaleFacts, RepeatedLosesLess, UnclampedLosesLess
  <1>4. ApartUnclamped(t, q, u, b) = S
    BY DEF ApartUnclamped
  <1> HIDE DEF T, Q, Ut, Uq
  <1>5. S \in Nat /\ T + Q + u + b \in Nat
    BY <1>1, <1>2
  <1>6. (T + Q + u + b) * feeMultiplier
          = T * feeMultiplier + Q * feeMultiplier + u * feeMultiplier + b * feeMultiplier
    BY <1>2, ScaleFacts
  <1>7. Power * (S + (t + q + 2))
          = Power * (Ut + t) + Power * (Uq + q) + Power * (Unclamped(u) + 1)
              + Power * (Unclamped(b) + 1)
    BY <1>1, <1>2, ScaleFacts
  <1>8. /\ T * feeMultiplier \in Nat /\ Q * feeMultiplier \in Nat
        /\ u * feeMultiplier \in Nat /\ b * feeMultiplier \in Nat
        /\ Power * (Ut + t) \in Nat /\ Power * (Uq + q) \in Nat
        /\ Power * (Unclamped(u) + 1) \in Nat /\ Power * (Unclamped(b) + 1) \in Nat
    BY <1>1, <1>2, ScaleFacts
  <1>9. (T + Q + u + b) * feeMultiplier <= Power * (S + (t + q + 2))
    BY <1>3, <1>6, <1>7, <1>8
  <1>10. Unclamped(T + Q + u + b) <= S + (t + q + 2)
    BY <1>5, <1>9, UnclampedAtMost
  <1> QED BY <1>4, <1>5, <1>10 DEF T, Q

\* The chain's clamps lose nothing that the word holds.
LEMMA RepeatedClamped ==
    ASSUME NEW k \in Nat, NEW charge \in Nat, feeShift < WordBits
    PROVE  /\ SaturatingMul(k, Scaled(charge)) \in Nat
           /\ SaturatingMul(k, Scaled(charge)) = Clamped(k * Unclamped(charge))
  <1>1. Unclamped(charge) \in Nat
    BY UnclampedType
  <1>2. feeShift \in Nat /\ WordBits \in Nat
    BY ConfigAssumption, WordAssumption
  <1>3. Scaled(charge) = Clamped(Unclamped(charge)) /\ Scaled(charge) \in Nat
    BY <1>2, ScaledIs
  <1>4. SaturatingMul(k, Scaled(charge)) = Clamped(k * Scaled(charge))
    BY <1>3, SaturatingMulClamps
  <1>5. k * Unclamped(charge) \in Nat
    BY <1>1
  <1>6. CASE Unclamped(charge) <= kU64Max
    <2>1. Scaled(charge) = Unclamped(charge)
      BY <1>1, <1>3, <1>6, WordFacts DEF Clamped
    <2> QED BY <1>4, <1>5, <2>1, ClampedType
  <1>7. CASE Unclamped(charge) > kU64Max /\ k = 0
    <2>1. k * Scaled(charge) = 0 /\ k * Unclamped(charge) = 0
      BY <1>1, <1>3, <1>7
    <2> QED BY <1>4, <2>1, WordFacts DEF Clamped
  <1>8. CASE Unclamped(charge) > kU64Max /\ k > 0
    <2>1. Scaled(charge) = kU64Max
      BY <1>3, <1>8 DEF Clamped
    <2>2. 1 * kU64Max <= k * kU64Max /\ k * kU64Max \in Nat
      BY <1>8, WordFacts, ProductGrows
    <2>3. 1 * Unclamped(charge) <= k * Unclamped(charge)
      BY <1>1, <1>8, ProductGrows
    <2>4. Clamped(k * Unclamped(charge)) = kU64Max
      BY <1>1, <1>5, <1>8, <2>3, WordFacts DEF Clamped
    <2>5. Clamped(k * kU64Max) = kU64Max
      BY <2>2, WordFacts DEF Clamped
    <2> QED BY <1>4, <2>1, <2>4, <2>5, WordFacts
  <1> QED BY <1>1, <1>6, <1>7, <1>8, WordFacts

\* What the chain charges for t transfers, q queries, u units and b units of
\* bytes, each scaled as it is made.
Charges(t, q, u, b) ==
    SaturatingMul(t, Scaled(gasFeeTransfer)) + SaturatingMul(q, Scaled(gasFeeQuery))
      + Scaled(u) + Scaled(b)

LEMMA ClampedSum ==
    ASSUME NEW x \in Nat, NEW y \in Nat
    PROVE  Clamped(x + y) <= Clamped(x) + Clamped(y) /\ Clamped(x) \in Nat /\ Clamped(y) \in Nat
  BY WordFacts DEF Clamped

LEMMA ScaledNearCharges ==
    ASSUME NEW t \in Nat, NEW q \in Nat, NEW u \in Nat, NEW b \in Nat, NEW w \in Nat,
           w <= t * gasFeeTransfer + q * gasFeeQuery + u + b
    PROVE  /\ Charges(t, q, u, b) \in Nat
           /\ Scaled(w) \in Nat /\ Scaled(w) <= kU64Max
           /\ Scaled(w) <= Clamped(Charges(t, q, u, b)) + (t + q + 2)
  <1>1. feeShift \in Nat /\ WordBits \in Nat
    BY ConfigAssumption, WordAssumption
  <1>2. /\ Unclamped(gasFeeTransfer) \in Nat /\ Unclamped(gasFeeQuery) \in Nat
        /\ Unclamped(u) \in Nat /\ Unclamped(b) \in Nat /\ Unclamped(w) \in Nat
    BY ScaleFacts, UnclampedType
  <1>3. CASE feeShift >= WordBits
    <2>1. /\ Scaled(gasFeeTransfer) = 0 /\ Scaled(gasFeeQuery) = 0 /\ Scaled(u) = 0
          /\ Scaled(b) = 0 /\ Scaled(w) = 0
      BY <1>3, ScaleFacts, ScaledIs
    <2>2. Charges(t, q, u, b) = 0
      BY <2>1 DEF Charges, SaturatingMul
    <2> QED BY <2>1, <2>2, WordFacts DEF Clamped
  <1>4. CASE feeShift < WordBits
    <2> DEFINE n  == t * gasFeeTransfer + q * gasFeeQuery + u + b
               Ut == t * Unclamped(gasFeeTransfer)
               Uq == q * Unclamped(gasFeeQuery)
               A  == ApartUnclamped(t, q, u, b)
    <2>1. Ut \in Nat /\ Uq \in Nat
      BY <1>2
    <2>2. /\ SaturatingMul(t, Scaled(gasFeeTransfer)) = Clamped(Ut)
          /\ SaturatingMul(q, Scaled(gasFeeQuery)) = Clamped(Uq)
      BY <1>4, ScaleFacts, RepeatedClamped
    <2>3. /\ Scaled(u) = Clamped(Unclamped(u)) /\ Scaled(b) = Clamped(Unclamped(b))
          /\ Scaled(w) = Clamped(Unclamped(w))
      BY <1>1, <1>4, ScaledIs
    <2>4. A \in Nat /\ Unclamped(n) <= A + (t + q + 2)
      BY TogetherNearApart
    <2>5. A = Ut + Uq + Unclamped(u) + Unclamped(b)
      BY DEF ApartUnclamped
    <2>6. n \in Nat
      BY ScaleFacts
    <2>7. Unclamped(w) <= Unclamped(n) /\ Unclamped(n) \in Nat
      BY <2>6, UnclampedGrows, UnclampedType
    <2>8. Charges(t, q, u, b) =
            Clamped(Ut) + Clamped(Uq) + Clamped(Unclamped(u)) + Clamped(Unclamped(b))
      BY <2>2, <2>3 DEF Charges
    <2> HIDE DEF n, Ut, Uq, A
    <2>9. Charges(t, q, u, b) \in Nat /\ Clamped(A) <= Clamped(Charges(t, q, u, b))
      <3>1. Clamped(Ut + Uq) <= Clamped(Ut) + Clamped(Uq)
        BY <2>1, ClampedSum
      <3>2. Ut + Uq \in Nat /\ Ut + Uq + Unclamped(u) \in Nat
        BY <1>2, <2>1
      <3>3. Clamped(Ut + Uq + Unclamped(u)) <= Clamped(Ut + Uq) + Clamped(Unclamped(u))
        BY <1>2, <3>2, ClampedSum
      <3>4. Clamped(A) <= Clamped(Ut + Uq + Unclamped(u)) + Clamped(Unclamped(b))
        BY <1>2, <2>5, <3>2, ClampedSum
      <3>5. /\ Clamped(Ut) \in Nat /\ Clamped(Uq) \in Nat /\ Clamped(Ut + Uq) \in Nat
            /\ Clamped(Unclamped(u)) \in Nat /\ Clamped(Unclamped(b)) \in Nat
            /\ Clamped(Ut + Uq + Unclamped(u)) \in Nat
            /\ Clamped(A) \in Nat /\ Clamped(A) <= kU64Max
        BY <1>2, <2>1, <2>4, <3>2, ClampedType
      <3>6. Charges(t, q, u, b) \in Nat /\ Clamped(A) <= Charges(t, q, u, b)
        BY <2>8, <3>1, <3>3, <3>4, <3>5
      <3> QED BY <3>5, <3>6, WordFacts DEF Clamped
    <2>10. Scaled(w) <= Clamped(A) + (t + q + 2)
      BY <1>2, <2>3, <2>4, <2>7, WordFacts DEF Clamped
    <2>11. Scaled(w) \in Nat /\ Scaled(w) <= kU64Max
      BY <1>2, <2>3, ClampedType
    <2> QED BY <2>4, <2>9, <2>10, <2>11, ClampedType
  <1> QED BY <1>1, <1>3, <1>4

\* What the chain counts of a message that mixes no burn with other operations
\* lies between the plan's two readings.
LEMMA ReadingsBracket ==
    ASSUME PlanInv, ~Mixed
    PROVE  /\ BlockData(cheap) \in Nat /\ BlockData(chain) \in Nat /\ BlockData(plan) \in Nat
           /\ BlockData(cheap) <= BlockData(chain) /\ BlockData(chain) <= BlockData(plan)
  <1>1. /\ cheap.new \in Nat /\ cheap.deleted \in Nat /\ cheap.result \in Nat
        /\ chain.new \in Nat /\ chain.deleted \in Nat /\ chain.result \in Nat
        /\ cheap.result <= chain.result
    BY DEF PlanInv, TypeOK, ModelType, CheapCovered, ChargesCover
  <1>2. \/ cheap.new <= chain.new /\ cheap.deleted = chain.deleted
        \/ cheap.new <= cheap.deleted
    BY <1>1 DEF PlanInv, CheapCovered, BurnsShrink, Mixed
  <1>3. NetQuanta(cheap) \in Nat /\ NetQuanta(chain) \in Nat /\ NetQuanta(cheap) <= NetQuanta(chain)
    BY <1>1, <1>2 DEF NetQuanta
  <1>4. BlockData(cheap) \in Nat /\ BlockData(cheap) <= BlockData(chain)
    BY <1>1, <1>3, ScaleFacts DEF BlockData
  <1> QED BY <1>4, BlockDataCovered

\* A message that asks no more than one that fits the word fits it.
LEMMA FitsBelow ==
    ASSUME NEW m \in ModelType, NEW n \in ModelType, WorkFits(m),
           m.transfers = n.transfers, m.units = n.units, n.queries <= m.queries,
           BlockData(m) \in Nat, BlockData(n) \in Nat, BlockData(n) <= BlockData(m)
    PROVE  WorkFits(n)
  <1> DEFINE per == IF V2 THEN UnitsPerByte ELSE 0
             T   == m.transfers * gasFeeTransfer
             Qm  == m.queries * gasFeeQuery
             Qn  == n.queries * gasFeeQuery
             Bm  == BlockData(m) * per
             Bn  == BlockData(n) * per
  <1>1. /\ m.transfers \in Nat /\ m.queries \in Nat /\ n.queries \in Nat /\ m.units \in Nat
        /\ per \in Nat
    BY ScaleFacts DEF ModelType
  <1>2. T \in Nat
    BY <1>1, ScaleFacts
  <1>3. Qm \in Nat /\ Qn \in Nat /\ Qn <= Qm
    BY <1>1, ScaleFacts, ProductGrows
  <1> HIDE DEF per
  <1>4. Bm \in Nat /\ Bn \in Nat /\ Bn <= Bm
    BY <1>1, ProductGrows
  <1>5. T + Qm + m.units + Bm <= kU64Max
    BY DEF WorkFits, per
  <1>6. WorkFits(n) <=> T + Qn + m.units + Bn <= kU64Max
    BY DEF WorkFits, per
  <1> HIDE DEF T, Qm, Qn, Bm, Bn
  <1> QED BY <1>1, <1>2, <1>3, <1>4, <1>5, <1>6, WordFacts

\* The load of the cheaper reading, unscaled, against the chain's.
LEMMA CheapFacts ==
    ASSUME PlanInv, WorkFits(plan), ~Mixed
    PROVE  /\ cheap \in ModelType /\ chain \in ModelType
           /\ WorkFits(cheap) /\ WorkFits(chain)
           /\ cheap.transfers = chain.transfers /\ cheap.units = chain.units
           /\ cheap.policy = chain.policy /\ cheap.queries <= chain.queries
           /\ chain.transfers \in Nat /\ chain.queries \in Nat /\ chain.units \in Nat
           /\ chain.policy \in Nat
           /\ WorkUnits(cheap) \in Nat
           /\ WorkUnits(cheap)
                <= chain.transfers * gasFeeTransfer + chain.queries * gasFeeQuery + chain.units
  <1>1. /\ plan \in ModelType /\ cheap \in ModelType /\ chain \in ModelType
        /\ Dominates(plan, chain) /\ ChargesCover(chain, cheap)
    BY DEF PlanInv, TypeOK, CheapCovered
  <1>2. /\ plan.transfers = chain.transfers /\ plan.units = chain.units
        /\ chain.queries <= plan.queries
        /\ cheap.transfers = chain.transfers /\ cheap.units = chain.units
        /\ cheap.policy = chain.policy /\ cheap.queries <= chain.queries
        /\ chain.transfers \in Nat /\ chain.queries \in Nat /\ cheap.queries \in Nat
        /\ chain.units \in Nat /\ chain.policy \in Nat
    BY <1>1 DEF Dominates, ChargesCover, ModelType
  <1>3. WorkFits(chain)
    BY <1>1, <1>2, ReadingsBracket, FitsBelow
  <1>4. WorkFits(cheap)
    BY <1>1, <1>2, <1>3, ReadingsBracket, FitsBelow
  <1> DEFINE T == chain.transfers * gasFeeTransfer
             q == cheap.queries * gasFeeQuery
             Q == chain.queries * gasFeeQuery
  <1>5. T \in Nat /\ q \in Nat /\ Q \in Nat /\ q <= Q
    BY <1>2, ScaleFacts, ProductGrows
  <1>6. WorkUnits(cheap) = T + q + chain.units
    BY <1>1, <1>2, <1>4, FittingWork
  <1> HIDE DEF T, q, Q
  <1>7. WorkUnits(cheap) \in Nat /\ WorkUnits(cheap) <= T + Q + chain.units
    BY <1>2, <1>5, <1>6
  <1> QED BY <1>1, <1>2, <1>3, <1>4, <1>7 DEF T, Q

LEMMA CheapQuoteV2 ==
    ASSUME PlanInv, WorkFits(plan), ~Mixed, V2
    PROVE  /\ ExpectedGasBill(cheap) \in Nat
           /\ ExpectedGasBill(cheap) <= ChainBill(chain) + ScaledCharges(chain)
  <1> DEFINE t == chain.transfers
             q == chain.queries
             u == chain.units
             p == chain.policy
             w == WorkUnits(cheap)
             b == BlockData(chain) * UnitsPerByte
             c == BlockData(cheap) * UnitsPerByte
             n == t * gasFeeTransfer + q * gasFeeQuery + u
             X == Charges(t, q, u, b)
  <1>1. /\ t \in Nat /\ q \in Nat /\ u \in Nat /\ p \in Nat /\ cheap.policy = p
        /\ w \in Nat /\ w <= n
    BY CheapFacts
  <1>2. c \in Nat /\ b \in Nat /\ c <= b
    BY ReadingsBracket, ScaleFacts, ProductGrows
  <1>3. /\ cheap \in ModelType /\ chain \in ModelType /\ WorkFits(cheap) /\ WorkFits(chain)
    BY CheapFacts
  <1>4. SaturatingAdd(w, SaturatingMul(BlockData(cheap), UnitsPerByte)) = w + c
    BY <1>3, FittingWork
  <1>5. /\ SaturatingMul(BlockData(chain), UnitsPerByte) = b
        /\ n = WorkUnits(chain)
    BY <1>3, FittingWork
  <1>6. n + b <= kU64Max /\ n \in Nat
    <2>1. n + b <= kU64Max
      BY <1>3 DEF WorkFits
    <2> QED BY <1>1, <2>1, ScaleFacts
  <1>7. Clamped(u) = u
    <2>1. t * gasFeeTransfer \in Nat /\ q * gasFeeQuery \in Nat
      BY <1>1, ScaleFacts
    <2>2. u <= n
      BY <1>1, <2>1
    <2> HIDE DEF n, u, b
    <2>3. u <= kU64Max
      BY <1>1, <1>2, <1>6, <2>2, WordFacts
    <2> QED BY <1>1, <2>3, WordFacts DEF Clamped
  <1>8. ChainBill(chain) = Clamped(IF X + p < minimumGasBill THEN minimumGasBill ELSE X + p)
    BY <1>5, <1>7 DEF ChainBill, Charges
  <1>9. ExpectedGasBill(cheap) =
          LET bill == SaturatingAdd(Scaled(w + c), Clamped(p))
          IN  IF bill < minimumGasBill THEN minimumGasBill ELSE bill
    BY <1>1, <1>4 DEF ExpectedGasBill
  <1> HIDE DEF w, b, c
  <1>10. w + c \in Nat /\ w + c <= t * gasFeeTransfer + q * gasFeeQuery + u + b
    BY <1>1, <1>2, <1>6 DEF n
  <1>11. /\ X \in Nat /\ Scaled(w + c) \in Nat /\ Scaled(w + c) <= kU64Max
         /\ Scaled(w + c) <= Clamped(X) + (t + q + 2)
    BY <1>1, <1>2, <1>10, ScaledNearCharges
  <1>12. SaturatingAdd(Scaled(w + c), Clamped(p)) = Clamped(Scaled(w + c) + Clamped(p))
    BY <1>1, <1>11, ClampedType, SaturatingAddClamps
  <1>13. ScaledCharges(chain) = t + q + 2
    BY DEF ScaledCharges
  <1>14. minimumGasBill \in Nat /\ minimumGasBill <= kU64Max
    BY ScaleFacts, WordFacts
  <1> HIDE DEF t, q, p, X
  <1> QED BY <1>1, <1>8, <1>9, <1>11, <1>12, <1>13, <1>14, WordFacts DEF Clamped

LEMMA CheapQuoteV1 ==
    ASSUME PlanInv, WorkFits(plan), ~Mixed, ~V2
    PROVE  /\ ExpectedGasBill(cheap) \in Nat
           /\ ExpectedGasBill(cheap) <= ChainBill(chain) + ScaledCharges(chain)
  <1> DEFINE t == chain.transfers
             q == chain.queries
             u == chain.units
             w == WorkUnits(cheap)
             Z == SaturatingMul(BlockData(chain), gasFeePerByte)
             z == SaturatingMul(BlockData(cheap), gasFeePerByte)
             n == t * gasFeeTransfer + q * gasFeeQuery + u
             X == Charges(t, q, u, 0)
  <1>1. t \in Nat /\ q \in Nat /\ u \in Nat /\ w \in Nat /\ w <= n
    BY CheapFacts
  <1>2. z \in Nat /\ Z \in Nat /\ Z <= kU64Max /\ z <= Z
    <2>1. /\ BlockData(cheap) \in Nat /\ BlockData(chain) \in Nat
          /\ BlockData(cheap) <= BlockData(chain)
      BY ReadingsBracket
    <2>2. z <= Z
      BY <2>1, ScaleFacts, SaturatingMulGrows
    <2>3. BlockData(cheap) * gasFeePerByte \in Nat /\ BlockData(chain) * gasFeePerByte \in Nat
      BY <2>1, ScaleFacts
    <2>4. z = Clamped(BlockData(cheap) * gasFeePerByte)
      BY <2>1, ScaleFacts, SaturatingMulClamps
    <2>5. Z = Clamped(BlockData(chain) * gasFeePerByte)
      BY <2>1, ScaleFacts, SaturatingMulClamps
    <2> QED BY <2>2, <2>3, <2>4, <2>5, ClampedType
  <1>3. Clamped(u) = u
    <2>1. chain \in ModelType /\ WorkFits(chain)
      BY CheapFacts
    <2>2. WorkUnits(chain) = n
      BY <2>1, FittingWork
    <2>3. BlockData(chain) \in Nat
      BY ReadingsBracket
    <2>4. n + BlockData(chain) * 0 <= kU64Max
      BY <2>1 DEF WorkFits
    <2>5. t * gasFeeTransfer \in Nat /\ q * gasFeeQuery \in Nat
      BY <1>1, ScaleFacts
    <2>6. u <= n /\ n \in Nat
      BY <1>1, <2>5
    <2>7. BlockData(chain) * 0 = 0
      BY <2>3
    <2> HIDE DEF n, u
    <2>8. u <= kU64Max
      BY <1>1, <2>4, <2>6, <2>7, WordFacts
    <2> QED BY <1>1, <2>8, WordFacts DEF Clamped
  <1>4. Scaled(0) = 0
    BY ScaleFacts, WordFacts, ScaledIs DEF Unclamped, Clamped
  <1>5. X = SaturatingMul(t, Scaled(gasFeeTransfer)) + SaturatingMul(q, Scaled(gasFeeQuery))
              + Scaled(u)
    <2>1. /\ SaturatingMul(t, Scaled(gasFeeTransfer)) \in Nat
          /\ SaturatingMul(q, Scaled(gasFeeQuery)) \in Nat
      BY <1>1, ScaleFacts, ChargeCovered
    <2>2. Scaled(u) \in Nat
      BY <1>1, ScaledIs
    <2> HIDE DEF t, q, u
    <2> QED BY <1>4, <2>1, <2>2 DEF Charges
  <1>6. ChainBill(chain) = Clamped(X + Z)
    BY <1>3, <1>5 DEF ChainBill
  <1>7. ExpectedGasBill(cheap) = SaturatingAdd(Scaled(w), z)
    BY DEF ExpectedGasBill
  <1> HIDE DEF w, z, Z
  <1>8. w <= t * gasFeeTransfer + q * gasFeeQuery + u + 0
    BY <1>1, ScaleFacts
  <1>9. /\ X \in Nat /\ Scaled(w) \in Nat /\ Scaled(w) <= kU64Max
        /\ Scaled(w) <= Clamped(X) + (t + q + 2)
    BY <1>1, <1>8, ScaledNearCharges
  <1>10. SaturatingAdd(Scaled(w), z) = Clamped(Scaled(w) + z)
    BY <1>2, <1>9, WordFacts, SaturatingAddClamps
  <1>11. ScaledCharges(chain) = t + q + 2
    BY DEF ScaledCharges
  <1> HIDE DEF t, q, X
  <1> QED BY <1>1, <1>2, <1>6, <1>7, <1>9, <1>10, <1>11, WordFacts DEF Clamped

LEMMA QuoteCoveredV1 ==
    ASSUME PlanInv, WorkFits(plan), ~Mixed, ~V2
    PROVE  /\ ChainBill(chain) \in Nat /\ ExpectedGasBill(plan) \in Nat
           /\ ChainBill(chain) <= ExpectedGasBill(plan)
  <1> DEFINE w == WorkUnits(plan)
             X == ChainWork(chain)
             Y == SaturatingMul(BlockData(plan), gasFeePerByte)
             Z == SaturatingMul(BlockData(chain), gasFeePerByte)
  <1>1. /\ w \in Nat /\ X \in Nat /\ X <= Unclamped(w)
        /\ feeShift >= WordBits => X = 0
    BY WorkCovered
  <1>2. /\ Scaled(w) = IF feeShift >= WordBits THEN 0 ELSE Clamped(Unclamped(w))
        /\ Unclamped(w) \in Nat
    BY <1>1, ScaledIs, UnclampedType
  <1>3. Y \in Nat /\ Y <= kU64Max /\ Z \in Nat /\ Z <= Y
    <2>1. /\ BlockData(plan) \in Nat /\ BlockData(chain) \in Nat
          /\ BlockData(chain) <= BlockData(plan)
      BY ReadingsBracket
    <2>2. Z <= Y
      BY <2>1, ScaleFacts, SaturatingMulGrows
    <2>3. BlockData(plan) * gasFeePerByte \in Nat /\ BlockData(chain) * gasFeePerByte \in Nat
      BY <2>1, ScaleFacts
    <2>4. Y = Clamped(BlockData(plan) * gasFeePerByte)
      BY <2>1, ScaleFacts, SaturatingMulClamps
    <2>5. Z = Clamped(BlockData(chain) * gasFeePerByte)
      BY <2>1, ScaleFacts, SaturatingMulClamps
    <2> QED BY <2>2, <2>3, <2>4, <2>5, ClampedType
  <1>4. ChainBill(chain) = Clamped(X + Z)
    BY DEF ChainBill, ChainWork
  <1>5. ExpectedGasBill(plan) = SaturatingAdd(Scaled(w), Y)
    BY DEF ExpectedGasBill
  <1> HIDE DEF w, X, Y, Z
  <1>6. Scaled(w) \in Nat /\ Scaled(w) <= kU64Max
    BY <1>2, ClampedType, WordFacts
  <1>7. SaturatingAdd(Scaled(w), Y) = Clamped(Scaled(w) + Y)
    BY <1>3, <1>6, SaturatingAddClamps
  <1>8. Clamped(X) <= Scaled(w)
    BY <1>1, <1>2, WordFacts DEF Clamped
  <1> QED BY <1>1, <1>3, <1>4, <1>5, <1>6, <1>7, <1>8, WordFacts DEF Clamped

\* A plan that calls itself exact quotes the bill itself, but for less than one
\* unit of every charge the chain scales on its own: under both gas models, for
\* every gas config, word width and batch that mixes no burn with other
\* operations (FeePlan.h, AssumptionsMattered; FeeEstimator.h, Settle).
THEOREM ExactPlansAreTheBill == Spec => []ExactIsTheBill
  <1>1. PlanInv => ExactIsTheBill
    <2> SUFFICES ASSUME PlanInv, Exact, WorkFits(plan), ~Mixed
                 PROVE  ExpectedGasBill(plan) - ChainBill(chain) \in 0 .. ScaledCharges(chain)
      BY DEF ExactIsTheBill
    <2>1. /\ ChainBill(chain) \in Nat /\ ExpectedGasBill(plan) \in Nat
          /\ ChainBill(chain) <= ExpectedGasBill(plan)
      BY BillCoveredV2, QuoteCoveredV1
    <2>2. ExpectedGasBill(cheap) <= ChainBill(chain) + ScaledCharges(chain)
      BY CheapQuoteV1, CheapQuoteV2
    <2>3. ExpectedGasBill(cheap) = ExpectedGasBill(plan)
      BY DEF Exact
    <2>4. ScaledCharges(chain) \in Nat
      BY DEF ScaledCharges, PlanInv, TypeOK, ModelType
    <2> HIDE DEF Exact
    <2> QED BY <2>1, <2>2, <2>3, <2>4
  <1> QED BY <1>1, PlanInvariant, PTL

============================================================================

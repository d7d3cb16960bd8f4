----------------------------- MODULE MCFeePlan -----------------------------
(***************************************************************************)
(* Instances of FeePlan for TLC: callers that state nothing, everything,   *)
(* everything but the series facts, or only what a wallet knows.           *)
(***************************************************************************)
EXTENDS FeePlan

StatesNothing == [n \in FactNames |-> TRUE]
StatesAll     == Cheapest
StatesWallet  == [n \in FactNames |-> n \in {"duplicatedSeries", "romHasMetaId", "seriesHasMetaId"}]
StatesMeta    == [n \in FactNames |-> n # "romHasMetaId"]

SomeStatements == {StatesNothing, StatesAll, StatesWallet, StatesMeta}

============================================================================

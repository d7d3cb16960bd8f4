---------------------------- MODULE MCCarbonSend ----------------------------
(***************************************************************************)
(* The instance of CarbonSend for TLC: every message kind, and the signer  *)
(* lists that are right, short, in the wrong order, foreign or null.       *)
(***************************************************************************)
EXTENDS CarbonSend

AllSigners == {<<>>, <<"payer">>, <<"stranger">>, <<"null">>, <<"payer", "stranger">>,
               <<"payer", "owner">>, <<"owner", "payer">>}

=============================================================================

-------------------------- MODULE MCOffChainAsset --------------------------
(***************************************************************************)
(* The instance of StabilizerSystem with an OffChainAsset that TLC checks: *)
(* two SWEEP to the smallest part of a dollar, so that amounts of SWEEP    *)
(* and of USD are not the same numbers.                                    *)
(***************************************************************************)
EXTENDS StabilizerSystem

CONSTANT s1

MCAccounts == {s1, Treasury, Outside}
MCAssetOf == [s \in {s1} |-> "OffChainAsset"]
MCOffChain ==
    {[minEquityRatio |-> 1, protocolFee |-> 10, loanLimit |-> 8, decreaseFactor |-> 4,
      callDelay |-> 1, autoInvestMinRatio |-> 0, autoInvestMinAmount |-> 2,
      minLiquidationRatio |-> 2, autoInvestEnabled |-> TRUE, auctionAllowed |-> FALSE]}
MCAmounts == [s \in {s1} |-> {6}]
MCTwoAmounts == [s \in {s1} |-> {4, 8}]
MCExact == [s \in {s1} |-> {0}]
=============================================================================

-------------------------- MODULE MCBalancerQueue --------------------------
(***************************************************************************)
(* The instance of BalancerQueue that TLC checks: a stabilizer with calls, *)
(* which may be queued twice, a fee that grows while a call is open, and   *)
(* a token whose price may fall below what a call needs.                   *)
(***************************************************************************)
EXTENDS BalancerQueue

CONSTANT s1

MCAccounts == {s1, Treasury, Outside}
MCAssetOf == [s \in {s1} |-> "ERC20Asset"]
MCCall == {[minEquityRatio |-> 1, protocolFee |-> 10, loanLimit |-> 4, decreaseFactor |-> 4,
            callDelay |-> 1, autoInvestMinRatio |-> 0, autoInvestMinAmount |-> 2,
            minLiquidationRatio |-> 2, autoInvestEnabled |-> TRUE, auctionAllowed |-> FALSE]}
MCAmounts == [s \in {s1} |-> {2, 4}]
MCExact == [s \in {s1} |-> {0}]
=============================================================================

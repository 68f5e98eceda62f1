---------------------------- MODULE MCERC20Asset ----------------------------
(***************************************************************************)
(* The instances of StabilizerSystem with an ERC20Asset that TLC checks.   *)
(* MCSpec holds two scenarios, each about one stabilizer while the other   *)
(* rests: s1 may be auctioned while its asset's price and the target price *)
(* move; s2 is called by the balancer and governed, in a market that       *)
(* stands still.  The violated properties are about s1 alone.              *)
(***************************************************************************)
EXTENDS StabilizerSystem

CONSTANTS s1, s2

MCAccounts == Stabilizers \cup {Treasury, Outside}
MCAssetOf == [s \in Stabilizers |-> "ERC20Asset"]

\* A loan of up to 4 against 10% equity, with a fee of a quarter of the loan per day.
MCLoan == [minEquityRatio |-> 1, protocolFee |-> 10, loanLimit |-> 4, decreaseFactor |-> 4,
           callDelay |-> 0, autoInvestMinRatio |-> 0, autoInvestMinAmount |-> 2,
           minLiquidationRatio |-> 2, autoInvestEnabled |-> TRUE, auctionAllowed |-> TRUE]
MCCalled == [MCLoan EXCEPT !.callDelay = 1, !.auctionAllowed = FALSE]
MCResting == [MCLoan EXCEPT !.loanLimit = 0]

MCAuction == {MCLoan}
MCCall == {MCCalled}
MCConfigs == {MCLoan, MCCalled, MCResting}

MCAmounts == [s \in Stabilizers |-> {4}]
MCTwoAmounts == [s \in Stabilizers |-> {4, 8}]
MCExact == [s \in Stabilizers |-> {0}]
MCSlippages == [s \in Stabilizers |-> IF s = s1 THEN {2} ELSE {0}]

restsOn(s) ==
    /\ stab'[s] = stab[s] /\ sweep'.minters[s] = sweep.minters[s]
    /\ sweep'.balanceOf[s] = sweep.balanceOf[s] /\ usdx'[s] = usdx[s]

\* Governance adds the minter and leaves it alone.
Auctioned ==
    /\ stab[s1].config = MCLoan /\ stab'[s1].config = MCLoan
    /\ restsOn(s2)
    /\ targetPrice' >= Unit
    /\ ~stab'[s1].paused /\ ~sweep'.paused
    /\ sweep.minters[s1].isListed => sweep'.minters[s1].isListed
    /\ sweep'.balanceOf[Treasury] >= sweep.balanceOf[Treasury]

\* The target price moves by a write-off only, and only down; SWEEP is not
\* paused while the stabilizer is, or has been rejected.
Governed ==
    /\ stab[s2].config.callDelay = 1 /\ stab'[s2].config.callDelay = 1
    /\ restsOn(s1)
    /\ tokenPrice' = Unit /\ targetPrice' =< targetPrice
    /\ targetPrice' # targetPrice => writesOff
    /\ stab'[s2].sweepBorrowed =< 5
    /\ sweep'.paused => ~stab'[s2].paused /\ ~stab'[s2].settingsEnabled

\* The steps the two scenarios take.
MCScenarios == Auctioned \/ Governed

MCInit ==
    /\ Init
    /\ \/ stab[s1].config = MCLoan /\ stab[s2].config = MCResting
       \/ stab[s1].config = MCResting /\ stab[s2].config = MCCalled

MCSpec == MCInit /\ [][Next]_vars
=============================================================================

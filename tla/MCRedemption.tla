---------------------------- MODULE MCRedemption ----------------------------
(***************************************************************************)
(* The instances of StabilizerSystem with the assets that are shares of a  *)
(* vault that TLC checks.  MCSpec holds three scenarios, each about one    *)
(* stabilizer while the others rest: v is an ERC4626Asset, whose share may *)
(* be worth half a usdx more or less; e an EthenaAsset and m a MapleAsset, *)
(* which pay back later, and whose share may quadruple, that of e for good.*)
(***************************************************************************)
EXTENDS StabilizerSystem

CONSTANTS v, e, m

MCAccounts == Stabilizers \cup {Treasury, Outside}
MCAssetOf == [s \in Stabilizers |->
    CASE s = v -> "ERC4626Asset" [] s = e -> "EthenaAsset" [] s = m -> "MapleAsset"]
MCLoan == [minEquityRatio |-> 1, protocolFee |-> 0, loanLimit |-> 2, decreaseFactor |-> 4,
           callDelay |-> 0, autoInvestMinRatio |-> 0, autoInvestMinAmount |-> 2,
           minLiquidationRatio |-> 2, autoInvestEnabled |-> TRUE, auctionAllowed |-> FALSE]
MCCalled == [MCLoan EXCEPT !.callDelay = 1]
MCResting == [MCLoan EXCEPT !.loanLimit = 0]
MCConfigs == {MCLoan, MCCalled, MCResting}
MCOne == {MCLoan}

MCAmounts == [s \in Stabilizers |-> IF s = v THEN {1, 4} ELSE IF s = e THEN {2, 4} ELSE {2}]
MCSlippages == [s \in Stabilizers |-> {0}]

rests(s) == stab[s].config = MCResting

\* Only m's loan may be called with a delay, and the windows of its pool are a tick apart;
\* only the vault of e changes its cooldown.
MCInit ==
    /\ Init
    /\ \E s \in Stabilizers :
          /\ stab[s].config = (IF s = m THEN MCCalled ELSE MCLoan)
          /\ \A t \in Stabilizers \ {s} : rests(t)
          /\ \A t \in Stabilizers : t = v \/ rests(t) => claim[t].duration = 0
          /\ s = m => claim[s].duration = 1

MCPrices(s) == IF s = v THEN 1 .. 3 ELSE {2, 8}
MCEnd(s) == IF s = e THEN MaxTime ELSE MaxTime - 1

restsOn(s) ==
    /\ stab'[s] = stab[s] /\ claim'[s] = claim[s]
    /\ sweep'.minters[s] = sweep.minters[s]
    /\ sweep'.balanceOf[s] = sweep.balanceOf[s] /\ usdx'[s] = usdx[s]

\* The steps the scenario of the initial state takes.
MCScenarios ==
    \E s \in Stabilizers :
        /\ ~rests(s)
        /\ \A t \in Stabilizers \ {s} : restsOn(t)
        /\ tokenPrice' \in MCPrices(s) /\ now' =< MCEnd(s)
        /\ s = e => tokenPrice' >= tokenPrice

MCSpec == MCInit /\ [][Next]_vars
=============================================================================

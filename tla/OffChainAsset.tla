---------------------------- MODULE OffChainAsset ----------------------------
(***************************************************************************)
(* contracts/Assets/OffChainAsset.sol: money that leaves the chain through *)
(* a wallet, valued by a collateral agent, behind the virtual functions of *)
(* Stabilizer.sol.  Divesting only asks for the money back; whoever has it *)
(* pays it back later.  The times at which the value was updated and the   *)
(* money asked for are left out: no function reads them.                   *)
(***************************************************************************)
EXTENDS StabilizerWorld

CONSTANT MaxValue          \* bound: the value up to which a stabilizer invests

ASSUME MaxValueAssumption == MaxValue \in Nat

OffChainStorage == [actualValue : Nat, redeemMode : BOOLEAN, redeemAmount : Nat]

InitOffChain == [actualValue |-> 0, redeemMode |-> FALSE, redeemAmount |-> 0]

OffChainValue(w, s) == oracleUsdxToUsd(w, w.off[s].actualValue)

\* Mutant: what is asked for counts as invested, not what is there.
OffChainInvestUnclamped(w, s, usdxAmount, sweepAmount) ==
    LET value == w.off[s].actualValue + usdxAmount + convertToUSD(w, sweepAmount)
    IN  Then(UsdxTransfer(w, s, Outside, Least(usdxAmount, w.usdx[s])), LAMBDA w1 :
        Then(SweepTransfer(w1, s, Outside, Least(sweepAmount, w.sweep.balanceOf[s])),
             LAMBDA w2 : Call(value =< MaxValue, [w2 EXCEPT !.off[s].actualValue = value])))

\* The wallet is one of the accounts outside.
OffChainInvest(w, s, usdxAmount, sweepAmount) ==
    LET usdxPaid == Least(usdxAmount, w.usdx[s])
        sweepPaid == Least(sweepAmount, w.sweep.balanceOf[s])
        value == w.off[s].actualValue + usdxPaid + convertToUSD(w, sweepPaid)
    IN  Then(UsdxTransfer(w, s, Outside, usdxPaid), LAMBDA w1 :
        Then(SweepTransfer(w1, s, Outside, sweepPaid), LAMBDA w2 :
             Call(value =< MaxValue, [w2 EXCEPT !.off[s].actualValue = value])))

\* A request takes the place of the one before it.
OffChainDivest(w, s, usdxAmount) ==
    {[w EXCEPT !.off[s].redeemMode = TRUE, !.off[s].redeemAmount = usdxAmount]}

\* SWEEP is converted to USD before it is compared, booked and moved; the
\* subtraction from actualValue is unsigned.
Payback(w, s, currency, amount) ==
    LET due == IF currency = "sweep" THEN convertToUSD(w, amount) ELSE amount
        paid == [w EXCEPT !.off[s] = [actualValue |-> @.actualValue - due,
                                      redeemMode |-> FALSE, redeemAmount |-> 0]]
    IN  IF w.off[s].redeemAmount > due \/ due > w.off[s].actualValue THEN {}
        ELSE IF currency = "sweep" THEN SweepTransfer(paid, Outside, s, due)
             ELSE UsdxTransfer(paid, Outside, s, due)

UpdateValue(w, s, value) == [w EXCEPT !.off[s].actualValue = value]
=============================================================================

--------------------------- MODULE StabilizerCore ---------------------------
(***************************************************************************)
(* contracts/Stabilizer/Stabilizer.sol: the debt of a borrower, its calls, *)
(* its fee and the auction of its assets, shared by every asset contract.  *)
(* What Solidity leaves virtual is decided by the asset of a stabilizer.   *)
(***************************************************************************)
EXTENDS ERC20Asset, OffChainAsset, ERC4626Asset, EthenaAsset, MapleAsset

CONSTANT AssetOf           \* the contract of each stabilizer

ASSUME AssetAssumption ==
    AssetOf \in [Stabilizers -> {"ERC20Asset", "OffChainAsset", "ERC4626Asset",
                                 "EthenaAsset", "MapleAsset"}]

-----------------------------------------------------------------------------
(* The virtual functions *)

AssetValue(w, s) ==
    CASE AssetOf[s] = "ERC20Asset" -> TokenValue(w, s)
      [] AssetOf[s] = "ERC4626Asset" -> VaultValue(w, s)
      [] AssetOf[s] = "EthenaAsset" -> EthenaValue(w, s)
      [] AssetOf[s] = "MapleAsset" -> MapleValue(w, s)
      [] OTHER -> OffChainValue(w, s)

\* _invest(usdxAmount, 0, slippage), the form in which Stabilizer calls it.
Invest(w, s, usdxAmount, slippage) ==
    CASE AssetOf[s] = "ERC20Asset" -> TokenInvest(w, s, usdxAmount, slippage)
      [] AssetOf[s] = "EthenaAsset" -> EthenaInvest(w, s, usdxAmount, slippage)
      [] AssetOf[s] \in {"ERC4626Asset", "MapleAsset"} -> InvestDeposit(w, s, usdxAmount)
      [] OTHER -> OffChainInvest(w, s, usdxAmount, 0)

Divest(w, s, usdxAmount, slippage) ==
    CASE AssetOf[s] = "ERC20Asset" -> TokenDivest(w, s, usdxAmount, slippage)
      [] AssetOf[s] = "ERC4626Asset" -> DivestWithdraw(w, s, usdxAmount)
      [] AssetOf[s] = "EthenaAsset" -> EthenaDivest(w, s, usdxAmount, slippage)
      [] AssetOf[s] = "MapleAsset" -> MapleDivest(w, s)
      [] OTHER -> OffChainDivest(w, s, usdxAmount)

\* An off-chain asset leaves _getToken at address zero, whose balance cannot be asked.
hasToken(s) == AssetOf[s] # "OffChainAsset"

-----------------------------------------------------------------------------
(* Views *)

accruedFee(w, s) ==
    IF w.stab[s].sweepBorrowed > 0
    THEN (w.stab[s].sweepBorrowed * w.stab[s].config.protocolFee
             * ((w.now - w.stab[s].spreadDate) \div Day))
            \div (DaysPerYear * Precision)
    ELSE 0

getDebt(w, s) == w.stab[s].sweepBorrowed + accruedFee(w, s)

grossValue(w, s) ==
    AssetValue(w, s) + oracleUsdxToUsd(w, w.usdx[s]) + convertToUSD(w, w.sweep.balanceOf[s])

currentValue(w, s) == grossValue(w, s) - convertToUSD(w, accruedFee(w, s))

\* Solidity rounds the signed quotient toward zero, and the ratio is cut at -100%.
getEquityRatio(w, s) ==
    LET value == currentValue(w, s)
        junior == value - convertToUSD(w, w.stab[s].sweepBorrowed)
    IN  CASE value = 0 /\ w.stab[s].sweepBorrowed > 0 -> - Precision
          [] value = 0 /\ w.stab[s].sweepBorrowed = 0 -> 0
          [] value > 0 /\ junior >= 0 -> (junior * Precision) \div value
          [] value > 0 /\ junior < - value -> - Precision
          [] OTHER -> - (((- junior) * Precision) \div value)

callMissed(w, s) ==
    /\ w.stab[s].config.callDelay > 0
    /\ w.stab[s].callAmount > 0
    /\ w.now > w.stab[s].callTime

\* currentValue is unsigned: it reverts when the fee is worth more than all assets.
valueReadable(w, s) == grossValue(w, s) >= convertToUSD(w, accruedFee(w, s))

defaultReadable(w, s) ==
    callMissed(w, s) \/ w.stab[s].sweepBorrowed = 0 \/ valueReadable(w, s)

isDefaulted(w, s) ==
    \/ callMissed(w, s)
    \/ /\ w.stab[s].sweepBorrowed > 0
       /\ getEquityRatio(w, s) < w.stab[s].config.minEquityRatio

checkRatio(w, s) ==
    valueReadable(w, s) /\ getEquityRatio(w, s) >= w.stab[s].config.minEquityRatio

auctionFloor(w, s) ==
    (w.stab[s].sweepBorrowed * (Precision - w.stab[s].config.minLiquidationRatio))
        \div Precision

\* Mutant: the falling price has no floor.
getAuctionAmountNoFloor(w, s) ==
    LET steps == (w.now - w.stab[s].startingTime) \div AuctionStep
        ratio == Least(steps * w.stab[s].config.decreaseFactor, Precision)
    IN  (w.stab[s].startingPrice * (Precision - ratio)) \div Precision

getAuctionAmount(w, s) ==
    LET steps == (w.now - w.stab[s].startingTime) \div AuctionStep
        ratio == steps * w.stab[s].config.decreaseFactor
        price == (w.stab[s].startingPrice * (Precision - ratio)) \div Precision
    IN  IF ratio > Precision \/ price < auctionFloor(w, s) THEN auctionFloor(w, s)
        ELSE price

-----------------------------------------------------------------------------
(* Internals *)

\* _buy: usdx for SWEEP, at an amount the AMM decides above the slippage limit.
Buy(w, s, usdxAmount, slippage) ==
    LET paid == Least(usdxAmount, w.usdx[s])
        fair == convertToSWEEP(w, oracleUsdxToUsd(w, paid))
    IN  IF paid = 0 THEN {}
        ELSE Then(UsdxTransfer(w, s, Outside, paid), LAMBDA w1 :
                UNION {SweepTransfer(w1, Outside, s, out) :
                         out \in subBasisPoints(fair, slippage) .. fair + Bonus})

\* _sell: SWEEP for usdx.
Sell(w, s, sweepAmount, slippage) ==
    LET paid == Least(sweepAmount, w.sweep.balanceOf[s])
        fair == oracleUsdToUsdx(w, convertToUSD(w, paid))
    IN  IF paid = 0 THEN {}
        ELSE Then(SweepTransfer(w, s, Outside, paid), LAMBDA w1 :
                UNION {UsdxTransfer(w1, Outside, s, out) :
                         out \in subBasisPoints(fair, slippage) .. fair + Bonus})

\* Mutant: the loan is booked twice, as by a second += after the mint.
BorrowTwice(w, s, amount) ==
    Then(SweepCall(w, Mint(w.sweep, s, amount, TRUE)), LAMBDA w1 :
         {[w1 EXCEPT !.stab[s].sweepBorrowed = @ + 2 * amount, !.stab[s].spreadDate = w.now]})

\* The fee accrued so far is paid out of the loan; isMintingAllowed, SweepCoin.mint's
\* look at the AMM price, may hold at any time.
Borrow(w, s, amount) ==
    LET fee == accruedFee(w, s)
    IN  IF /\ isValidMinter(w.sweep, s)
           /\ w.stab[s].sweepBorrowed + amount =< w.stab[s].config.loanLimit
        THEN Then(SweepCall(w, Mint(w.sweep, s, amount, TRUE)), LAMBDA w1 :
                  SweepTransfer([w1 EXCEPT !.stab[s].sweepBorrowed = @ + amount,
                                           !.stab[s].spreadDate = w.now],
                                s, Treasury, fee))
        ELSE {}

\* Mutant: the clock of the auction is reset, its price is not.
StopAuctionKeepsPrice(w, s) ==
    IF isDefaulted(w, s) THEN w ELSE [w EXCEPT !.stab[s].startingTime = 0]

StopAuction(w, s) ==
    IF isDefaulted(w, s) THEN w
    ELSE [w EXCEPT !.stab[s].startingTime = 0, !.stab[s].startingPrice = 0]

\* Mutant: the call amount is reduced without a look at its size.
BookRepaymentUnchecked(w, s, paid, fee) ==
    [w EXCEPT !.stab[s].callAmount = @ - paid, !.stab[s].callTime = 0,
              !.stab[s].spreadDate = w.now, !.stab[s].sweepBorrowed = @ - (paid - fee)]

\* Mutant: any repayment clears the deadline of the call.
BookRepaymentClearsDeadline(w, s, paid, fee) ==
    [w EXCEPT !.stab[s].callAmount = IF @ > paid THEN @ - paid ELSE 0,
              !.stab[s].callTime = 0,
              !.stab[s].spreadDate = w.now, !.stab[s].sweepBorrowed = @ - (paid - fee)]

\* Mutant: the whole payment is booked as a fee.
BookRepaymentAsFee(w, s, paid, fee) ==
    LET call == IF w.stab[s].callAmount > paid THEN w.stab[s].callAmount - paid ELSE 0
    IN  [w EXCEPT !.stab[s].callAmount = call,
                  !.stab[s].callTime =
                      IF w.stab[s].config.callDelay > 0 /\ call = 0 THEN 0 ELSE @,
                  !.stab[s].spreadDate = w.now]

\* Books a payment of paid, of which fee is fee: the call, its deadline, the debt.
BookRepayment(w, s, paid, fee) ==
    LET call == IF w.stab[s].callAmount > paid THEN w.stab[s].callAmount - paid ELSE 0
    IN  [w EXCEPT !.stab[s].callAmount = call,
                  !.stab[s].callTime =
                      IF w.stab[s].config.callDelay > 0 /\ call = 0 THEN 0 ELSE @,
                  !.stab[s].spreadDate = w.now,
                  !.stab[s].sweepBorrowed = @ - (paid - fee)]

\* paid - fee is unsigned: a payment smaller than the accrued fee reverts.
Repay(w, s, amount) ==
    LET paid == Least(Least(amount, w.sweep.balanceOf[s]), getDebt(w, s))
        fee == accruedFee(w, s)
    IN  IF paid = 0 \/ paid < fee THEN {}
        ELSE Then(SweepTransfer(BookRepayment(w, s, paid, fee), s, Treasury, fee),
                  LAMBDA w1 :
                    {StopAuction(w2, s) :
                        w2 \in SweepCall(w1, Burn(w1.sweep, s, paid - fee, TRUE))})

\* A liquidator tops the stabilizer's SWEEP up to debt, takes everything else it
\* holds, and the debt is repaid.
Liquidate(w, s, debt) ==
    LET missing == IF debt > w.sweep.balanceOf[s] THEN debt - w.sweep.balanceOf[s] ELSE 0
    IN  IF defaultReadable(w, s) /\ isDefaulted(w, s) /\ hasToken(s)
        THEN Then(IF missing > 0 THEN SweepTransfer(w, Outside, s, missing) ELSE {w},
                  LAMBDA w1 :
             Then(UsdxTransfer(w1, s, Outside, w1.usdx[s]), LAMBDA w2 :
             Then(TokenTransfer(w2, s, Outside, w2.token[s]), LAMBDA w3 :
                  Repay(w3, s, debt))))
        ELSE {}

-----------------------------------------------------------------------------
(* External functions; those of the borrower need the stabilizer unpaused,  *)
(* repay, payFee and divest excepted *)

BorrowAndCheck(w, s, amount) ==
    IF w.stab[s].paused THEN {} ELSE {x \in Borrow(w, s, amount) : checkRatio(x, s)}

\* The clock of the fee restarts also when no whole day has gone by and nothing is paid.
PayFee(w, s) ==
    LET fee == accruedFee(w, s)
        w1 == [w EXCEPT !.stab[s].spreadDate = w.now]
    IN  IF fee > 0 THEN SweepTransfer(w1, s, Treasury, fee) ELSE {w1}

\* Mutant: a call adds to the one before it.
SetCallAdds(w, s, amount) ==
    IF w.stab[s].config.callDelay > 0
    THEN [w EXCEPT !.stab[s].callTime = w.now + w.stab[s].config.callDelay,
                   !.stab[s].callAmount = @ + amount]
    ELSE w

SetCall(w, s, amount) ==
    IF w.stab[s].config.callDelay > 0
    THEN [w EXCEPT !.stab[s].callTime = w.now + w.stab[s].config.callDelay,
                   !.stab[s].callAmount = amount]
    ELSE w

\* Mutant: usdx that does not suffice keeps the asset from being divested.
RaiseSweepOrDivest(w, s, amount, slippage) ==
    LET missingUsdx == oracleUsdToUsdx(w,
                           convertToUSD(w, amount - w.sweep.balanceOf[s]))
    IN  IF w.sweep.balanceOf[s] >= amount THEN {w}
        ELSE IF w.usdx[s] > 0 THEN Buy(w, s, missingUsdx, slippage)
             ELSE Divest(w, s, missingUsdx, slippage)

\* Buys the SWEEP missing for a call, divesting for the usdx missing for that.
RaiseSweep(w, s, amount, slippage) ==
    LET missingUsdx == oracleUsdToUsdx(w,
                           convertToUSD(w, amount - w.sweep.balanceOf[s]))
    IN  IF w.sweep.balanceOf[s] >= amount THEN {w}
        ELSE Then(IF missingUsdx > w.usdx[s]
                  THEN Divest(w, s, missingUsdx - w.usdx[s], slippage)
                  ELSE {w}, LAMBDA w1 :
                  IF w1.usdx[s] > 0 THEN Buy(w1, s, missingUsdx, slippage) ELSE {w1})

AutoCall(w, s, sweepAmount, slippage) ==
    LET amount == Least(sweepAmount, getDebt(w, s))
    IN  Then(RaiseSweep(SetCall(w, s, amount), s, amount, slippage), LAMBDA w1 :
             IF w1.sweep.balanceOf[s] > 0 /\ amount > 0 THEN Repay(w1, s, amount) ELSE {w1})

CancelCall(w, s) == [w EXCEPT !.stab[s].callAmount = 0, !.stab[s].callTime = 0]

\* Borrows and invests what the loan brings: through the AMM, or, without useAMM, as
\* much usdx of the stabilizer's own as the loan is worth in USD.
BorrowAndInvest(w, s, sweepAmount, slippage, useAMM) ==
    Then(Borrow(w, s, sweepAmount), LAMBDA w1 :
    Then(IF useAMM THEN Sell(w1, s, sweepAmount, slippage) ELSE {w1}, LAMBDA w2 :
         Invest(w2, s, IF useAMM THEN w2.usdx[s] - w1.usdx[s] ELSE convertToUSD(w, sweepAmount),
                slippage)))

AutoInvest(w, s, sweepAmount, slippage) ==
    IF /\ w.stab[s].config.autoInvestEnabled
       /\ sweepAmount >= w.stab[s].config.autoInvestMinAmount
    THEN {x \in BorrowAndInvest(w, s, sweepAmount, slippage, TRUE) :
             /\ valueReadable(x, s)
             /\ getEquityRatio(x, s) >= w.stab[s].config.autoInvestMinRatio}
    ELSE {}

OneStepInvest(w, s, sweepAmount, slippage, useAMM) ==
    IF w.stab[s].paused THEN {}
    ELSE {x \in BorrowAndInvest(w, s, sweepAmount, slippage, useAMM) : checkRatio(x, s)}

OneStepDivest(w, s, usdxAmount, slippage, useAMM) ==
    IF w.stab[s].paused THEN {}
    ELSE Then(Divest(w, s, usdxAmount, slippage), LAMBDA w1 :
         Then(IF useAMM THEN Buy(w1, s, usdxAmount, slippage) ELSE {w1}, LAMBDA w2 :
              Repay(w2, s, IF useAMM THEN w2.sweep.balanceOf[s] - w1.sweep.balanceOf[s]
                                     ELSE convertToSWEEP(w1, usdxAmount))))

\* withdraw, whose token is one of the three the stabilizer holds.
WithdrawAll(w, s, moved) ==
    IF w.stab[s].paused THEN {}
    ELSE {x \in moved : w.stab[s].sweepBorrowed > 0 => checkRatio(x, s)}

WithdrawSweep(w, s, amount) ==
    WithdrawAll(w, s, SweepTransfer(w, s, Outside, Least(amount, w.sweep.balanceOf[s])))

WithdrawUsdx(w, s, amount) ==
    WithdrawAll(w, s, UsdxTransfer(w, s, Outside, Least(amount, w.usdx[s])))

WithdrawToken(w, s, amount) ==
    WithdrawAll(w, s, TokenTransfer(w, s, Outside, Least(amount, w.token[s])))

\* Mutant: a running auction can be started again.
StartAuctionAgain(w, s) ==
    LET c == w.stab[s].config
    IN  Call(/\ defaultReadable(w, s) /\ isDefaulted(w, s) /\ c.auctionAllowed
             /\ 0 =< c.minEquityRatio /\ c.minEquityRatio < Precision,
             [w EXCEPT !.stab[s].startingTime = w.now,
                       !.stab[s].startingPrice =
                           (getDebt(w, s) * Precision) \div (Precision - c.minEquityRatio)])

\* PRECISION - uint256(minEquityRatio) reverts on a negative ratio, and the division
\* on one of 100%.
StartAuction(w, s) ==
    LET c == w.stab[s].config
    IN  Call(/\ defaultReadable(w, s) /\ isDefaulted(w, s)
             /\ c.auctionAllowed /\ w.stab[s].startingPrice = 0
             /\ 0 =< c.minEquityRatio /\ c.minEquityRatio < Precision,
             [w EXCEPT !.stab[s].startingTime = w.now,
                       !.stab[s].startingPrice =
                           (getDebt(w, s) * Precision) \div (Precision - c.minEquityRatio)])

BuyAuction(w, s) ==
    IF w.stab[s].startingTime = 0 THEN {} ELSE Liquidate(w, s, getAuctionAmount(w, s))

-----------------------------------------------------------------------------
(* SweepCoin.writeOff: every listed minter but the insolvent one owes more   *)
(* SWEEP as its price falls, or less as it rises.  The period and its rate   *)
(* go on: the new price is answered with what has accrued since it began.    *)

\* Mutant: the multiplier upside down.
WrittenOffInverted(w, s, newPrice) ==
    (w.stab[s].sweepBorrowed * ((Precision * newPrice) \div w.targetPrice)) \div Precision

WrittenOff(w, s, newPrice) ==
    (w.stab[s].sweepBorrowed * ((Precision * w.targetPrice) \div newPrice)) \div Precision

\* _checkLimit, around the price that is stored.
WithinWriteOffLimit(current, newPrice) ==
    /\ newPrice >= (current * (Precision - WriteOffLimit)) \div Precision
    /\ newPrice =< (current * (Precision + WriteOffLimit)) \div Precision

\* A price that is answered as zero, by which nothing can be divided, is left out.
WriteOff(w, newPrice, insolventDebtor, accrued) ==
    LET list == w.sweep.minterAddresses
        called == {list[i] : i \in 1 .. Len(list)} \ {insolventDebtor}
        answered == (newPrice * accrued) \div InterestPrecision
    IN  Call(w.sweep.paused /\ newPrice > 0 /\ answered > 0,
             [w EXCEPT !.targetPrice = answered,
                       !.stab = [s \in DOMAIN w.stab |->
                           IF s \in called
                           THEN [w.stab[s] EXCEPT !.sweepBorrowed = WrittenOff(w, s, newPrice)]
                           ELSE w.stab[s]]])
=============================================================================

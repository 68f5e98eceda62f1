-------------------------- MODULE StabilizerSystem --------------------------
(***************************************************************************)
(* Stabilizers and everybody who acts on them: their borrowers, anybody,   *)
(* the balancer and governance (the parts of Balancer.sol, Sweep.sol and   *)
(* Treasury.sol that do), with the SWEEP token that backs their loans.     *)
(* Every action is one transaction, or one step of the world outside:      *)
(* block time, oracles.                                                    *)
(***************************************************************************)
EXTENDS StabilizerCore

CONSTANTS Configs,          \* what a borrower may configure
          AmountsOf,        \* per stabilizer, what a call may name of SWEEP, usdx or token,
          SlippagesOf,      \* and as its slippage, a ratio
          TokenPrices, UsdxPrices, TargetPrices,
          Accrued,          \* what InterestPrecision may have become since the period began
          Waits,            \* how long a protocol may take for what is asked back
          AgentValues,      \* what the collateral agent may find an investment worth
          Cap,              \* maximum amount of a minter
          Junior,           \* usdx each borrower has put into its stabilizer
          Pool,             \* usdx, and as many tokens, outside at the start
          GovernanceOps,    \* which governance actions this instance uses
          MaxTime           \* bound: last block time

ASSUME InputAssumption ==
    /\ Configs \subseteq Config
    /\ AmountsOf \in [Stabilizers -> SUBSET Nat]
    /\ SlippagesOf \in [Stabilizers -> SUBSET (0 .. Precision)]
    /\ TokenPrices \cup UsdxPrices \cup TargetPrices \subseteq Nat \ {0}
    /\ Accrued \cup AgentValues \cup Waits \cup {Cap, Junior, Pool, MaxTime} \subseteq Nat

Amounts == UNION {AmountsOf[s] : s \in Stabilizers}
Slippages == UNION {SlippagesOf[s] : s \in Stabilizers}

VARIABLES sweep, targetPrice, usdx, token, usdxPrice, tokenPrice, stab, off, claim, now

ledgers == <<sweep, usdx, token>>
prices == <<targetPrice, usdxPrice, tokenPrice>>
vars == <<ledgers, prices, stab, off, claim, now>>

World == [sweep |-> sweep, targetPrice |-> targetPrice, usdx |-> usdx, token |-> token,
          usdxPrice |-> usdxPrice, tokenPrice |-> tokenPrice, stab |-> stab, off |-> off,
          claim |-> claim, now |-> now]

-----------------------------------------------------------------------------

TypeOK ==
    /\ sweep \in BaseSweepStorage
    /\ targetPrice \in Nat \ {0} /\ usdxPrice \in Nat \ {0} /\ tokenPrice \in Nat \ {0}
    /\ usdx \in [Accounts -> Nat] /\ token \in [Accounts -> Nat]
    /\ stab \in [Stabilizers -> StabilizerStorage]
    /\ off \in [Stabilizers -> OffChainStorage]
    /\ claim \in [Stabilizers -> Claim]
    /\ now \in Nat

\* Stabilizers that were configured and proposed; none is a minter yet.
Init ==
    /\ now = 1
    /\ targetPrice = Unit /\ usdxPrice = Unit /\ tokenPrice = Unit
    /\ usdx = [a \in Accounts |-> IF a \in Stabilizers THEN Junior
                                  ELSE IF a = Outside THEN Pool ELSE 0]
    /\ token = [a \in Accounts |-> IF a = Outside THEN Pool ELSE 0]
    /\ sweep = InitBaseSweep
    /\ off = [s \in Stabilizers |-> InitOffChain]
    /\ \E waits \in [Stabilizers -> Waits] :
          claim = [s \in Stabilizers |-> [amount |-> 0, end |-> 0, duration |-> waits[s]]]
    /\ \E accepted \in [Stabilizers -> Configs] :
          stab = [s \in Stabilizers |->
                    [sweepBorrowed |-> 0, callTime |-> 0, callAmount |-> 0, spreadDate |-> 0,
                     startingTime |-> 0, startingPrice |-> 0, paused |-> FALSE,
                     settingsEnabled |-> FALSE, config |-> accepted[s]]]

\* A transaction ends in one of the worlds its call can leave, or is no step.
Do(worlds) ==
    \E w \in worlds :
        /\ sweep' = w.sweep /\ targetPrice' = w.targetPrice
        /\ usdx' = w.usdx /\ token' = w.token
        /\ usdxPrice' = w.usdxPrice /\ tokenPrice' = w.tokenPrice
        /\ stab' = w.stab /\ off' = w.off /\ claim' = w.claim /\ now' = w.now

-----------------------------------------------------------------------------
(* The borrower *)

borrow(s, amount) == amount > 0 /\ Do(BorrowAndCheck(World, s, amount))

repay(s, amount) == Do(Repay(World, s, amount))

payFee(s) == Do(PayFee(World, s))

invest(s, amount, slippage) ==
    /\ AssetOf[s] # "OffChainAsset" /\ amount > 0 /\ ~stab[s].paused
    /\ Do(Invest(World, s, amount, slippage))

investOffChain(s, usdxAmount, sweepAmount) ==
    /\ AssetOf[s] = "OffChainAsset" /\ usdxAmount > 0 /\ sweepAmount > 0 /\ ~stab[s].paused
    /\ Do(OffChainInvest(World, s, usdxAmount, sweepAmount))

\* By the number of shares; investDeposit and divestWithdraw are invest and divest.
investMint(s, shares) ==
    /\ AssetOf[s] \in {"ERC4626Asset", "MapleAsset"} /\ shares > 0 /\ ~stab[s].paused
    /\ Do(InvestMint(World, s, shares))

\* A pool of Maple redeems only what was asked for before.
divestRedeem(s, shares) ==
    /\ AssetOf[s] = "ERC4626Asset" /\ shares > 0 /\ ~stab[s].paused
    /\ Do(DivestRedeem(World, s, shares))

\* requestRedeem, of the assets that pay back what was asked for before.
requestRedeem(s, amount) ==
    \/ AssetOf[s] = "EthenaAsset" /\ amount > 0 /\ Do(EthenaRequest(World, s, amount))
    \/ AssetOf[s] = "MapleAsset" /\ Do(MapleRequest(World, s, amount))

\* Only those of ERC20Asset and EthenaAsset have a slippage.
divest(s, amount, slippage) == amount > 0 /\ Do(Divest(World, s, amount, slippage))

buySweepOnAMM(s, amount, slippage) ==
    ~stab[s].paused /\ Do(Buy(World, s, amount, slippage))

sellSweepOnAMM(s, amount, slippage) ==
    ~stab[s].paused /\ Do(Sell(World, s, amount, slippage))

oneStepInvest(s, amount, slippage, useAMM) ==
    amount > 0 /\ Do(OneStepInvest(World, s, amount, slippage, useAMM))

oneStepDivest(s, amount, slippage, useAMM) ==
    amount > 0 /\ Do(OneStepDivest(World, s, amount, slippage, useAMM))

withdraw(s, amount) ==
    /\ amount > 0
    /\ Do(WithdrawSweep(World, s, amount) \cup WithdrawUsdx(World, s, amount)
             \cup WithdrawToken(World, s, amount))

\* loanLimit is one of the settings a configuration holds.
configure(s, config) ==
    /\ stab[s].settingsEnabled
    /\ Do({[World EXCEPT !.stab[s].config = config]})

propose(s) == Do({[World EXCEPT !.stab[s].settingsEnabled = FALSE]})

-----------------------------------------------------------------------------
(* Anybody *)

startAuction(s) == Do(StartAuction(World, s))

buyAuction(s) == Do(BuyAuction(World, s))

liquidate(s) ==
    /\ hasToken(s) /\ ~stab[s].config.auctionAllowed
    /\ Do(Liquidate(World, s, getDebt(World, s)))

\* An ERC20 transfer to the stabilizer, as a borrower does to add to its equity.
deposit(s, amount) ==
    /\ amount > 0
    /\ Do(SweepTransfer(World, Outside, s, amount) \cup UsdxTransfer(World, Outside, s, amount))

\* Whoever holds the money that was invested off chain, or anybody else.
payback(s, currency, amount) ==
    AssetOf[s] = "OffChainAsset" /\ Do(Payback(World, s, currency, amount))

\* The collateral agent of an off-chain asset.
updateValue(s, value) ==
    AssetOf[s] = "OffChainAsset" /\ Do({UpdateValue(World, s, value)})

-----------------------------------------------------------------------------
(* The balancer, on orders of the multisig *)

autoCall(s, amount, slippage) == Do(AutoCall(World, s, amount, slippage))

autoInvest(s, amount, slippage) == Do(AutoInvest(World, s, amount, slippage))

\* Balancer.cancelCall asks for a time-weighted price above the target: it may hold.
cancelCall(s) == Do({CancelCall(World, s)})

setLoanLimit(s, limit) ==
    "setLoanLimit" \in GovernanceOps /\ Do({[World EXCEPT !.stab[s].config.loanLimit = limit]})

-----------------------------------------------------------------------------
(* Governance *)

addMinter(s) == Do(SweepCall(World, AddMinter(sweep, s, Cap)))

removeMinter(s) ==
    "removeMinter" \in GovernanceOps /\ Do(SweepCall(World, RemoveMinter(sweep, s)))

pauseSweep ==
    "writeOff" \in GovernanceOps /\ Do(SweepCall(World, Pause(sweep) \cup Unpause(sweep)))

\* The AMM price has to be at or below the target price, which it may always be.
\* SWEEP's schedule decides which price is stored and what has accrued on it; Outside,
\* as the insolvent debtor, is any address that owes nothing.
writeOff(newPrice, insolventDebtor, accrued) ==
    /\ "writeOff" \in GovernanceOps
    /\ {current \in TargetPrices : WithinWriteOffLimit(current, newPrice)} # {}
    /\ Do(WriteOff(World, newPrice, insolventDebtor, accrued))

Debtors == Stabilizers \cup {Outside}
writesOff == \E p \in TargetPrices, a \in Accrued, d \in Debtors : writeOff(p, d, a)

\* reject pauses, and so reverts on a stabilizer that is paused already.
reject(s) ==
    /\ "reject" \in GovernanceOps
    /\ ~stab[s].paused
    /\ Do({[World EXCEPT !.stab[s].settingsEnabled = TRUE, !.stab[s].paused = TRUE]})

pause(s) ==
    /\ "reject" \in GovernanceOps
    /\ ~stab[s].paused
    /\ Do({[World EXCEPT !.stab[s].paused = TRUE]})

unpause(s) == stab[s].paused /\ Do({[World EXCEPT !.stab[s].paused = FALSE]})

\* MapleAsset.forceRequestRedeem and forceDivest, by the multisig or governance.
forceRequestRedeem(s, shares) ==
    /\ AssetOf[s] = "MapleAsset" /\ defaultReadable(World, s) /\ isDefaulted(World, s)
    /\ Do(PoolRequest(World, s, shares))

forceDivest(s) ==
    /\ AssetOf[s] = "MapleAsset" /\ defaultReadable(World, s) /\ isDefaulted(World, s)
    /\ Do(MapleDivest(World, s))

\* Treasury.sendToken, which sends what there is when asked for more.
sendToken(amount) ==
    /\ "sendToken" \in GovernanceOps
    /\ Do(SweepTransfer(World, Treasury, Outside, Least(amount, sweep.balanceOf[Treasury])))

-----------------------------------------------------------------------------
(* The world outside *)

Tick == now < MaxTime /\ Do({[World EXCEPT !.now = @ + 1]})

OracleMoves(usdxAnswer, tokenAnswer) ==
    Do({[World EXCEPT !.usdxPrice = usdxAnswer, !.tokenPrice = tokenAnswer]})

\* The owner of the vault of USDe sets its cooldown.
setCooldownDuration(s, wait) ==
    AssetOf[s] = "EthenaAsset" /\ Do({[World EXCEPT !.claim[s].duration = wait]})

\* The interest schedule, or the multisig, moves what targetPrice() answers.
TargetPriceMoves(price) ==
    "targetPrice" \in GovernanceOps /\ Do({[World EXCEPT !.targetPrice = price]})

-----------------------------------------------------------------------------

Borrower(s) ==
    \/ payFee(s) \/ propose(s)
    \/ \E config \in Configs : configure(s, config)
    \/ \E a \in AmountsOf[s] : borrow(s, a) \/ repay(s, a) \/ withdraw(s, a)
    \/ \E a \in AmountsOf[s] : investMint(s, a) \/ divestRedeem(s, a) \/ requestRedeem(s, a)
    \/ \E a, b \in AmountsOf[s] : investOffChain(s, a, b)
    \/ \E a \in AmountsOf[s], sl \in SlippagesOf[s] :
          \/ invest(s, a, sl) \/ divest(s, a, sl)
          \/ buySweepOnAMM(s, a, sl) \/ sellSweepOnAMM(s, a, sl)
          \/ \E useAMM \in BOOLEAN :
                oneStepInvest(s, a, sl, useAMM) \/ oneStepDivest(s, a, sl, useAMM)

Anybody(s) ==
    \/ startAuction(s) \/ buyAuction(s) \/ liquidate(s)
    \/ \E a \in AmountsOf[s] : deposit(s, a)
    \/ \E a \in AmountsOf[s], c \in {"sweep", "usdx"} : payback(s, c, a)
    \/ \E v \in AgentValues : updateValue(s, v)

Balancer(s) ==
    \/ cancelCall(s)
    \/ \E a \in AmountsOf[s] : setLoanLimit(s, a)
    \/ \E a \in AmountsOf[s], sl \in SlippagesOf[s] : autoCall(s, a, sl) \/ autoInvest(s, a, sl)

Governance ==
    \/ pauseSweep
    \/ \E a \in Amounts : sendToken(a)
    \/ writesOff
    \/ \E s \in Stabilizers :
          \/ addMinter(s) \/ removeMinter(s) \/ reject(s) \/ pause(s) \/ unpause(s)
          \/ forceDivest(s)
          \/ \E a \in AmountsOf[s] : forceRequestRedeem(s, a)

Environment ==
    \/ Tick
    \/ \E u \in UsdxPrices, t \in TokenPrices : OracleMoves(u, t)
    \/ \E p \in TargetPrices : TargetPriceMoves(p)
    \/ \E s \in Stabilizers, d \in Waits : setCooldownDuration(s, d)

Next ==
    \/ \E s \in Stabilizers : Borrower(s) \/ Anybody(s) \/ Balancer(s)
    \/ Governance
    \/ Environment

Spec == Init /\ [][Next]_vars

-----------------------------------------------------------------------------
(* Properties *)

\* What a stabilizer still owes and what the token has on its account as minted move
\* together through every loan, repayment, call and liquidation; only a write-off or
\* the removal of the minter parts them.
DebtMatchesMint ==
    [][\A s \in Stabilizers :
          \/ stab'[s].sweepBorrowed - stab[s].sweepBorrowed =
                 sweep'.minters[s].mintedAmount - sweep.minters[s].mintedAmount
          \/ sweep.minters[s].isListed /\ ~sweep'.minters[s].isListed
          \/ writesOff]_vars

\* A pending call always has its deadline, however calls, repayments, cancellations and
\* new configurations follow each other.
CallHasDeadline == \A s \in Stabilizers : stab[s].callAmount > 0 => stab[s].callTime > 0

\* A write-off rescales every debt it calls on to the new price: at that price what a
\* stabilizer owes in USD has not grown, and has shrunk by no more than the roundings cost,
\* of which the ratio of the prices is the one that grows with the debt.  What it then owes
\* at the price SWEEP answers is more only by what has accrued since the period began, which
\* the old price had in it and the new one gets once more.
WriteOffKeepsValue ==
    [][\A p \in TargetPrices, a \in Accrued, d \in Debtors :
          sweep.paused /\ writeOff(p, d, a) =>
          \A s \in Stabilizers \ {d} : sweep.minters[s].isListed =>
             LET before == convertToUSD(World, stab[s].sweepBorrowed)
                 ruled == (stab'[s].sweepBorrowed * p) \div (Unit * Scale)
                 after == convertToUSD(World, stab[s].sweepBorrowed)'
             IN  /\ ruled =< before
                 /\ (Unit * Scale) * (before - ruled) =<
                        p * (stab[s].sweepBorrowed \div Precision + 2) + Unit * Scale
                 /\ InterestPrecision * after =< (before + 1) * a]_vars

\* An auction without a call behind it is over a debt: whatever brings the debt to zero
\* also ends the auction.
AuctionHasDebt ==
    \A s \in Stabilizers :
        stab[s].config.callDelay = 0 /\ stab[s].startingPrice > 0
            => stab[s].sweepBorrowed > 0

\* While an auction runs on the same terms and the debt does not grow, its price never
\* rises: no second start of it and no partial purchase takes it back up.  (With a minimum
\* ratio over 100% there is no part to protect and the code cannot quote a price.)
AuctionPriceNeverRises ==
    [][\A s \in Stabilizers :
          /\ stab[s].startingPrice > 0 /\ stab'[s].startingPrice > 0
          /\ stab'[s].config.decreaseFactor = stab[s].config.decreaseFactor
          /\ stab'[s].config.minLiquidationRatio = stab[s].config.minLiquidationRatio
          /\ stab[s].config.minLiquidationRatio =< Precision
          /\ stab'[s].sweepBorrowed =< stab[s].sweepBorrowed
          => getAuctionAmount(World, s)' =< getAuctionAmount(World, s)]_vars

\* Whoever takes a stabilizer's assets, in an auction or without, reduces its debt by at
\* least the part that the configuration protects.
LiquidationPaysFloor ==
    [][\A s \in Stabilizers :
          (buyAuction(s) \/ liquidate(s)) =>
              getDebt(World, s) - getDebt(World, s)' >= auctionFloor(World, s)]_vars

\* Repaying from one's own SWEEP, fee included, never brings a healthy stabilizer into
\* default, nor its value below the fee, if its minimum ratio is not negative and it could
\* lose two of the smallest part of a dollar, which is what the conversions of balance,
\* fee and debt may round away from its equity.
RepayNeverDefaults ==
    [][\A s \in Stabilizers, a \in Amounts :
          LET value == currentValue(World, s)
              junior == value - convertToUSD(World, stab[s].sweepBorrowed)
          IN  /\ stab[s].config.minEquityRatio >= 0 /\ value >= 0 /\ ~callMissed(World, s)
              /\ (junior - 2) * Precision > value * stab[s].config.minEquityRatio
              /\ repay(s, a)
              => valueReadable(World, s)' /\ ~isDefaulted(World, s)']_vars

\* What a stabilizer owns beyond its debt, at the prices of the day, with what its asset
\* does not count while it waits for it.
equity(w, s) ==
    grossValue(w, s) - convertToUSD(w, getDebt(w, s))
      + (IF AssetOf[s] = "EthenaAsset"
         THEN oracleUsdxToUsd(w, w.claim[s].amount \div Scale) ELSE 0)

\* Whether a step adds to something a stabilizer owns, or changes what it owes.
gains(s) ==
    \/ usdx'[s] > usdx[s] \/ token'[s] > token[s] \/ claim'[s] # claim[s]
    \/ sweep'.balanceOf[s] > sweep.balanceOf[s]
    \/ stab'[s] # stab[s] \/ off'[s] # off[s]

\* Nothing a borrower or the balancer does makes a stabilizer richer: what is lent, swapped,
\* invested, asked back or repaid leaves one book and enters another.  It is for pools that
\* pay no more than the oracle price and a usdx worth one dollar; two conversions may round
\* down what is owed.  A new protocolFee is left out: it prices the days gone by as well.
NoFreeEquity ==
    [][\A s \in Stabilizers :
          \/ prices' # prices \/ usdxPrice # Unit
          \/ stab'[s].config.protocolFee # stab[s].config.protocolFee
          \/ ~gains(s)
          \/ equity(World, s)' =< equity(World, s) + 2
          \/ ~(Borrower(s) \/ Balancer(s))]_vars

\* What was asked back arrives: through requests, waits, restarted waits, partial
\* payments and forced redemptions nothing of an investment is lost on the way, but for
\* the rounding of two conversions, while a usdx is worth one dollar.
RedemptionLosesNothing ==
    [][\A s \in Stabilizers :
          \/ AssetOf[s] \notin {"EthenaAsset", "MapleAsset"} \/ usdxPrice # Unit
          \/ token'[s] = token[s] /\ claim'[s] = claim[s]
          \/ equity(World, s)' + 2 >= equity(World, s)
          \/ \A a \in AmountsOf[s] :
                ~(\/ requestRedeem(s, a) \/ divest(s, a, 0)
                  \/ forceRequestRedeem(s, a) \/ forceDivest(s))]_vars

\* A vault gives back the usdx it is asked for, as calls count on: no more, and no less
\* than there is but for what one share is worth.
DivestRaisesWhatIsAsked ==
    [][\A s \in Stabilizers :
          AssetOf[s] # "ERC4626Asset"
          \/ \A a \in AmountsOf[s] :
                LET raised == usdx'[s] - usdx[s]
                IN  \/ /\ raised =< a
                       /\ raised + convertToAssets(World, 1) + 1 >=
                              Least(a, convertToAssets(World, token[s]))
                    \/ ~divest(s, a, 0)]_vars

\* What a call leaves unpaid of an off-chain asset is asked back from its wallet, in full
\* but for what conversions lose (no more than the worth of one SWEEP and a unit), whatever
\* was asked for before, where swaps pay the oracle price and a usdx is worth one dollar.
CallAsksForRest ==
    [][\A s \in Stabilizers :
          \/ AssetOf[s] # "OffChainAsset" \/ usdxPrice # Unit
          \/ stab[s].config.callDelay = 0
          \/ convertToUSD(World, stab'[s].callAmount) =<
                 (IF off'[s].redeemMode THEN off'[s].redeemAmount ELSE 0)
                     + convertToUSD(World, 1) + 1
          \/ \A a \in AmountsOf[s] : ~autoCall(s, a, 0)]_vars

\* What payback says: that much money comes back to the asset as is booked out of the
\* investment.
PaybackArrives ==
    [][\A s \in Stabilizers, a \in Amounts, c \in {"sweep", "usdx"} :
          payback(s, c, a) =>
              off[s].actualValue - off'[s].actualValue =<
                  usdx'[s] - usdx[s] + convertToUSD(World, sweep'.balanceOf[s])
                                     - convertToUSD(World, sweep.balanceOf[s]) + 1]_vars

\* What _liquidate says: the liquidator, who pays the debt, gets all the assets.
LiquidatorGetsAll ==
    [][\A s \in Stabilizers :
          buyAuction(s) \/ liquidate(s) =>
              usdx'[s] = 0 /\ token'[s] = 0 /\ claim'[s].amount = 0]_vars

\* What configure says of callDelay: a default by a call lasts until the debt is paid.
PaidMeansNotCalled ==
    \A s \in Stabilizers : stab[s].sweepBorrowed = 0 => ~callMissed(World, s)

\* A stabilizer in debt can always be asked whether it is in default, which is what
\* liquidating it begins with.
DefaultAlwaysReadable == \A s \in Stabilizers : defaultReadable(World, s)
=============================================================================

-------------------------- MODULE StabilizerWorld --------------------------
(***************************************************************************)
(* What the contracts of a stabilizer, its asset included, work on: a      *)
(* world w is the storage of every contract a transaction can touch:       *)
(*   sweep       the SWEEP token (BaseSweep)                               *)
(*   targetPrice what sweep.targetPrice() answers, in Unit per dollar      *)
(*   usdx, token the ledgers of the stablecoin and of the invested token   *)
(*   usdxPrice, tokenPrice  the answers of their Chainlink oracles         *)
(*   stab        per stabilizer, the storage of contracts/Stabilizer/      *)
(*               Stabilizer.sol                                            *)
(*   off         per stabilizer, what OffChainAsset adds to it             *)
(*   claim       per stabilizer, what a protocol it invested in keeps of   *)
(*               its requests: the amount, the end of the wait for it and  *)
(*               how long such waits are                                   *)
(*   now         block time                                                *)
(* A function is an operator from a world to the set of worlds it can      *)
(* leave: empty when it reverts, several when an AMM decides the amount.   *)
(***************************************************************************)
EXTENDS BaseSweep

CONSTANTS Stabilizers,
          Treasury, Outside,   \* Outside: AMM pools, borrowers, liquidators, holders
          Unit,                \* oracle and target prices: this is one dollar
          Scale,               \* SWEEP in the smallest part of a dollar, 10^12 in the code
          Precision,           \* PRECISION: this ratio is 100%
          Day, DaysPerYear,    \* DAY_SECONDS, DAYS_ONE_YEAR
          AuctionStep,         \* the 5 minutes after which the auction price falls
          WriteOffLimit,       \* largest change of price by writeOff, a ratio
          InterestPrecision,   \* INTEREST_PRECISION: this makes a price accrue nothing
          Bonus,               \* bound: what a swap may pay beyond the oracle price
          MaxClaim             \* bound: what a protocol has to pay back to a stabilizer

ASSUME UnitAssumption ==
    /\ {Unit, Scale, Precision, InterestPrecision, Day, DaysPerYear, AuctionStep}
           \subseteq Nat \ {0}
    /\ WriteOffLimit \in 0 .. Precision
    /\ Bonus \in Nat /\ MaxClaim \in Nat
ASSUME AccountAssumption ==
    /\ Treasury # Outside /\ Treasury \notin Stabilizers /\ Outside \notin Stabilizers
    /\ Accounts = Stabilizers \cup {Treasury, Outside}

\* Runs the call F after each way the calls before it can end.
Then(worlds, F(_)) == UNION {F(w) : w \in worlds}

Config ==
    [minEquityRatio : Int, protocolFee : Nat, loanLimit : Nat, decreaseFactor : Nat,
     callDelay : Nat, autoInvestMinRatio : Int, autoInvestMinAmount : Nat,
     minLiquidationRatio : Nat, autoInvestEnabled : BOOLEAN, auctionAllowed : BOOLEAN]

StabilizerStorage ==
    [sweepBorrowed : Nat, callTime : Nat, callAmount : Nat, spreadDate : Nat,
     startingTime : Nat, startingPrice : Nat, paused : BOOLEAN,
     settingsEnabled : BOOLEAN, config : Config]

Claim == [amount : Nat, end : Nat, duration : Nat]

-----------------------------------------------------------------------------
(* Conversions, all rounded down *)

convertToUSD(w, sweepAmount) == (sweepAmount * w.targetPrice) \div (Unit * Scale)
convertToSWEEP(w, usdAmount) == (usdAmount * Unit * Scale) \div w.targetPrice
oracleUsdxToUsd(w, usdxAmount) == (usdxAmount * w.usdxPrice) \div Unit
oracleUsdToUsdx(w, usdAmount) == (usdAmount * Unit) \div w.usdxPrice
\* What an ERC4626 vault answers, whose share is worth tokenPrice.
convertToAssets(w, shares) == (shares * w.tokenPrice) \div Unit
convertToShares(w, assets) == (assets * Unit) \div w.tokenPrice
subBasisPoints(amount, slippage) == (amount * (Precision - slippage)) \div Precision

-----------------------------------------------------------------------------
(* Ledgers *)

SweepCall(w, results) == {[w EXCEPT !.sweep = t] : t \in results}

\* The approver is taken to approve: a refusal reverts the whole transaction.
SweepTransfer(w, from, to, amount) ==
    SweepCall(w, Transfer(w.sweep, from, to, amount, TRUE))

UsdxTransfer(w, from, to, amount) ==
    Call(w.usdx[from] >= amount,
         [w EXCEPT !.usdx = Moved(@, from, to, amount)])

TokenTransfer(w, from, to, amount) ==
    Call(w.token[from] >= amount,
         [w EXCEPT !.token = Moved(@, from, to, amount)])
=============================================================================

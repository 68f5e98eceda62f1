--------------------------- MODULE StabilizerProofs ---------------------------
(***************************************************************************)
(* Stabilizers, for every number of them, every configuration, amount and  *)
(* price: no transaction leaves a balance, a debt or an amount called      *)
(* below zero, a pending call has its deadline, debt and minted amount     *)
(* move together, who liquidates pays what is protected of the debt, who   *)
(* repays stays healthy, a write-off keeps what is owed, the price of an   *)
(* auction falls, and one without a call is over a debt; a vault raises    *)
(* what it is asked for, what is redeemed arrives, and nobody's equity     *)
(* grows out of nothing.                                                   *)
(***************************************************************************)
EXTENDS StabilizerSystem, BaseSweepProofs, NumberTheorems

Worlds ==
    [sweep : BaseSweepStorage, targetPrice : Nat \ {0}, usdx : [Accounts -> Nat],
     token : [Accounts -> Nat], usdxPrice : Nat \ {0}, tokenPrice : Nat \ {0},
     stab : [Stabilizers -> StabilizerStorage], off : [Stabilizers -> OffChainStorage],
     claim : [Stabilizers -> Claim], now : Nat]

\* A minter that was removed has nothing minted on its account.
UnlistedZero(t) == \A a \in Accounts : t.minters[a].isListed \/ t.minters[a].mintedAmount = 0

\* What the storage of a stabilizer keeps to: a pending call has a deadline, and the
\* fee's clock started in the past.
Timed(r, time) ==
    /\ r.callAmount > 0 => r.callTime > 0
    /\ r.spreadDate <= time

GoodWorld(w) ==
    /\ w \in Worlds
    /\ Good(w.sweep) /\ UnlistedZero(w.sweep)
    /\ \A s \in Stabilizers : Timed(w.stab[s], w.now)

\* What no call but a write-off or the removal of a minter changes: debt less minted.
Gap(w, s) == w.stab[s].sweepBorrowed - w.sweep.minters[s].mintedAmount

Auctioned(r) == r.config.callDelay = 0 /\ r.startingPrice > 0 => r.sweepBorrowed > 0

\* A call on s leaves a good world, every debt with what was minted for it, every
\* configuration, no auction that has lost its debt, and of an auction its price and its
\* clock, unless it ends.
Kept(w, x) ==
    /\ GoodWorld(x) /\ x.now = w.now
    /\ \A s \in Stabilizers :
          /\ Gap(x, s) = Gap(w, s)
          /\ x.stab[s].config = w.stab[s].config
          /\ Auctioned(w.stab[s]) => Auctioned(x.stab[s])
          /\ \/ x.stab[s].startingPrice = 0
             \/ /\ x.stab[s].startingPrice = w.stab[s].startingPrice
                /\ x.stab[s].startingTime = w.stab[s].startingTime

-------------------------------------------------------------------------------
(* Arithmetic *)

LEMMA DivNat ==
    ASSUME NEW a \in Nat, NEW b \in Nat \ {0}
    PROVE  a \div b \in Nat
  OBVIOUS

LEMMA MulNat ==
    ASSUME NEW a \in Nat, NEW b \in Nat
    PROVE  a * b \in Nat
  OBVIOUS

LEMMA MulPos ==
    ASSUME NEW a \in Nat \ {0}, NEW b \in Nat \ {0}
    PROVE  a * b \in Nat \ {0}
  OBVIOUS

LEMMA MulInt ==
    ASSUME NEW a \in Int, NEW b \in Int
    PROVE  a * b \in Int
  OBVIOUS

LEMMA Units ==
    /\ Unit \in Nat \ {0} /\ Scale \in Nat \ {0} /\ Precision \in Nat \ {0}
    /\ InterestPrecision \in Nat \ {0}
    /\ Day \in Nat \ {0} /\ DaysPerYear \in Nat \ {0} /\ AuctionStep \in Nat \ {0}
    /\ Bonus \in Nat /\ WriteOffLimit \in 0 .. Precision
  BY UnitAssumption

LEMMA Who ==
    /\ Treasury \in Accounts /\ Outside \in Accounts /\ Stabilizers \subseteq Accounts
    /\ Treasury \notin Stabilizers /\ Outside \notin Stabilizers /\ Treasury # Outside
  BY AccountAssumption

-------------------------------------------------------------------------------
(* The fields of a world *)

LEMMA WorldFields ==
    ASSUME NEW w \in Worlds
    PROVE  /\ w.sweep \in BaseSweepStorage
           /\ w.targetPrice \in Nat \ {0} /\ w.usdxPrice \in Nat \ {0}
           /\ w.tokenPrice \in Nat \ {0} /\ w.now \in Nat
           /\ w.usdx \in [Accounts -> Nat] /\ w.token \in [Accounts -> Nat]
           /\ w.stab \in [Stabilizers -> StabilizerStorage]
           /\ w.off \in [Stabilizers -> OffChainStorage]
           /\ w.claim \in [Stabilizers -> Claim]
           /\ w.sweep.balanceOf \in [Accounts -> Nat]
           /\ w.sweep.minters \in [Accounts -> Minter]
           /\ w.sweep.minterAddresses \in Seq(Accounts)
  BY DEF Worlds, BaseSweepStorage

LEMMA StabFields ==
    ASSUME NEW w \in Worlds, NEW s \in Stabilizers
    PROVE  /\ w.stab[s].sweepBorrowed \in Nat /\ w.stab[s].callTime \in Nat
           /\ w.stab[s].callAmount \in Nat /\ w.stab[s].spreadDate \in Nat
           /\ w.stab[s].startingTime \in Nat /\ w.stab[s].startingPrice \in Nat
           /\ w.stab[s].config \in Config
           /\ w.stab[s].config.protocolFee \in Nat /\ w.stab[s].config.callDelay \in Nat
           /\ w.stab[s].config.decreaseFactor \in Nat
           /\ w.stab[s].config.minLiquidationRatio \in Nat
           /\ w.stab[s].config.minEquityRatio \in Int
           /\ w.sweep.minters[s].mintedAmount \in Nat
           /\ w.sweep.balanceOf[s] \in Nat /\ w.usdx[s] \in Nat /\ w.token[s] \in Nat
           /\ w.off[s].actualValue \in Nat /\ w.off[s].redeemAmount \in Nat
           /\ w.claim[s].amount \in Nat /\ w.claim[s].end \in Nat
           /\ w.claim[s].duration \in Nat
<1>1. PICK r \in StabilizerStorage : r = w.stab[s]
  BY WorldFields
<1>2. /\ r.sweepBorrowed \in Nat /\ r.callTime \in Nat /\ r.callAmount \in Nat
      /\ r.spreadDate \in Nat /\ r.startingTime \in Nat /\ r.startingPrice \in Nat
      /\ r.config \in Config
  BY DEF StabilizerStorage
<1>3. \A c \in Config :
         /\ c.protocolFee \in Nat /\ c.callDelay \in Nat /\ c.decreaseFactor \in Nat
         /\ c.minLiquidationRatio \in Nat /\ c.minEquityRatio \in Int
  BY DEF Config
<1>4. /\ w.sweep.minters[s].mintedAmount \in Nat
      /\ w.sweep.balanceOf[s] \in Nat /\ w.usdx[s] \in Nat /\ w.token[s] \in Nat
  BY WorldFields, Who DEF Minter
<1>5. w.off[s].actualValue \in Nat /\ w.off[s].redeemAmount \in Nat
  BY WorldFields DEF OffChainStorage
<1>6. /\ w.claim[s].amount \in Nat /\ w.claim[s].end \in Nat
      /\ w.claim[s].duration \in Nat
  BY WorldFields DEF Claim
<1> QED
  BY <1>1, <1>2, <1>3, <1>4, <1>5, <1>6

\* Everything but the token, everything but the other ledgers, everything but the
\* stabilizers stays as it was.
SameBooks(w, x) ==
    /\ x.stab = w.stab /\ x.now = w.now
    /\ x.targetPrice = w.targetPrice /\ x.usdxPrice = w.usdxPrice
    /\ x.tokenPrice = w.tokenPrice

LEMMA SetSweep ==
    ASSUME NEW w, GoodWorld(w), NEW t, Good(t), UnlistedZero(t)
    PROVE  LET x == [w EXCEPT !.sweep = t]
           IN  /\ GoodWorld(x) /\ x.sweep = t /\ SameBooks(w, x) /\ x.off = w.off
               /\ x.usdx = w.usdx /\ x.token = w.token /\ x.claim = w.claim
<1> DEFINE x == [w EXCEPT !.sweep = t]
<1>1. w \in Worlds /\ t \in BaseSweepStorage
  BY DEF GoodWorld, Good
<1>2. /\ x \in Worlds /\ x.sweep = t /\ SameBooks(w, x)
      /\ x.off = w.off /\ x.usdx = w.usdx /\ x.token = w.token /\ x.claim = w.claim
  BY <1>1 DEF Worlds, SameBooks
<1> HIDE DEF x
<1>3. GoodWorld(x)
  BY <1>2 DEF GoodWorld, SameBooks
<1> QED
  BY <1>2, <1>3 DEF x

LEMMA SetUsdx ==
    ASSUME NEW w, GoodWorld(w), NEW f \in [Accounts -> Nat]
    PROVE  LET x == [w EXCEPT !.usdx = f]
           IN  /\ GoodWorld(x) /\ x.usdx = f /\ SameBooks(w, x) /\ x.off = w.off
               /\ x.sweep = w.sweep /\ x.token = w.token /\ x.claim = w.claim
<1> DEFINE x == [w EXCEPT !.usdx = f]
<1>1. w \in Worlds
  BY DEF GoodWorld
<1>2. /\ x \in Worlds /\ x.usdx = f /\ SameBooks(w, x)
      /\ x.off = w.off /\ x.sweep = w.sweep /\ x.token = w.token /\ x.claim = w.claim
  BY <1>1 DEF Worlds, SameBooks
<1> HIDE DEF x
<1>3. GoodWorld(x)
  BY <1>2 DEF GoodWorld, SameBooks
<1> QED
  BY <1>2, <1>3 DEF x

LEMMA SetToken ==
    ASSUME NEW w, GoodWorld(w), NEW f \in [Accounts -> Nat]
    PROVE  LET x == [w EXCEPT !.token = f]
           IN  /\ GoodWorld(x) /\ x.token = f /\ SameBooks(w, x) /\ x.off = w.off
               /\ x.sweep = w.sweep /\ x.usdx = w.usdx /\ x.claim = w.claim
<1> DEFINE x == [w EXCEPT !.token = f]
<1>1. w \in Worlds
  BY DEF GoodWorld
<1>2. /\ x \in Worlds /\ x.token = f /\ SameBooks(w, x)
      /\ x.off = w.off /\ x.sweep = w.sweep /\ x.usdx = w.usdx /\ x.claim = w.claim
  BY <1>1 DEF Worlds, SameBooks
<1> HIDE DEF x
<1>3. GoodWorld(x)
  BY <1>2 DEF GoodWorld, SameBooks
<1> QED
  BY <1>2, <1>3 DEF x

LEMMA SetOff ==
    ASSUME NEW w, GoodWorld(w), NEW s \in Stabilizers, NEW r \in OffChainStorage
    PROVE  LET x == [w EXCEPT !.off[s] = r]
           IN  /\ GoodWorld(x) /\ SameBooks(w, x) /\ x.off[s] = r
               /\ x.sweep = w.sweep /\ x.usdx = w.usdx /\ x.token = w.token
<1> DEFINE x == [w EXCEPT !.off[s] = r]
<1>1. w \in Worlds
  BY DEF GoodWorld
<1>2. /\ x \in Worlds /\ SameBooks(w, x) /\ x.off[s] = r
      /\ x.sweep = w.sweep /\ x.usdx = w.usdx /\ x.token = w.token
  BY <1>1 DEF Worlds, SameBooks
<1> HIDE DEF x
<1>3. GoodWorld(x)
  BY <1>2 DEF GoodWorld, SameBooks
<1> QED
  BY <1>2, <1>3 DEF x

\* Only the storage of s becomes r.
OnlyStab(w, x, s, r) ==
    /\ x.stab = [w.stab EXCEPT ![s] = r] /\ x.now = w.now
    /\ x.sweep = w.sweep /\ x.usdx = w.usdx /\ x.token = w.token /\ x.off = w.off
    /\ x.targetPrice = w.targetPrice /\ x.usdxPrice = w.usdxPrice
    /\ x.tokenPrice = w.tokenPrice

LEMMA SetStab ==
    ASSUME NEW w, GoodWorld(w), NEW s \in Stabilizers, NEW r \in StabilizerStorage,
           Timed(r, w.now)
    PROVE  LET x == [w EXCEPT !.stab[s] = r]
           IN  /\ GoodWorld(x) /\ OnlyStab(w, x, s, r)
               /\ \A q \in Stabilizers : x.stab[q] = IF q = s THEN r ELSE w.stab[q]
<1> DEFINE x == [w EXCEPT !.stab[s] = r]
<1>1. w \in Worlds
  BY DEF GoodWorld
<1>2. x \in Worlds /\ OnlyStab(w, x, s, r)
  BY <1>1 DEF Worlds, OnlyStab
<1> HIDE DEF x
<1>3. \A q \in Stabilizers : x.stab[q] = IF q = s THEN r ELSE w.stab[q]
  BY <1>1, <1>2 DEF Worlds, OnlyStab
<1>4. GoodWorld(x)
  BY <1>2, <1>3 DEF GoodWorld, OnlyStab
<1> QED
  BY <1>2, <1>3, <1>4 DEF x

-------------------------------------------------------------------------------
(* Views *)

LEMMA Conversions ==
    ASSUME NEW w \in Worlds, NEW a \in Nat
    PROVE  /\ convertToUSD(w, a) \in Nat /\ convertToSWEEP(w, a) \in Nat
           /\ oracleUsdxToUsd(w, a) \in Nat /\ oracleUsdToUsdx(w, a) \in Nat
           /\ oracleUsdxToToken(w, a) \in Nat /\ oracleTokenToUsdx(w, a) \in Nat
           /\ convertToAssets(w, a) \in Nat /\ convertToShares(w, a) \in Nat
<1>1. /\ w.targetPrice \in Nat \ {0} /\ w.usdxPrice \in Nat \ {0}
      /\ w.tokenPrice \in Nat \ {0}
  BY WorldFields
<1>2. Unit * Scale \in Nat \ {0}
  BY Units, MulPos
<1>3. a * w.targetPrice \in Nat /\ a * w.usdxPrice \in Nat /\ a * w.tokenPrice \in Nat
  BY <1>1, MulNat
<1>4. a * Unit \in Nat /\ a * Unit * Scale \in Nat
  BY Units, MulNat
<1>5. (a * w.targetPrice) \div (Unit * Scale) \in Nat
  BY <1>2, <1>3, DivNat
<1>6. (a * Unit * Scale) \div w.targetPrice \in Nat
  BY <1>1, <1>4, DivNat
<1>7. (a * w.usdxPrice) \div Unit \in Nat
  BY <1>3, Units, DivNat
<1>8. (a * Unit) \div w.usdxPrice \in Nat
  BY <1>1, <1>4, DivNat
<1>9. (a * w.usdxPrice) \div w.tokenPrice \in Nat /\ (a * w.tokenPrice) \div w.usdxPrice \in Nat
  BY <1>1, <1>3, DivNat
<1>10. (a * w.tokenPrice) \div Unit \in Nat /\ (a * Unit) \div w.tokenPrice \in Nat
  BY <1>1, <1>3, <1>4, Units, DivNat
<1> QED
  BY <1>5, <1>6, <1>7, <1>8, <1>9, <1>10 DEF convertToUSD, convertToSWEEP, oracleUsdxToUsd,
     oracleUsdToUsdx, oracleUsdxToToken, oracleTokenToUsdx, convertToAssets, convertToShares

\* What a swap pays at least is not below zero.
LEMMA SlippageNat ==
    ASSUME NEW a \in Nat, NEW slippage \in 0 .. Precision
    PROVE  (a * (Precision - slippage)) \div Precision \in Nat
<1>1. Precision - slippage \in Nat /\ Precision \in Nat \ {0}
  BY Units
<1>2. a * (Precision - slippage) \in Nat
  BY <1>1, MulNat
<1> QED
  BY <1>1, <1>2, DivNat

LEMMA FeeNat ==
    ASSUME NEW w, GoodWorld(w), NEW s \in Stabilizers
    PROVE  accruedFee(w, s) \in Nat /\ getDebt(w, s) \in Nat
<1>1. w \in Worlds /\ w.now \in Nat /\ w.stab[s].spreadDate <= w.now
  BY WorldFields DEF GoodWorld, Timed
<1> DEFINE borrowed == w.stab[s].sweepBorrowed
           fee == w.stab[s].config.protocolFee
           days == (w.now - w.stab[s].spreadDate) \div Day
<1>2. borrowed \in Nat /\ fee \in Nat /\ w.stab[s].spreadDate \in Nat
  BY <1>1, StabFields
<1>3. w.now - w.stab[s].spreadDate \in Nat
  BY <1>1, <1>2
<1>4. days \in Nat
  BY <1>3, Units, DivNat
<1>5. borrowed * fee \in Nat
  BY <1>2, MulNat
<1> HIDE DEF borrowed, fee, days
<1>6. borrowed * fee * days \in Nat
  BY <1>4, <1>5, MulNat
<1>7. DaysPerYear * Precision \in Nat \ {0}
  BY Units, MulPos
<1>8. (borrowed * fee * days) \div (DaysPerYear * Precision) \in Nat
  BY <1>6, <1>7, DivNat
<1> QED
  BY <1>2, <1>8 DEF accruedFee, getDebt, borrowed, fee, days

-------------------------------------------------------------------------------
(* Ledgers *)

\* Only balances of SWEEP change.
LEMMA SweepTransferGood ==
    ASSUME NEW w, GoodWorld(w), NEW from \in Accounts, NEW to \in Accounts,
           NEW amount \in Nat, NEW x \in SweepTransfer(w, from, to, amount)
    PROVE  /\ GoodWorld(x) /\ SameBooks(w, x) /\ x.off = w.off
           /\ x.usdx = w.usdx /\ x.token = w.token /\ x.claim = w.claim
           /\ x.sweep.minters = w.sweep.minters
           /\ x.sweep.balanceOf = Moved(w.sweep.balanceOf, from, to, amount)
<1>1. PICK t \in Transfer(w.sweep, from, to, amount, TRUE) : x = [w EXCEPT !.sweep = t]
  BY DEF SweepTransfer, SweepCall
<1>2. Good(w.sweep) /\ UnlistedZero(w.sweep)
  BY DEF GoodWorld
<1>a. PICK approves : approves = TRUE
  OBVIOUS
<1>b. t \in Transfer(w.sweep, from, to, amount, approves)
  BY <1>a DEF Transfer, BeforeTokenTransfer
<1>3. /\ Good(t) /\ t.minters = w.sweep.minters
      /\ t.balanceOf = Moved(w.sweep.balanceOf, from, to, amount)
  BY <1>b, <1>2, TransferGood, TransferMoves DEF KeepsMinters
<1>4. UnlistedZero(t)
  BY <1>2, <1>3 DEF UnlistedZero
<1> QED
  BY <1>1, <1>3, <1>4, SetSweep

LEMMA UsdxTransferGood ==
    ASSUME NEW w, GoodWorld(w), NEW from \in Accounts, NEW to \in Accounts,
           NEW amount \in Nat, NEW x \in UsdxTransfer(w, from, to, amount)
    PROVE  /\ GoodWorld(x) /\ SameBooks(w, x) /\ x.off = w.off
           /\ x.sweep = w.sweep /\ x.token = w.token /\ x.claim = w.claim
           /\ x.usdx = Moved(w.usdx, from, to, amount)
<1>1. w.usdx[from] >= amount /\ x = [w EXCEPT !.usdx = Moved(w.usdx, from, to, amount)]
  BY DEF UsdxTransfer, Call
<1>2. w.usdx \in [Accounts -> Nat]
  BY WorldFields DEF GoodWorld
<1>3. Moved(w.usdx, from, to, amount) \in [Accounts -> Nat]
  BY <1>1, <1>2, MovedType
<1> QED
  BY <1>1, <1>3, SetUsdx

LEMMA TokenTransferGood ==
    ASSUME NEW w, GoodWorld(w), NEW from \in Accounts, NEW to \in Accounts,
           NEW amount \in Nat, NEW x \in TokenTransfer(w, from, to, amount)
    PROVE  /\ GoodWorld(x) /\ SameBooks(w, x) /\ x.off = w.off
           /\ x.sweep = w.sweep /\ x.usdx = w.usdx /\ x.claim = w.claim
           /\ x.token = Moved(w.token, from, to, amount)
<1>1. w.token[from] >= amount /\ x = [w EXCEPT !.token = Moved(w.token, from, to, amount)]
  BY DEF TokenTransfer, Call
<1>2. w.token \in [Accounts -> Nat]
  BY WorldFields DEF GoodWorld
<1>3. Moved(w.token, from, to, amount) \in [Accounts -> Nat]
  BY <1>1, <1>2, MovedType
<1> QED
  BY <1>1, <1>3, SetToken

\* What leaves the books of the loans alone.
LEMMA BooksKept ==
    ASSUME NEW w, NEW x, GoodWorld(x), SameBooks(w, x), x.sweep.minters = w.sweep.minters
    PROVE  Kept(w, x)
  BY DEF Kept, SameBooks, Gap

LEMMA KeptTwice ==
    ASSUME NEW w, NEW x, NEW y, Kept(w, x), Kept(x, y)
    PROVE  Kept(w, y)
  BY DEF Kept

LEMMA SweepTransferKept ==
    ASSUME NEW w, GoodWorld(w), NEW from \in Accounts, NEW to \in Accounts,
           NEW amount \in Nat, NEW x \in SweepTransfer(w, from, to, amount)
    PROVE  Kept(w, x)
  BY SweepTransferGood, BooksKept

LEMMA UsdxTransferKept ==
    ASSUME NEW w, GoodWorld(w), NEW from \in Accounts, NEW to \in Accounts,
           NEW amount \in Nat, NEW x \in UsdxTransfer(w, from, to, amount)
    PROVE  Kept(w, x)
  BY UsdxTransferGood, BooksKept

LEMMA TokenTransferKept ==
    ASSUME NEW w, GoodWorld(w), NEW from \in Accounts, NEW to \in Accounts,
           NEW amount \in Nat, NEW x \in TokenTransfer(w, from, to, amount)
    PROVE  Kept(w, x)
  BY TokenTransferGood, BooksKept

LEMMA LeastNat ==
    ASSUME NEW a \in Nat, NEW b \in Nat
    PROVE  Least(a, b) \in Nat /\ Least(a, b) <= a /\ Least(a, b) <= b
  BY DEF Least

-------------------------------------------------------------------------------
(* Assets *)

\* Pools that pay no more than the price of the oracle, and a usdx that is worth a dollar.
Fair(w) == Bonus = 0 /\ w.usdxPrice = Unit

\* s buys shares, of which scale parts cost a part of usdx, or sells them, for no more than
\* they are worth.
Buys(w, x, s, scale) ==
    /\ SameBooks(w, x) /\ x.sweep = w.sweep /\ x.claim = w.claim
    /\ \E paid, got \in Nat :
          /\ x.usdx[s] = w.usdx[s] - paid /\ x.token[s] = w.token[s] + got
          /\ Fair(w) => got * w.tokenPrice =< paid * scale * Unit

Sells(w, x, s) ==
    /\ SameBooks(w, x) /\ x.sweep = w.sweep /\ x.claim = w.claim
    /\ \E sold, got \in Nat :
          /\ x.token[s] = w.token[s] - sold /\ x.usdx[s] = w.usdx[s] + got
          /\ Fair(w) => got * Unit =< sold * w.tokenPrice

\* Only what the stabilizers hold and claim changes.
LEMMA HoldingsKept ==
    ASSUME NEW w, GoodWorld(w), NEW f \in [Accounts -> Nat], NEW g \in [Accounts -> Nat],
           NEW c \in [Stabilizers -> Claim]
    PROVE  LET x == [w EXCEPT !.usdx = f, !.token = g, !.claim = c]
           IN  Kept(w, x) /\ SameBooks(w, x)
<1> DEFINE x == [w EXCEPT !.usdx = f, !.token = g, !.claim = c]
<1>1. x \in Worlds /\ SameBooks(w, x) /\ x.sweep = w.sweep
  BY DEF GoodWorld, Worlds, SameBooks
<1> HIDE DEF x
<1>2. GoodWorld(x)
  BY <1>1 DEF GoodWorld, SameBooks
<1>3. Kept(w, x)
  BY <1>1, <1>2, BooksKept
<1> QED
  BY <1>1, <1>3 DEF x

\* What s pays and gets, in usdx and in tokens, and what it claims: nothing below zero.
LEMMA TradeKept ==
    ASSUME NEW w, GoodWorld(w), NEW f \in [Accounts -> Nat], NEW g \in [Accounts -> Nat],
           NEW s \in Stabilizers, NEW r \in Claim, NEW x,
           x = [w EXCEPT !.usdx = f, !.token = g, !.claim = [w.claim EXCEPT ![s] = r]]
    PROVE  Kept(w, x) /\ SameBooks(w, x)
<1>1. w.claim \in [Stabilizers -> Claim]
  BY WorldFields DEF GoodWorld
<1>2. PICK c \in [Stabilizers -> Claim] : c = [w.claim EXCEPT ![s] = r]
  BY <1>1
<1>3. x = [w EXCEPT !.usdx = f, !.token = g, !.claim = c]
  BY <1>2
<1>4. /\ Kept(w, [w EXCEPT !.usdx = f, !.token = g, !.claim = c])
      /\ SameBooks(w, [w EXCEPT !.usdx = f, !.token = g, !.claim = c])
  BY HoldingsKept, Zenon
<1> QED
  BY <1>3, <1>4, Zenon

LEMMA SwapKept ==
    ASSUME NEW w, GoodWorld(w), NEW f \in [Accounts -> Nat], NEW g \in [Accounts -> Nat],
           NEW x, x = [w EXCEPT !.usdx = f, !.token = g]
    PROVE  Kept(w, x) /\ SameBooks(w, x)
<1>1. w \in Worlds /\ w.claim \in [Stabilizers -> Claim]
  BY WorldFields DEF GoodWorld
<1>2. x = [w EXCEPT !.usdx = f, !.token = g, !.claim = w.claim]
  BY <1>1 DEF Worlds
<1>3. /\ Kept(w, [w EXCEPT !.usdx = f, !.token = g, !.claim = w.claim])
      /\ SameBooks(w, [w EXCEPT !.usdx = f, !.token = g, !.claim = w.claim])
  BY <1>1, HoldingsKept, Zenon
<1> QED
  BY <1>2, <1>3, Zenon

\* What leaves and what arrives.
LEMMA MovedFrom ==
    ASSUME NEW f \in [Accounts -> Nat], NEW s \in Stabilizers, NEW amount \in Nat
    PROVE  /\ Moved(f, s, Outside, amount)[s] = f[s] - amount
           /\ Moved(f, Outside, s, amount)[s] = f[s] + amount
  BY Who DEF Moved

\* s sends usdx and SWEEP off chain, and books what they are worth.
Sends(w, x, s) ==
    /\ SameBooks(w, x)
    /\ \E usdxPaid, sweepPaid \in Nat :
          /\ sweepPaid =< w.sweep.balanceOf[s]
          /\ x.usdx[s] = w.usdx[s] - usdxPaid
          /\ x.sweep.balanceOf[s] = w.sweep.balanceOf[s] - sweepPaid
          /\ x.off[s].actualValue = w.off[s].actualValue + usdxPaid + convertToUSD(w, sweepPaid)

LEMMA BuysIs ==
    ASSUME NEW w, GoodWorld(w), NEW s \in Stabilizers, NEW paid \in Nat, NEW got \in Nat,
           paid =< w.usdx[s], got =< w.token[Outside], NEW scale,
           Fair(w) => got * w.tokenPrice =< paid * scale * Unit,
           NEW x, x = [w EXCEPT !.usdx = Moved(w.usdx, s, Outside, paid),
                                !.token = Moved(w.token, Outside, s, got)]
    PROVE  Kept(w, x) /\ SameBooks(w, x) /\ Buys(w, x, s, scale)
<1>1. w \in Worlds /\ w.usdx \in [Accounts -> Nat] /\ w.token \in [Accounts -> Nat]
  BY WorldFields DEF GoodWorld
<1>2. PICK f \in [Accounts -> Nat], g \in [Accounts -> Nat] :
         f = Moved(w.usdx, s, Outside, paid) /\ g = Moved(w.token, Outside, s, got)
  BY <1>1, Who, MovedType
<1>3. x = [w EXCEPT !.usdx = f, !.token = g]
  BY <1>2
<1>4. Kept(w, x) /\ SameBooks(w, x)
  BY <1>3, SwapKept
<1>5. x.usdx = f /\ x.token = g /\ x.sweep = w.sweep /\ x.claim = w.claim
  BY <1>1, <1>3 DEF Worlds
<1>6. f[s] = w.usdx[s] - paid /\ g[s] = w.token[s] + got
  BY <1>1, <1>2, MovedFrom
<1> QED
  BY <1>4, <1>5, <1>6 DEF Buys

LEMMA SellsIs ==
    ASSUME NEW w, GoodWorld(w), NEW s \in Stabilizers, NEW sold \in Nat, NEW got \in Nat,
           sold =< w.token[s], got =< w.usdx[Outside],
           Fair(w) => got * Unit =< sold * w.tokenPrice,
           NEW x, x = [w EXCEPT !.usdx = Moved(w.usdx, Outside, s, got),
                                !.token = Moved(w.token, s, Outside, sold)]
    PROVE  Kept(w, x) /\ SameBooks(w, x) /\ Sells(w, x, s)
<1>1. w \in Worlds /\ w.usdx \in [Accounts -> Nat] /\ w.token \in [Accounts -> Nat]
  BY WorldFields DEF GoodWorld
<1>2. PICK f \in [Accounts -> Nat], g \in [Accounts -> Nat] :
         f = Moved(w.usdx, Outside, s, got) /\ g = Moved(w.token, s, Outside, sold)
  BY <1>1, Who, MovedType
<1>3. x = [w EXCEPT !.usdx = f, !.token = g]
  BY <1>2
<1>4. Kept(w, x) /\ SameBooks(w, x)
  BY <1>3, SwapKept
<1>5. x.usdx = f /\ x.token = g /\ x.sweep = w.sweep /\ x.claim = w.claim
  BY <1>1, <1>3 DEF Worlds
<1>6. f[s] = w.usdx[s] + got /\ g[s] = w.token[s] - sold
  BY <1>1, <1>2, MovedFrom
<1> QED
  BY <1>4, <1>5, <1>6 DEF Sells

\* What is converted, rounded down and at most that, is worth no more than before.
LEMMA Worth ==
    ASSUME NEW n \in Nat, NEW a \in Nat, NEW d \in Nat \ {0}, n =< a \div d
    PROVE  n * d =< a
<1>1. PICK q \in Int : q = a \div d /\ d * q =< a
  BY Rounded
<1>2. d * n \in Int /\ d * q \in Int /\ d * n =< d * q
  BY <1>1, Product
<1>3. n * d = d * n
  OBVIOUS
<1> QED
  BY <1>1, <1>2, <1>3

\* What a pool pays is there, and no more than what it may add to the price.
LEMMA OutcomesNat ==
    ASSUME NEW fair \in Nat, NEW slippage \in 0 .. Precision, NEW reserve \in Nat,
           NEW out \in Outcomes(fair, slippage, reserve)
    PROVE  out \in Nat /\ out =< reserve /\ out =< fair + Bonus
<1>1. (fair * (Precision - slippage)) \div Precision \in Nat
  BY SlippageNat
<1>2. PICK most \in Nat : most = Least(fair + Bonus, reserve)
                          /\ most =< fair + Bonus /\ most =< reserve
  <2>1. PICK best \in Nat : best = fair + Bonus
    BY Units
  <2> QED
    BY <2>1, LeastNat
<1> QED
  BY <1>1, <1>2, Units DEF Outcomes

LEMMA TokenInvestKept ==
    ASSUME NEW w, GoodWorld(w), NEW s \in Stabilizers, NEW a \in Nat,
           NEW slippage \in 0 .. Precision, NEW x \in TokenInvest(w, s, a, slippage)
    PROVE  Kept(w, x) /\ Buys(w, x, s, 1)
<1>1. w \in Worlds /\ w.usdx[s] \in Nat /\ w.token[Outside] \in Nat
      /\ w.tokenPrice \in Nat \ {0}
  BY WorldFields, StabFields, Who DEF GoodWorld
<1>2. PICK paid \in Nat : paid = Least(a, w.usdx[s]) /\ paid =< w.usdx[s]
  BY <1>1, LeastNat
<1>3. PICK fair \in Nat : fair = oracleUsdxToToken(w, paid)
  BY <1>1, Conversions
<1>4. PICK out \in Outcomes(fair, slippage, w.token[Outside]) :
         x = [w EXCEPT !.usdx = Moved(w.usdx, s, Outside, paid),
                       !.token = Moved(w.token, Outside, s, out)]
  BY <1>2, <1>3 DEF TokenInvest
<1>5. out \in Nat /\ out =< w.token[Outside] /\ out =< fair + Bonus
  BY <1>1, OutcomesNat
<1>6. Fair(w) => out * w.tokenPrice =< paid * 1 * Unit
  <2>1. PICK worth \in Nat : worth = paid * Unit
    BY Units, MulNat
  <2>2. ASSUME Fair(w)
        PROVE  out * w.tokenPrice =< worth
    <3>1. out =< worth \div w.tokenPrice
      BY <1>3, <1>5, <2>1, <2>2 DEF Fair, oracleUsdxToToken
    <3> QED
      BY <1>1, <1>5, <3>1, Worth
  <2> QED
    BY <2>1, <2>2
<1> QED
  BY <1>2, <1>4, <1>5, <1>6, BuysIs

LEMMA TokenDivestKept ==
    ASSUME NEW w, GoodWorld(w), NEW s \in Stabilizers, NEW a \in Nat,
           NEW slippage \in 0 .. Precision, NEW x \in TokenDivest(w, s, a, slippage)
    PROVE  Kept(w, x) /\ SameBooks(w, x) /\ Sells(w, x, s)
<1>1. w \in Worlds /\ w.token[s] \in Nat /\ w.usdx[Outside] \in Nat
      /\ w.tokenPrice \in Nat \ {0}
  BY WorldFields, StabFields, Who DEF GoodWorld
<1>2. PICK sold \in Nat : sold = Least(oracleUsdxToToken(w, a), w.token[s]) /\ sold =< w.token[s]
  BY <1>1, Conversions, LeastNat
<1>3. PICK fair \in Nat : fair = oracleTokenToUsdx(w, sold)
  BY <1>1, Conversions
<1>4. PICK out \in Outcomes(fair, slippage, w.usdx[Outside]) :
         x = [w EXCEPT !.token = Moved(w.token, s, Outside, sold),
                       !.usdx = Moved(w.usdx, Outside, s, out)]
  BY <1>2, <1>3 DEF TokenDivest
<1>5. out \in Nat /\ out =< w.usdx[Outside] /\ out =< fair + Bonus
  BY <1>1, OutcomesNat
<1>6. Fair(w) => out * Unit =< sold * w.tokenPrice
  <2>1. PICK worth \in Nat : worth = sold * w.tokenPrice
    BY <1>1, MulNat
  <2>2. ASSUME Fair(w)
        PROVE  out * Unit =< worth
    <3>1. out =< worth \div Unit
      BY <1>3, <1>5, <2>1, <2>2 DEF Fair, oracleTokenToUsdx
    <3> QED
      BY <1>5, <3>1, Units, Worth
  <2> QED
    BY <2>1, <2>2
<1>7. x = [w EXCEPT !.usdx = Moved(w.usdx, Outside, s, out),
                    !.token = Moved(w.token, s, Outside, sold)]
  BY <1>4
<1> QED
  BY <1>2, <1>5, <1>6, <1>7, SellsIs

LEMMA OffChainInvestKept ==
    ASSUME NEW w, GoodWorld(w), NEW s \in Stabilizers, NEW a \in Nat, NEW b \in Nat,
           NEW x \in OffChainInvest(w, s, a, b)
    PROVE  Kept(w, x) /\ Sends(w, x, s)
<1> DEFINE usdxPaid == Least(a, w.usdx[s])
           sweepPaid == Least(b, w.sweep.balanceOf[s])
           value == w.off[s].actualValue + usdxPaid + convertToUSD(w, sweepPaid)
<1>1. w \in Worlds /\ w.usdx[s] \in Nat /\ w.sweep.balanceOf[s] \in Nat
      /\ w.off[s].actualValue \in Nat
  BY StabFields DEF GoodWorld
<1>2. usdxPaid \in Nat /\ sweepPaid \in Nat /\ sweepPaid =< w.sweep.balanceOf[s]
  BY <1>1, LeastNat
<1>3. value \in Nat
  <2>1. convertToUSD(w, sweepPaid) \in Nat
    BY <1>1, <1>2, Conversions
  <2> QED
    BY <1>1, <1>2, <2>1
<1>4. PICK w1 \in UsdxTransfer(w, s, Outside, usdxPaid) :
        x \in UNION {Call(value <= MaxValue, [w2 EXCEPT !.off[s].actualValue = value]) :
                        w2 \in SweepTransfer(w1, s, Outside, sweepPaid)}
  BY Zenon DEF OffChainInvest, Then
<1>5. PICK w2 \in SweepTransfer(w1, s, Outside, sweepPaid) :
           x = [w2 EXCEPT !.off[s].actualValue = value]
  BY <1>4 DEF Call
<1>c. value = w.off[s].actualValue + usdxPaid + convertToUSD(w, sweepPaid)
  OBVIOUS
<1> HIDE DEF usdxPaid, sweepPaid, value
<1>6. GoodWorld(w1) /\ Kept(w, w1)
  BY <1>2, <1>4, Who, UsdxTransferGood, UsdxTransferKept
<1>7. GoodWorld(w2) /\ Kept(w1, w2)
  BY <1>2, <1>5, <1>6, Who, SweepTransferGood, SweepTransferKept
<1> DEFINE r == [w2.off[s] EXCEPT !.actualValue = value]
<1>8. x = [w2 EXCEPT !.off[s] = r]
  BY <1>5, Zenon
<1>a. w2.off[s] \in OffChainStorage
  BY <1>7, WorldFields DEF GoodWorld
<1>b. r \in OffChainStorage
  BY <1>3, <1>a DEF OffChainStorage
<1> HIDE DEF r
<1>9. /\ Kept(w2, x) /\ SameBooks(w2, x) /\ x.off[s] = r
      /\ x.usdx = w2.usdx /\ x.sweep = w2.sweep
  <2>1. /\ GoodWorld(x) /\ SameBooks(w2, x) /\ x.off[s] = r
        /\ x.usdx = w2.usdx /\ x.sweep = w2.sweep
    BY <1>7, <1>8, <1>b, SetOff
  <2> QED
    BY <2>1, BooksKept
<1>10. /\ SameBooks(w, w1) /\ w1.sweep = w.sweep
       /\ w1.usdx = Moved(w.usdx, s, Outside, usdxPaid)
  BY <1>2, <1>4, Who, UsdxTransferGood
<1>11. /\ SameBooks(w1, w2) /\ w2.usdx = w1.usdx
       /\ w2.sweep.balanceOf = Moved(w1.sweep.balanceOf, s, Outside, sweepPaid)
  BY <1>2, <1>5, <1>6, Who, SweepTransferGood
<1>12. /\ x.usdx[s] = w.usdx[s] - usdxPaid
       /\ x.sweep.balanceOf[s] = w.sweep.balanceOf[s] - sweepPaid
  <2>1. PICK f \in [Accounts -> Nat], g \in [Accounts -> Nat] :
           f = w.usdx /\ g = w.sweep.balanceOf
    BY <1>1, WorldFields
  <2>2. /\ Moved(f, s, Outside, usdxPaid)[s] = f[s] - usdxPaid
        /\ Moved(g, s, Outside, sweepPaid)[s] = g[s] - sweepPaid
    BY <1>2, MovedFrom
  <2> QED
    BY <1>9, <1>10, <1>11, <2>1, <2>2
<1>13. r.actualValue = value
  BY <1>a DEF r, OffChainStorage
<1>14. Sends(w, x, s)
  BY <1>2, <1>c, <1>9, <1>10, <1>11, <1>12, <1>13 DEF Sends, SameBooks
<1> QED
  BY <1>6, <1>7, <1>9, <1>14, KeptTwice

LEMMA OffChainDivestKept ==
    ASSUME NEW w, GoodWorld(w), NEW s \in Stabilizers, NEW a \in Nat,
           NEW x \in OffChainDivest(w, s, a)
    PROVE  Kept(w, x) /\ SameBooks(w, x) /\ Sends(w, x, s)
<1> DEFINE r == [w.off[s] EXCEPT !.redeemMode = TRUE, !.redeemAmount = a]
<1>a. w \in Worlds /\ w.off[s] \in OffChainStorage
  BY WorldFields DEF GoodWorld
<1>b. r \in OffChainStorage
  BY <1>a DEF OffChainStorage
<1>c. x = [w EXCEPT !.off[s].redeemMode = TRUE, !.off[s].redeemAmount = a]
  BY DEF OffChainDivest
<1>1. r \in OffChainStorage /\ x = [w EXCEPT !.off[s] = r]
  BY <1>a, <1>b, <1>c DEF Worlds
<1>2. r.actualValue = w.off[s].actualValue
  BY <1>a DEF OffChainStorage
<1> HIDE DEF r
<1>3. /\ Kept(w, x) /\ SameBooks(w, x) /\ x.off[s] = r
      /\ x.usdx = w.usdx /\ x.sweep = w.sweep
  <2>1. /\ GoodWorld(x) /\ SameBooks(w, x) /\ x.off[s] = r
        /\ x.usdx = w.usdx /\ x.sweep = w.sweep
    BY <1>1, SetOff
  <2> QED
    BY <2>1, BooksKept
<1>4. convertToUSD(w, 0) = 0
  <2>1. PICK unit \in Nat \ {0}, price \in Nat : unit = Unit * Scale /\ price = w.targetPrice
    BY <1>a, WorldFields, Units, MulPos
  <2>2. (0 * price) \div unit = 0
    OBVIOUS
  <2> QED
    BY <2>1, <2>2 DEF convertToUSD
<1>5. /\ w.usdx[s] = w.usdx[s] - 0 /\ w.sweep.balanceOf[s] = w.sweep.balanceOf[s] - 0
      /\ 0 =< w.sweep.balanceOf[s]
      /\ w.off[s].actualValue = w.off[s].actualValue + 0 + 0
  BY <1>a, StabFields
<1>6. Sends(w, x, s)
  BY <1>2, <1>3, <1>4, <1>5, 0 \in Nat DEF Sends
<1> QED
  BY <1>3, <1>6

LEMMA PaybackKept ==
    ASSUME NEW w, GoodWorld(w), NEW s \in Stabilizers, NEW currency, NEW a \in Nat,
           NEW x \in Payback(w, s, currency, a)
    PROVE  Kept(w, x)
<1> DEFINE due == IF currency = "sweep" THEN convertToUSD(w, a) ELSE a
           r == [actualValue |-> w.off[s].actualValue - due,
                 redeemMode |-> FALSE, redeemAmount |-> 0]
           paid == [w EXCEPT !.off[s] = r]
<1>1. w \in Worlds /\ w.off[s].actualValue \in Nat
  BY StabFields DEF GoodWorld
<1>2. due \in Nat
  BY <1>1, Conversions
<1>a. x \in IF w.off[s].redeemAmount > due \/ due > w.off[s].actualValue THEN {}
            ELSE IF currency = "sweep" THEN SweepTransfer(paid, Outside, s, due)
                 ELSE UsdxTransfer(paid, Outside, s, due)
  BY Zenon DEF Payback
<1>3. /\ due <= w.off[s].actualValue
      /\ x \in SweepTransfer(paid, Outside, s, due) \cup UsdxTransfer(paid, Outside, s, due)
  <2> HIDE DEF due, paid
  <2> QED
    BY <1>1, <1>2, <1>a
<1>4. r \in OffChainStorage
  BY <1>1, <1>2, <1>3 DEF OffChainStorage
<1> HIDE DEF due, r
<1>5. GoodWorld(paid) /\ Kept(w, paid)
  BY <1>4, SetOff, BooksKept
<1> HIDE DEF paid
<1>6. Kept(paid, x)
  BY <1>2, <1>3, <1>5, Who, SweepTransferKept, UsdxTransferKept
<1> QED
  BY <1>5, <1>6, KeptTwice

LEMMA InvestDepositKept ==
    ASSUME NEW w, GoodWorld(w), NEW s \in Stabilizers, NEW a \in Nat,
           NEW x \in InvestDeposit(w, s, a)
    PROVE  Kept(w, x) /\ Buys(w, x, s, 1)
<1>1. w \in Worlds /\ w.usdx[s] \in Nat /\ w.tokenPrice \in Nat \ {0}
  BY WorldFields, StabFields DEF GoodWorld
<1>2. PICK paid \in Nat : paid = Least(a, w.usdx[s]) /\ paid =< w.usdx[s]
  BY <1>1, LeastNat
<1>3. PICK shares \in Nat : shares = convertToShares(w, paid)
  BY <1>1, Conversions
<1>4. /\ shares =< w.token[Outside]
      /\ x = [w EXCEPT !.usdx = Moved(w.usdx, s, Outside, paid),
                       !.token = Moved(w.token, Outside, s, shares)]
  BY <1>2, <1>3 DEF InvestDeposit, Call
<1>5. shares * w.tokenPrice =< paid * 1 * Unit
  <2>1. PICK worth \in Nat : worth = paid * Unit
    BY Units, MulNat
  <2>2. shares * w.tokenPrice =< worth
    <3>1. shares =< worth \div w.tokenPrice
      BY <1>3, <2>1 DEF convertToShares
    <3> QED
      BY <1>1, <3>1, Worth
  <2> QED
    BY <2>1, <2>2
<1> QED
  BY <1>2, <1>4, <1>5, BuysIs

LEMMA InvestMintKept ==
    ASSUME NEW w, GoodWorld(w), NEW s \in Stabilizers, NEW shares \in Nat,
           NEW x \in InvestMint(w, s, shares)
    PROVE  Kept(w, x) /\ Buys(w, x, s, 1)
<1>1. w \in Worlds /\ w.usdx[s] \in Nat
  BY StabFields DEF GoodWorld
<1>2. PICK approved \in Nat : approved = Least(convertToAssets(w, shares), w.usdx[s])
                              /\ approved =< w.usdx[s]
  BY <1>1, Conversions, LeastNat
<1>3. /\ shares =< w.token[Outside] /\ shares * w.tokenPrice =< approved * Unit
      /\ x = [w EXCEPT !.usdx = Moved(w.usdx, s, Outside, approved),
                       !.token = Moved(w.token, Outside, s, shares)]
  BY <1>2 DEF InvestMint, Call
<1>4. approved * 1 = approved
  OBVIOUS
<1> QED
  BY <1>2, <1>3, <1>4, BuysIs

LEMMA LeaveKept ==
    ASSUME NEW w, GoodWorld(w), NEW s \in Stabilizers, NEW out \in Nat, NEW shares \in Nat,
           out * Unit =< shares * w.tokenPrice, NEW x \in Leave(w, s, out, shares)
    PROVE  Kept(w, x) /\ SameBooks(w, x) /\ Sells(w, x, s)
<1>1. /\ shares =< w.token[s] /\ out =< w.usdx[Outside]
      /\ x = [w EXCEPT !.usdx = Moved(w.usdx, Outside, s, out),
                       !.token = Moved(w.token, s, Outside, shares)]
  BY DEF Leave, Call
<1> QED
  BY <1>1, SellsIs

LEMMA DivestWithdrawKept ==
    ASSUME NEW w, GoodWorld(w), NEW s \in Stabilizers, NEW a \in Nat,
           NEW x \in DivestWithdraw(w, s, a)
    PROVE  Kept(w, x) /\ SameBooks(w, x) /\ Sells(w, x, s)
<1>1. w \in Worlds /\ w.token[s] \in Nat /\ w.tokenPrice \in Nat \ {0}
  BY WorldFields, StabFields DEF GoodWorld
<1>2. PICK asked \in Nat : asked = convertToShares(w, a)
  BY <1>1, Conversions
<1>3. PICK shares \in Nat : shares = Least(asked, w.token[s])
  BY <1>1, LeastNat
<1>4. PICK out \in Nat : out = convertToAssets(w, shares)
  BY <1>1, Conversions
<1>5. x \in vaultWithdraw(w, s, out)
  BY <1>2, <1>3, <1>4 DEF DivestWithdraw
<1>6. out * Unit \in Nat
  BY Units, MulNat
<1>7. out * Unit + w.tokenPrice - 1 \in Nat
  BY <1>1, <1>6
<1>8. PICK burnt \in Nat : burnt = (out * Unit + w.tokenPrice - 1) \div w.tokenPrice
  BY <1>1, <1>7, DivNat
<1>9. x \in Leave(w, s, out, burnt)
  BY <1>5, <1>8 DEF vaultWithdraw
<1>10. out * Unit =< burnt * w.tokenPrice
  <2>1. PICK worth \in Nat, price \in Nat \ {0} : worth = out * Unit /\ price = w.tokenPrice
    BY <1>1, <1>6
  <2>2. burnt = (worth + price - 1) \div price
    BY <1>8, <2>1
  <2>3. worth + price - 1 < price * burnt + price /\ price * burnt \in Int
    BY <2>2, Rounded
  <2>4. burnt * price = price * burnt
    OBVIOUS
  <2> QED
    BY <2>1, <2>3, <2>4
<1> QED
  BY <1>9, <1>10, LeaveKept

\* What is raised when a is asked of a vault where total is left, and a share is worth
\* worth.
Raises(out, a, total, worth) == out =< a /\ out + worth + 1 >= Least(a, total)

\* Buying the shares that a buys, of those there are, and selling them again.
LEMMA RoundTrip ==
    ASSUME NEW a \in Nat, NEW held \in Nat, NEW price \in Nat \ {0}, NEW unit \in Nat \ {0}
    PROVE  Raises((Least((a * unit) \div price, held) * price) \div unit, a,
                  (held * price) \div unit, (1 * price) \div unit)
<1>1. PICK asked \in Int : /\ asked = (a * unit) \div price
                          /\ price * asked =< a * unit /\ a * unit < price * asked + price
  <2>1. a * unit \in Int
    OBVIOUS
  <2> QED
    BY <2>1, Rounded
<1>2. PICK k \in Int : k = Least(asked, held) /\ k =< asked /\ k =< held
  BY DEF Least
<1>3. /\ k * price \in Int /\ held * price \in Int /\ 1 * price = price
      /\ price * asked \in Int /\ price * k \in Int /\ price * k = k * price
      /\ a * unit \in Int /\ a * unit = unit * a
  OBVIOUS
<1>4. PICK out \in Int, total \in Int, worth \in Int :
         /\ out = (k * price) \div unit /\ total = (held * price) \div unit
         /\ worth = price \div unit
  BY <1>3, Rounded
<1>5. out =< a
  <2>1. price * k =< price * asked
    BY <1>2, Product
  <2>2. k * price =< unit * a
    BY <1>1, <1>3, <2>1
  <2> QED
    BY <1>3, <1>4, <2>2, QuotientAtMost
<1>6. CASE k = held
  <2>1. out = total /\ worth >= 0
    BY <1>4, <1>6, DivNat
  <2> QED
    BY <1>3, <1>4, <1>5, <2>1 DEF Raises, Least
<1>7. CASE k = asked
  <2>1. unit * a =< k * price + price
    BY <1>1, <1>3, <1>7
  <2>2. PICK both \in Int : both = (k * price + price) \div unit
    BY <1>3, Rounded
  <2>3. a =< both
    BY <1>3, <2>1, <2>2, QuotientAtLeast
  <2>4. both =< out + worth + 1
    BY <1>3, <1>4, <2>2, QuotientOfSum
  <2> QED
    BY <1>2, <1>3, <1>4, <1>5, <2>3, <2>4 DEF Raises, Least
<1>8. k = held \/ k = asked
  BY <1>2 DEF Least
<1> QED
  BY <1>1, <1>2, <1>3, <1>4, <1>6, <1>7, <1>8

\* What a stabilizer raises of its vault.
LEMMA WithdrawRaises ==
    ASSUME NEW w, GoodWorld(w), NEW s \in Stabilizers, NEW a \in Nat,
           NEW x \in DivestWithdraw(w, s, a)
    PROVE  Raises(x.usdx[s] - w.usdx[s], a, convertToAssets(w, w.token[s]),
                  convertToAssets(w, 1))
<1>1. /\ w \in Worlds /\ w.token[s] \in Nat /\ w.usdx[s] \in Nat
      /\ w.tokenPrice \in Nat \ {0} /\ w.usdx \in [Accounts -> Nat]
  BY WorldFields, StabFields DEF GoodWorld
<1>2. PICK price \in Nat \ {0}, held \in Nat : price = w.tokenPrice /\ held = w.token[s]
  BY <1>1
<1>3. PICK asked \in Nat : asked = convertToShares(w, a)
  BY <1>1, Conversions
<1>4. PICK shares \in Nat : shares = Least(asked, held)
  BY LeastNat
<1>5. PICK out \in Nat : out = convertToAssets(w, shares)
  BY <1>1, Conversions
<1>6. PICK burnt : x \in Leave(w, s, out, burnt)
  BY <1>2, <1>3, <1>4, <1>5 DEF DivestWithdraw, vaultWithdraw
<1>7. x = [w EXCEPT !.usdx = Moved(w.usdx, Outside, s, out),
                    !.token = Moved(w.token, s, Outside, burnt)]
  BY <1>6 DEF Leave, Call
<1>8. x.usdx = Moved(w.usdx, Outside, s, out)
  BY <1>1, <1>7 DEF Worlds
<1>9. Moved(w.usdx, Outside, s, out)[s] = w.usdx[s] + out
  BY <1>1, Who DEF Moved
<1>10. x.usdx[s] - w.usdx[s] = out
  BY <1>1, <1>8, <1>9
<1>11. Raises((Least((a * Unit) \div price, held) * price) \div Unit, a,
              (held * price) \div Unit, (1 * price) \div Unit)
  BY Units, RoundTrip
<1>12. /\ out = (Least((a * Unit) \div price, held) * price) \div Unit
       /\ convertToAssets(w, w.token[s]) = (held * price) \div Unit
       /\ convertToAssets(w, 1) = (1 * price) \div Unit
  BY <1>2, <1>3, <1>4, <1>5 DEF convertToAssets, convertToShares
<1> QED
  BY <1>10, <1>11, <1>12

LEMMA DivestRedeemKept ==
    ASSUME NEW w, GoodWorld(w), NEW s \in Stabilizers, NEW a \in Nat,
           NEW x \in DivestRedeem(w, s, a)
    PROVE  Kept(w, x) /\ Sells(w, x, s)
<1>1. w \in Worlds /\ w.token[s] \in Nat
  BY StabFields DEF GoodWorld
<1>2. PICK asked \in Nat : asked = Least(a, w.token[s])
  BY <1>1, LeastNat
<1>3. PICK shares \in Nat : shares = convertToAssets(w, asked)
  BY <1>1, Conversions
<1>4. PICK out \in Nat : out = convertToAssets(w, shares)
  BY <1>1, Conversions
<1>5. x \in Leave(w, s, out, shares)
  BY <1>2, <1>3, <1>4 DEF DivestRedeem, vaultRedeem
<1>6. out * Unit =< shares * w.tokenPrice
  <2>1. PICK worth \in Nat : worth = shares * w.tokenPrice
    BY <1>1, WorldFields, MulNat
  <2> QED
    BY <1>4, <2>1, Units, Worth DEF convertToAssets
<1> QED
  BY <1>5, <1>6, LeaveKept

LEMMA EthenaInvestKept ==
    ASSUME NEW w, GoodWorld(w), NEW s \in Stabilizers, NEW a \in Nat,
           NEW slippage \in 0 .. Precision, NEW x \in EthenaInvest(w, s, a, slippage)
    PROVE  Kept(w, x) /\ Buys(w, x, s, Scale)
<1>1. w \in Worlds /\ w.usdx[s] \in Nat /\ w.tokenPrice \in Nat \ {0}
  BY WorldFields, StabFields DEF GoodWorld
<1>2. PICK paid \in Nat : paid = Least(a, w.usdx[s]) /\ paid =< w.usdx[s]
  BY <1>1, LeastNat
<1>3. PICK least \in Nat, cost \in Nat :
         least = subBasisPoints(paid, slippage) /\ cost = paid * Scale
  BY Units, MulNat, SlippageNat DEF subBasisPoints
<1>4. PICK usde \in least .. cost + Bonus :
        /\ convertToShares(w, usde) =< w.token[Outside]
        /\ x = [w EXCEPT !.usdx = Moved(w.usdx, s, Outside, paid),
                         !.token = Moved(w.token, Outside, s, convertToShares(w, usde))]
  BY <1>2, <1>3 DEF EthenaInvest
<1>5. usde \in Nat /\ usde =< cost + Bonus
  BY Units
<1>6. PICK shares \in Nat : shares = convertToShares(w, usde)
  BY <1>1, <1>5, Conversions
<1>7. Fair(w) => shares * w.tokenPrice =< paid * Scale * Unit
  <2>1. PICK worth \in Nat, most \in Nat : worth = usde * Unit /\ most = cost * Unit
    BY <1>5, Units, MulNat
  <2>2. shares * w.tokenPrice =< worth /\ shares * w.tokenPrice \in Int
    <3>1. shares =< worth \div w.tokenPrice
      BY <1>6, <2>1, Rounded, <1>1 DEF convertToShares
    <3> QED
      BY <1>1, <3>1, Worth
  <2>3. ASSUME Fair(w)
        PROVE  worth =< most
    <3>1. usde =< cost
      BY <1>5, <2>3 DEF Fair
    <3>2. Unit * usde =< Unit * cost
      BY <1>5, <3>1, Units, Product
    <3> QED
      BY <1>5, <2>1, <3>2, Units
  <2> QED
    BY <1>3, <2>1, <2>2, <2>3
<1> QED
  BY <1>2, <1>4, <1>6, <1>7, BuysIs

LEMMA getSharesNat ==
    ASSUME NEW w, GoodWorld(w), NEW s \in Stabilizers, NEW a \in Nat
    PROVE  getShares(w, s, a) \in Nat /\ getShares(w, s, a) <= w.token[s]
<1>1. w \in Worlds /\ w.token[s] \in Nat
  BY StabFields DEF GoodWorld
<1>2. PICK usde \in Nat : usde = a * Scale
  BY Units, MulNat
<1>3. PICK asked \in Nat : asked = convertToShares(w, usde)
  BY <1>1, Conversions
<1> QED
  BY <1>1, <1>2, <1>3, LeastNat DEF getShares

LEMMA ClaimFields ==
    ASSUME NEW w, GoodWorld(w), NEW s \in Stabilizers, NEW amount \in Nat, NEW end \in Nat
    PROVE  [w.claim[s] EXCEPT !.amount = amount, !.end = end] \in Claim
<1>1. PICK z \in Claim : z = w.claim[s]
  BY WorldFields DEF GoodWorld
<1>2. [z EXCEPT !.amount = amount, !.end = end] \in Claim
  BY DEF Claim
<1> QED
  BY <1>1, <1>2

\* s gives up shares, gets usdx and has amount of a claim.
Redeems(w, x, s, shares, got, amount) ==
    /\ SameBooks(w, x) /\ x.sweep = w.sweep
    /\ x.token[s] = w.token[s] - shares /\ x.usdx[s] = w.usdx[s] + got
    /\ x.claim[s].amount = amount

\* The four ways to redeem: shares become a claim of what they are worth, claim and
\* shares are paid out, shares become a claim of themselves, a part of them is paid out.
Cools(w, x, s) ==
    \E k \in 0 .. w.token[s] :
        Redeems(w, x, s, k, 0, w.claim[s].amount + convertToAssets(w, k))
Collects(w, x, s, slippage) ==
    \E k \in 0 .. w.token[s], got \in Nat :
        /\ got >= subBasisPoints(w.claim[s].amount + convertToAssets(w, k), slippage) \div Scale
        /\ got =< (w.claim[s].amount + convertToAssets(w, k)) \div Scale + Bonus
        /\ Redeems(w, x, s, k, got, 0)
Locks(w, x, s) ==
    \E k \in 0 .. w.token[s] : Redeems(w, x, s, k, 0, w.claim[s].amount + k)
PaysOut(w, x, s) ==
    \E k \in 0 .. w.claim[s].amount :
        Redeems(w, x, s, 0, convertToAssets(w, k), w.claim[s].amount - k)

LEMMA RedeemsIs ==
    ASSUME NEW w, GoodWorld(w), NEW s \in Stabilizers, NEW f, NEW g, NEW r \in Claim,
           NEW shares \in Nat, NEW got \in Nat,
           f[s] = w.usdx[s] + got, g[s] = w.token[s] - shares,
           NEW x, x = [w EXCEPT !.usdx = f, !.token = g, !.claim = [w.claim EXCEPT ![s] = r]]
    PROVE  Redeems(w, x, s, shares, got, r.amount)
<1>1. w \in Worlds /\ w.claim \in [Stabilizers -> Claim]
  BY WorldFields DEF GoodWorld
<1>2. /\ SameBooks(w, x) /\ x.sweep = w.sweep /\ x.usdx = f /\ x.token = g
      /\ x.claim = [w.claim EXCEPT ![s] = r]
  BY <1>1 DEF Worlds, SameBooks
<1>3. x.claim[s] = r
  BY <1>1, <1>2
<1> QED
  BY <1>2, <1>3 DEF Redeems

LEMMA EthenaRequestKept ==
    ASSUME NEW w, GoodWorld(w), NEW s \in Stabilizers, NEW a \in Nat,
           NEW x \in EthenaRequest(w, s, a)
    PROVE  Kept(w, x) /\ Cools(w, x, s)
<1>1. w \in Worlds /\ w.usdx \in [Accounts -> Nat] /\ w.token \in [Accounts -> Nat]
  BY WorldFields DEF GoodWorld
<1>2. s \in Accounts /\ Outside \in Accounts
  BY Who
<1>3. PICK shares \in Nat : shares = getShares(w, s, a) /\ shares <= w.token[s]
  BY getSharesNat
<1>4. convertToAssets(w, shares) \in Nat /\ w.claim[s].amount \in Nat
      /\ w.claim[s].duration \in Nat /\ w.now \in Nat
  BY <1>1, Conversions, StabFields, WorldFields
<1>5. PICK claimed \in Nat : claimed = w.claim[s].amount + convertToAssets(w, shares)
  BY <1>4
<1>6. PICK end \in Nat : end = w.now + w.claim[s].duration
  BY <1>4
<1>7. x = [w EXCEPT !.token = Moved(w.token, s, Outside, shares),
                    !.claim[s].amount = claimed, !.claim[s].end = end]
  BY <1>3, <1>5, <1>6 DEF EthenaRequest, Call
<1>8. Moved(w.token, s, Outside, shares) \in [Accounts -> Nat]
  BY <1>1, <1>2, <1>3, MovedType
<1>9. PICK r \in Claim : r = [w.claim[s] EXCEPT !.amount = claimed, !.end = end]
  BY ClaimFields
<1>10. x = [w EXCEPT !.usdx = w.usdx, !.token = Moved(w.token, s, Outside, shares),
                     !.claim = [w.claim EXCEPT ![s] = r]]
  BY <1>1, <1>7, <1>9 DEF Worlds
<1>11. Cools(w, x, s)
  <2>1. Moved(w.token, s, Outside, shares)[s] = w.token[s] - shares
    BY <1>1, MovedFrom
  <2>2. w.usdx[s] = w.usdx[s] + 0 /\ shares \in 0 .. w.token[s]
    BY <1>1, <1>2, <1>3
  <2>3. Redeems(w, x, s, shares, 0, r.amount)
    BY <1>9, <1>10, <2>1, <2>2, RedeemsIs
  <2>4. r.amount = claimed
    BY <1>1, <1>9, WorldFields DEF Claim
  <2> QED
    BY <1>5, <2>2, <2>3, <2>4 DEF Cools
<1> QED
  BY <1>1, <1>8, <1>10, <1>11, TradeKept

LEMMA EthenaDivestKept ==
    ASSUME NEW w, GoodWorld(w), NEW s \in Stabilizers, NEW a \in Nat,
           NEW slippage \in 0 .. Precision, NEW x \in EthenaDivest(w, s, a, slippage)
    PROVE  Kept(w, x) /\ SameBooks(w, x) /\ Collects(w, x, s, slippage)
<1>1. w \in Worlds /\ w.usdx \in [Accounts -> Nat] /\ w.token \in [Accounts -> Nat]
  BY WorldFields DEF GoodWorld
<1>2. s \in Accounts /\ Outside \in Accounts
  BY Who
<1>3. w.token[s] \in Nat /\ w.usdx[Outside] \in Nat /\ w.claim[s].amount \in Nat
  BY <1>1, <1>2, StabFields
<1>4. PICK shares \in Nat :
        /\ shares = IF w.claim[s].duration > 0 THEN 0 ELSE getShares(w, s, a)
        /\ shares <= w.token[s]
  BY <1>3, getSharesNat
<1>a. convertToAssets(w, shares) \in Nat
  BY <1>1, Conversions
<1>5. PICK usde \in Nat : usde = w.claim[s].amount + convertToAssets(w, shares)
  BY <1>3, <1>a
<1>6. PICK least \in Nat : least = subBasisPoints(usde, slippage) \div Scale
  <2>1. subBasisPoints(usde, slippage) \in Nat
    BY SlippageNat DEF subBasisPoints
  <2> QED
    BY <2>1, Units, DivNat
<1>7. PICK most \in Nat :
         /\ most = Least((usde \div Scale) + Bonus, w.usdx[Outside])
         /\ most <= w.usdx[Outside] /\ most <= usde \div Scale + Bonus
  <2>1. usde \div Scale \in Nat
    BY Units, DivNat
  <2>2. (usde \div Scale) + Bonus \in Nat
    BY <2>1, Units
  <2> QED
    BY <1>3, <2>2, LeastNat
<1>8. PICK out \in least .. most :
         x = [w EXCEPT !.token = Moved(w.token, s, Outside, shares),
                       !.usdx = Moved(w.usdx, Outside, s, out),
                       !.claim[s].amount = 0, !.claim[s].end = 0]
  BY <1>4, <1>5, <1>6, <1>7, Zenon DEF EthenaDivest
<1>9. out \in Nat /\ out <= w.usdx[Outside] /\ out <= usde \div Scale + Bonus
  <2>1. usde \div Scale \in Nat
    BY Units, DivNat
  <2> QED
    BY <1>3, <1>7, <2>1, Units
<1>10. /\ Moved(w.usdx, Outside, s, out) \in [Accounts -> Nat]
       /\ Moved(w.token, s, Outside, shares) \in [Accounts -> Nat]
  BY <1>1, <1>2, <1>4, <1>9, MovedType
<1>11. PICK r \in Claim : r = [w.claim[s] EXCEPT !.amount = 0, !.end = 0]
  BY ClaimFields
<1>12. x = [w EXCEPT !.usdx = Moved(w.usdx, Outside, s, out),
                     !.token = Moved(w.token, s, Outside, shares),
                     !.claim = [w.claim EXCEPT ![s] = r]]
  BY <1>1, <1>8, <1>11 DEF Worlds
<1>13. Collects(w, x, s, slippage)
  <2>1. /\ Moved(w.usdx, Outside, s, out)[s] = w.usdx[s] + out
        /\ Moved(w.token, s, Outside, shares)[s] = w.token[s] - shares
    BY <1>1, <1>9, MovedFrom
  <2>2. Redeems(w, x, s, shares, out, r.amount)
    BY <1>9, <1>11, <1>12, <2>1, RedeemsIs
  <2>3. out >= subBasisPoints(w.claim[s].amount + convertToAssets(w, shares), slippage) \div Scale
    BY <1>5, <1>6, <1>7, <1>8
  <2>6. out =< (w.claim[s].amount + convertToAssets(w, shares)) \div Scale + Bonus
    BY <1>5, <1>9
  <2>4. shares \in 0 .. w.token[s]
    BY <1>3, <1>4
  <2>5. r.amount = 0
    BY <1>1, <1>11, WorldFields DEF Claim
  <2> QED
    BY <1>9, <2>2, <2>3, <2>4, <2>5, <2>6 DEF Collects
<1> QED
  BY <1>10, <1>12, <1>13, TradeKept

LEMMA PoolRequestKept ==
    ASSUME NEW w, GoodWorld(w), NEW s \in Stabilizers, NEW shares \in Nat,
           NEW x \in PoolRequest(w, s, shares)
    PROVE  Kept(w, x) /\ Locks(w, x, s)
<1>1. w \in Worlds /\ w.usdx \in [Accounts -> Nat] /\ w.token \in [Accounts -> Nat]
  BY WorldFields DEF GoodWorld
<1>2. s \in Accounts /\ Outside \in Accounts
  BY Who
<1>3. w.claim[s].amount \in Nat /\ w.claim[s].duration \in Nat /\ w.now \in Nat
  BY <1>1, StabFields, WorldFields
<1>4. PICK claimed \in Nat : claimed = w.claim[s].amount + shares
  BY <1>3
<1>5. PICK end \in Nat : end = w.now + w.claim[s].duration
  BY <1>3
<1>6. /\ shares <= w.token[s]
      /\ x = [w EXCEPT !.token = Moved(w.token, s, Outside, shares),
                       !.claim[s].amount = claimed, !.claim[s].end = end]
  BY <1>4, <1>5 DEF PoolRequest, Call
<1>7. Moved(w.token, s, Outside, shares) \in [Accounts -> Nat]
  BY <1>1, <1>2, <1>6, MovedType
<1>8. PICK r \in Claim : r = [w.claim[s] EXCEPT !.amount = claimed, !.end = end]
  BY ClaimFields
<1>9. x = [w EXCEPT !.usdx = w.usdx, !.token = Moved(w.token, s, Outside, shares),
                    !.claim = [w.claim EXCEPT ![s] = r]]
  BY <1>1, <1>6, <1>8 DEF Worlds
<1>10. Locks(w, x, s)
  <2>1. Moved(w.token, s, Outside, shares)[s] = w.token[s] - shares
    BY <1>1, MovedFrom
  <2>2. w.usdx[s] = w.usdx[s] + 0 /\ shares \in 0 .. w.token[s]
    BY <1>1, <1>2, <1>6
  <2>3. Redeems(w, x, s, shares, 0, r.amount)
    BY <1>8, <1>9, <2>1, <2>2, RedeemsIs
  <2>4. r.amount = claimed
    BY <1>1, <1>8, WorldFields DEF Claim
  <2> QED
    BY <1>4, <2>2, <2>3, <2>4 DEF Locks
<1> QED
  BY <1>1, <1>7, <1>9, <1>10, TradeKept

LEMMA MapleRequestKept ==
    ASSUME NEW w, GoodWorld(w), NEW s \in Stabilizers, NEW a \in Nat,
           NEW x \in MapleRequest(w, s, a)
    PROVE  Kept(w, x) /\ Locks(w, x, s)
<1>1. w \in Worlds /\ w.token[s] \in Nat
  BY StabFields DEF GoodWorld
<1>2. PICK asked \in Nat : asked = convertToShares(w, a)
  BY <1>1, Conversions
<1>3. PICK shares \in Nat : shares = getSharesAmount(w, s, a)
  BY <1>1, <1>2 DEF getSharesAmount
<1> QED
  BY <1>3, PoolRequestKept DEF MapleRequest

LEMMA MapleDivestKept ==
    ASSUME NEW w, GoodWorld(w), NEW s \in Stabilizers, NEW x \in MapleDivest(w, s)
    PROVE  Kept(w, x) /\ SameBooks(w, x) /\ PaysOut(w, x, s)
<1>1. w \in Worlds /\ w.usdx \in [Accounts -> Nat] /\ w.token \in [Accounts -> Nat]
  BY WorldFields DEF GoodWorld
<1>2. s \in Accounts /\ Outside \in Accounts
  BY Who
<1>3. w.claim[s].amount \in Nat /\ w.claim[s].duration \in Nat /\ w.now \in Nat
  BY <1>1, StabFields, WorldFields
<1>4. PICK paid \in 1 .. w.claim[s].amount :
        /\ convertToAssets(w, paid) <= w.usdx[Outside]
        /\ x = [w EXCEPT !.usdx = Moved(w.usdx, Outside, s, convertToAssets(w, paid)),
                         !.claim[s].amount = w.claim[s].amount - paid,
                         !.claim[s].end = w.now + w.claim[s].duration]
  BY Zenon DEF MapleDivest
<1>5. paid \in Nat
  OBVIOUS
<1>6. PICK out \in Nat : out = convertToAssets(w, paid)
  BY <1>1, <1>5, Conversions
<1>7. PICK left \in Nat : left = w.claim[s].amount - paid
  BY <1>3
<1>8. PICK end \in Nat : end = w.now + w.claim[s].duration
  BY <1>3
<1>9. Moved(w.usdx, Outside, s, out) \in [Accounts -> Nat]
  BY <1>1, <1>2, <1>4, <1>6, MovedType
<1>10. PICK r \in Claim : r = [w.claim[s] EXCEPT !.amount = left, !.end = end]
  BY ClaimFields
<1>11. x = [w EXCEPT !.usdx = Moved(w.usdx, Outside, s, out), !.token = w.token,
                     !.claim = [w.claim EXCEPT ![s] = r]]
  BY <1>1, <1>4, <1>6, <1>7, <1>8, <1>10 DEF Worlds
<1>12. PaysOut(w, x, s)
  <2>1. Moved(w.usdx, Outside, s, out)[s] = w.usdx[s] + out
    BY <1>1, MovedFrom
  <2>2. w.token[s] = w.token[s] - 0 /\ paid \in 0 .. w.claim[s].amount
    BY <1>1, <1>2, <1>3, <1>5
  <2>3. Redeems(w, x, s, 0, out, r.amount)
    BY <1>10, <1>11, <2>1, <2>2, RedeemsIs
  <2>4. r.amount = left
    BY <1>1, <1>10, WorldFields DEF Claim
  <2> QED
    BY <1>6, <1>7, <2>2, <2>3, <2>4 DEF PaysOut
<1> QED
  BY <1>1, <1>9, <1>11, <1>12, TradeKept

LEMMA InvestKept ==
    ASSUME NEW w, GoodWorld(w), NEW s \in Stabilizers, NEW a \in Nat,
           NEW slippage \in 0 .. Precision, NEW x \in Invest(w, s, a, slippage)
    PROVE  Kept(w, x)
<1>1. x \in TokenInvest(w, s, a, slippage) \cup EthenaInvest(w, s, a, slippage)
              \cup InvestDeposit(w, s, a) \cup OffChainInvest(w, s, a, 0)
  BY Zenon DEF Invest
<1> QED
  BY <1>1, TokenInvestKept, EthenaInvestKept, InvestDepositKept, OffChainInvestKept, 0 \in Nat

LEMMA DivestKept ==
    ASSUME NEW w, GoodWorld(w), NEW s \in Stabilizers, NEW a \in Nat,
           NEW slippage \in 0 .. Precision, NEW x \in Divest(w, s, a, slippage)
    PROVE  Kept(w, x) /\ SameBooks(w, x)
<1>1. x \in TokenDivest(w, s, a, slippage) \cup DivestWithdraw(w, s, a)
              \cup EthenaDivest(w, s, a, slippage) \cup MapleDivest(w, s)
              \cup OffChainDivest(w, s, a)
  BY Zenon DEF Divest
<1> QED
  BY <1>1, TokenDivestKept, DivestWithdrawKept, EthenaDivestKept, MapleDivestKept,
     OffChainDivestKept

-------------------------------------------------------------------------------
(* Loans *)

\* What a stabilizer holds but its SWEEP, and what it is worth, stays as it was.
SameHoldings(w, x) ==
    /\ x.usdx = w.usdx /\ x.token = w.token /\ x.off = w.off /\ x.claim = w.claim
    /\ x.targetPrice = w.targetPrice /\ x.usdxPrice = w.usdxPrice
    /\ x.tokenPrice = w.tokenPrice

LEMMA SweepCallHoldings ==
    ASSUME NEW w \in Worlds, NEW results, NEW x \in SweepCall(w, results)
    PROVE  SameHoldings(w, x)
  BY DEF SweepCall, SameHoldings, Worlds

LEMMA StabHoldings ==
    ASSUME NEW w \in Worlds, NEW s, NEW r
    PROVE  SameHoldings(w, [w EXCEPT !.stab[s] = r])
  BY DEF SameHoldings, Worlds

\* The SWEEP of s and what it owes grow by d, or shrink when d is negative.
Lends(w, x, s, d) ==
    /\ SameHoldings(w, x)
    /\ x.sweep.balanceOf[s] = w.sweep.balanceOf[s] + d
    /\ getDebt(x, s) = getDebt(w, s) + d

\* The fee's clock starts again with a payment.
LEMMA FeePaid ==
    ASSUME NEW x, GoodWorld(x), NEW s \in Stabilizers, x.stab[s].spreadDate = x.now
    PROVE  getDebt(x, s) = x.stab[s].sweepBorrowed
<1>1. /\ x.stab[s].sweepBorrowed \in Nat /\ x.stab[s].config.protocolFee \in Nat
      /\ x.now \in Nat
  BY WorldFields, StabFields DEF GoodWorld
<1>2. (x.now - x.stab[s].spreadDate) \div Day = 0
  BY <1>1, Units
<1>3. PICK owed \in Nat : owed = x.stab[s].sweepBorrowed * x.stab[s].config.protocolFee
  BY <1>1, MulNat
<1>4. PICK year \in Nat \ {0} : year = DaysPerYear * Precision
  BY Units, MulPos
<1>5. (owed * 0) \div year = 0
  BY <1>3, <1>4
<1> QED
  BY <1>1, <1>2, <1>3, <1>4, <1>5 DEF getDebt, accruedFee

\* What mint and burn of s make of the world.
MintedBy(w, s, amount) == SweepCall(w, Mint(w.sweep, s, amount, TRUE))

BurnedBy(w, s, amount) == SweepCall(w, Burn(w.sweep, s, amount, TRUE))

\* Minting for s changes what s has minted, and its balance.
LEMMA MintWorld ==
    ASSUME NEW w, GoodWorld(w), NEW s \in Stabilizers, NEW amount \in Nat,
           NEW x \in MintedBy(w, s, amount)
    PROVE  /\ GoodWorld(x) /\ SameBooks(w, x)
           /\ \A q \in Stabilizers : x.sweep.minters[q].mintedAmount =
                 w.sweep.minters[q].mintedAmount + IF q = s THEN amount ELSE 0
           /\ x.sweep.balanceOf[s] = w.sweep.balanceOf[s] + amount
           /\ SameHoldings(w, x)
<1>1. PICK t \in Mint(w.sweep, s, amount, TRUE) : x = [w EXCEPT !.sweep = t]
  BY DEF MintedBy, SweepCall
<1>2. PICK approves : approves = TRUE
  OBVIOUS
<1>3. t \in Mint(w.sweep, s, amount, approves) /\ w.sweep.minters[s].isListed
  BY <1>1, <1>2 DEF Mint, BeforeTokenTransfer, Call
<1>4. Good(w.sweep) /\ UnlistedZero(w.sweep) /\ s \in Accounts
  BY Who DEF GoodWorld
<1>5. /\ Good(t)
      /\ \A a \in Accounts :
            /\ t.minters[a].isListed = w.sweep.minters[a].isListed
            /\ t.minters[a].mintedAmount =
                  IF a = s THEN w.sweep.minters[a].mintedAmount + amount
                           ELSE w.sweep.minters[a].mintedAmount
      /\ t.balanceOf[s] = w.sweep.balanceOf[s] + amount
  <2>1. PICK t0 : t0 = w.sweep
    OBVIOUS
  <2>2. Good(t0) /\ t \in Mint(t0, s, amount, approves)
    BY <1>3, <1>4, <2>1
  <2>3. /\ Good(t)
        /\ \A a \in Accounts :
              /\ t.minters[a].isListed = t0.minters[a].isListed
              /\ t.minters[a].mintedAmount =
                    IF a = s THEN t0.minters[a].mintedAmount + amount
                             ELSE t0.minters[a].mintedAmount
        /\ t.balanceOf[s] = t0.balanceOf[s] + amount
    BY <1>4, <2>2, MintGood
  <2> QED
    BY <2>1, <2>3
<1>8. UnlistedZero(t)
  BY <1>3, <1>4, <1>5 DEF UnlistedZero
<1>9. GoodWorld(x) /\ SameBooks(w, x) /\ x.sweep = t
  BY <1>1, <1>5, <1>8, SetSweep
<1>10. \A q \in Stabilizers : w.sweep.minters[q].mintedAmount \in Nat
  BY StabFields DEF GoodWorld
<1>11. SameHoldings(w, x)
  BY SweepCallHoldings DEF MintedBy, GoodWorld
<1> QED
  BY <1>5, <1>9, <1>10, <1>11, Who

LEMMA BurnWorld ==
    ASSUME NEW w, GoodWorld(w), NEW s \in Stabilizers, NEW amount \in Nat,
           NEW x \in BurnedBy(w, s, amount)
    PROVE  /\ GoodWorld(x) /\ SameBooks(w, x)
           /\ \A q \in Stabilizers : x.sweep.minters[q].mintedAmount =
                 w.sweep.minters[q].mintedAmount - IF q = s THEN amount ELSE 0
<1>1. PICK t \in Burn(w.sweep, s, amount, TRUE) : x = [w EXCEPT !.sweep = t]
  BY DEF BurnedBy, SweepCall
<1>2. PICK approves : approves = TRUE
  OBVIOUS
<1>3. t \in Burn(w.sweep, s, amount, approves) /\ w.sweep.minters[s].isListed
  BY <1>1, <1>2 DEF Burn, BeforeTokenTransfer, Call
<1>4. Good(w.sweep) /\ UnlistedZero(w.sweep) /\ s \in Accounts
  BY Who DEF GoodWorld
<1>5. /\ Good(t)
      /\ \A a \in Accounts :
            /\ t.minters[a].isListed = w.sweep.minters[a].isListed
            /\ t.minters[a].mintedAmount =
                  IF a = s THEN w.sweep.minters[a].mintedAmount - amount
                           ELSE w.sweep.minters[a].mintedAmount
  <2>1. PICK t0 : t0 = w.sweep
    OBVIOUS
  <2>2. Good(t0) /\ t \in Burn(t0, s, amount, approves)
    BY <1>3, <1>4, <2>1
  <2>3. /\ Good(t)
        /\ \A a \in Accounts :
              /\ t.minters[a].isListed = t0.minters[a].isListed
              /\ t.minters[a].mintedAmount =
                    IF a = s THEN t0.minters[a].mintedAmount - amount
                             ELSE t0.minters[a].mintedAmount
    BY <1>4, <2>2, BurnGood
  <2> QED
    BY <2>1, <2>3
<1>8. UnlistedZero(t)
  BY <1>3, <1>4, <1>5 DEF UnlistedZero
<1>9. GoodWorld(x) /\ SameBooks(w, x) /\ x.sweep = t
  BY <1>1, <1>5, <1>8, SetSweep
<1>10. \A q \in Stabilizers : w.sweep.minters[q].mintedAmount \in Nat
  BY StabFields DEF GoodWorld
<1> QED
  BY <1>5, <1>9, <1>10, Who

\* The storage of the other stabilizers.
LEMMA OtherStabs ==
    ASSUME NEW w \in Worlds, NEW x, NEW s \in Stabilizers, NEW r,
           x.stab = [w.stab EXCEPT ![s] = r]
    PROVE  \A q \in Stabilizers : x.stab[q] = IF q = s THEN r ELSE w.stab[q]
  BY WorldFields

\* A change of the storage of s that keeps its debt and its configuration.
LEMMA StabKept ==
    ASSUME NEW w, GoodWorld(w), NEW s \in Stabilizers, NEW r \in StabilizerStorage,
           Timed(r, w.now), r.sweepBorrowed = w.stab[s].sweepBorrowed,
           r.config = w.stab[s].config, Auctioned(w.stab[s]) => Auctioned(r),
           r.startingPrice = w.stab[s].startingPrice, r.startingTime = w.stab[s].startingTime
    PROVE  Kept(w, [w EXCEPT !.stab[s] = r])
<1> DEFINE x == [w EXCEPT !.stab[s] = r]
<1>1. GoodWorld(x) /\ OnlyStab(w, x, s, r)
  BY SetStab
<1>2. \A q \in Stabilizers : x.stab[q] = IF q = s THEN r ELSE w.stab[q]
  BY SetStab
<1> HIDE DEF x
<1>3. ASSUME NEW q \in Stabilizers
      PROVE  /\ Gap(x, q) = Gap(w, q) /\ x.stab[q].config = w.stab[q].config
             /\ Auctioned(w.stab[q]) => Auctioned(x.stab[q])
             /\ x.stab[q].startingPrice = w.stab[q].startingPrice
             /\ x.stab[q].startingTime = w.stab[q].startingTime
  <2>1. CASE q = s
    BY <1>1, <1>2, <2>1 DEF Gap, OnlyStab
  <2>2. CASE q # s
    BY <1>1, <1>2, <2>2 DEF Gap, OnlyStab
  <2> QED
    BY <2>1, <2>2
<1>4. Kept(w, x)
  BY <1>1, <1>3 DEF Kept, OnlyStab
<1> QED
  BY <1>4 DEF x

Lent(w, s, amount) ==
    [w.stab[s] EXCEPT !.sweepBorrowed = @ + amount, !.spreadDate = w.now]

LEMMA BorrowKept ==
    ASSUME NEW w, GoodWorld(w), NEW s \in Stabilizers, NEW amount \in Nat,
           NEW x \in Borrow(w, s, amount)
    PROVE  Kept(w, x) /\ Lends(w, x, s, amount - accruedFee(w, s))
<1> DEFINE fee == accruedFee(w, s)
           Booked(w1) == [w1 EXCEPT !.stab[s].sweepBorrowed = @ + amount,
                                    !.stab[s].spreadDate = w.now]
<1>1. x \in UNION {SweepTransfer(Booked(w1), s, Treasury, fee) :
                      w1 \in SweepCall(w, Mint(w.sweep, s, amount, TRUE))}
  BY Zenon DEF Borrow, Then
<1>2. PICK w1 \in SweepCall(w, Mint(w.sweep, s, amount, TRUE)) :
         x \in SweepTransfer(Booked(w1), s, Treasury, fee)
  BY <1>1, Zenon
<1>3. fee \in Nat /\ s \in Accounts /\ Treasury \in Accounts
  BY FeeNat, Who
<1> HIDE DEF fee
<1>a. w1 \in MintedBy(w, s, amount)
  BY <1>2 DEF MintedBy
<1>4. /\ GoodWorld(w1) /\ SameBooks(w, w1)
      /\ \A q \in Stabilizers : w1.sweep.minters[q].mintedAmount =
            w.sweep.minters[q].mintedAmount + IF q = s THEN amount ELSE 0
      /\ w1.sweep.balanceOf[s] = w.sweep.balanceOf[s] + amount
      /\ SameHoldings(w, w1)
  BY <1>a, MintWorld
<1> DEFINE r == Lent(w, s, amount)
           y == Booked(w1)
<1>5. w1 \in Worlds /\ w1.stab = w.stab /\ w1.now = w.now
      /\ w.stab[s] \in StabilizerStorage /\ w.now \in Nat
  BY <1>4, WorldFields DEF GoodWorld, SameBooks
<1>6. y = [w1 EXCEPT !.stab[s] = r]
  BY <1>5 DEF Lent, Worlds, StabilizerStorage
<1>7. /\ r \in StabilizerStorage
      /\ r.sweepBorrowed = w.stab[s].sweepBorrowed + amount
      /\ r.spreadDate = w.now /\ r.config = w.stab[s].config
      /\ r.callAmount = w.stab[s].callAmount /\ r.callTime = w.stab[s].callTime
      /\ r.startingPrice = w.stab[s].startingPrice
      /\ r.startingTime = w.stab[s].startingTime
  <2>1. PICK z \in StabilizerStorage : z = w.stab[s]
    BY <1>5
  <2>2. z.sweepBorrowed + amount \in Nat
    BY <2>1 DEF StabilizerStorage
  <2>3. PICK debt \in Nat : debt = z.sweepBorrowed + amount
    BY <2>2
  <2>4. PICK time \in Nat : time = w.now
    BY <1>5
  <2>5. r = [z EXCEPT !.sweepBorrowed = debt, !.spreadDate = time]
    BY <2>1, <2>3, <2>4 DEF Lent
  <2> HIDE DEF r
  <2>6. /\ r \in StabilizerStorage
        /\ r.sweepBorrowed = debt /\ r.spreadDate = time /\ r.config = z.config
        /\ r.callAmount = z.callAmount /\ r.callTime = z.callTime
        /\ r.startingPrice = z.startingPrice /\ r.startingTime = z.startingTime
    BY <2>5 DEF StabilizerStorage
  <2> QED
    BY <2>1, <2>3, <2>4, <2>6
<1> HIDE DEF r, y, Booked
<1>8. Timed(r, w1.now)
  BY <1>5, <1>7 DEF GoodWorld, Timed
<1>9. GoodWorld(y) /\ OnlyStab(w1, y, s, r)
  BY <1>4, <1>6, <1>7, <1>8, SetStab
<1>10. \A q \in Stabilizers : y.stab[q] = IF q = s THEN r ELSE w.stab[q]
  BY <1>5, <1>9, OtherStabs DEF OnlyStab
<1>11. Auctioned(w.stab[s]) => Auctioned(r)
  <2>1. w.stab[s].sweepBorrowed \in Nat
    BY StabFields DEF GoodWorld
  <2> QED
    BY <1>7, <2>1 DEF Auctioned
<1>12. \A q \in Stabilizers : w.stab[q].sweepBorrowed \in Nat
                              /\ w.sweep.minters[q].mintedAmount \in Nat
  BY StabFields DEF GoodWorld
<1>15. ASSUME NEW q \in Stabilizers
       PROVE  /\ Gap(y, q) = Gap(w, q) /\ y.stab[q].config = w.stab[q].config
              /\ Auctioned(w.stab[q]) => Auctioned(y.stab[q])
              /\ y.stab[q].startingPrice = w.stab[q].startingPrice
              /\ y.stab[q].startingTime = w.stab[q].startingTime
  <2>1. CASE q = s
    BY <1>4, <1>7, <1>9, <1>10, <1>11, <1>12, <2>1 DEF Gap, OnlyStab
  <2>2. CASE q # s
    BY <1>4, <1>9, <1>10, <1>12, <2>2 DEF Gap, OnlyStab
  <2> QED
    BY <2>1, <2>2
<1>13. Kept(w, y)
  BY <1>5, <1>9, <1>15 DEF Kept, OnlyStab
<1>14. Kept(y, x)
  BY <1>2, <1>3, <1>9, SweepTransferKept DEF y
<1>16. SameBooks(y, x) /\ SameHoldings(w, x)
  <2>1. SameHoldings(w1, y)
    BY <1>5, <1>6, StabHoldings
  <2>2. /\ SameBooks(y, x) /\ x.off = y.off
        /\ x.usdx = y.usdx /\ x.token = y.token /\ x.claim = y.claim
    BY <1>2, <1>3, <1>9, SweepTransferGood DEF y
  <2> QED
    BY <1>4, <2>1, <2>2 DEF SameHoldings, SameBooks
<1>17. x.sweep.balanceOf[s] = w.sweep.balanceOf[s] + amount - fee
  <2>1. x.sweep.balanceOf = Moved(y.sweep.balanceOf, s, Treasury, fee)
    BY <1>2, <1>3, <1>9, SweepTransferGood DEF y
  <2>2. PICK g \in [Accounts -> Nat] : g = y.sweep.balanceOf
    BY <1>9, WorldFields DEF GoodWorld
  <2>3. Moved(g, s, Treasury, fee)[s] = g[s] - fee
    BY <1>3, Who DEF Moved
  <2>4. y.sweep = w1.sweep /\ w.sweep.balanceOf[s] \in Nat
    BY <1>9, StabFields DEF GoodWorld, OnlyStab
  <2> QED
    BY <1>3, <1>4, <2>1, <2>2, <2>3, <2>4
<1>18. getDebt(x, s) = w.stab[s].sweepBorrowed + amount
  <2>1. x.stab = y.stab /\ x.now = y.now /\ y.now = w.now /\ GoodWorld(x)
    BY <1>5, <1>9, <1>14, <1>16 DEF SameBooks, OnlyStab, Kept
  <2>2. x.stab[s] = r
    BY <1>10, <2>1
  <2> QED
    BY <1>7, <2>1, <2>2, FeePaid
<1>19. Lends(w, x, s, amount - fee)
  <2>1. getDebt(w, s) = w.stab[s].sweepBorrowed + fee
    BY DEF getDebt, fee
  <2>2. w.sweep.balanceOf[s] \in Nat /\ w.stab[s].sweepBorrowed \in Nat
    BY StabFields DEF GoodWorld
  <2> QED
    BY <1>3, <1>16, <1>17, <1>18, <2>1, <2>2 DEF Lends
<1> QED
  BY <1>13, <1>14, <1>19, KeptTwice DEF fee

\* Stopping an auction leaves none behind that has lost its debt.
LEMMA StopAuctionKept ==
    ASSUME NEW w, GoodWorld(w), NEW s \in Stabilizers
    PROVE  /\ GoodWorld(StopAuction(w, s)) /\ StopAuction(w, s).sweep = w.sweep
           /\ StopAuction(w, s).now = w.now
           /\ \A q \in Stabilizers :
                 /\ StopAuction(w, s).stab[q].sweepBorrowed = w.stab[q].sweepBorrowed
                 /\ StopAuction(w, s).stab[q].config = w.stab[q].config
                 /\ StopAuction(w, s).stab[q].callAmount = w.stab[q].callAmount
                 /\ StopAuction(w, s).stab[q].spreadDate = w.stab[q].spreadDate
                 /\ q # s => StopAuction(w, s).stab[q] = w.stab[q]
                 /\ Auctioned(w.stab[q]) \/ q = s => Auctioned(StopAuction(w, s).stab[q])
                 /\ \/ StopAuction(w, s).stab[q].startingPrice = 0
                    \/ /\ StopAuction(w, s).stab[q].startingPrice = w.stab[q].startingPrice
                       /\ StopAuction(w, s).stab[q].startingTime = w.stab[q].startingTime
<1> DEFINE x == StopAuction(w, s)
<1>1. w \in Worlds /\ w.stab[s] \in StabilizerStorage /\ Timed(w.stab[s], w.now)
  BY WorldFields DEF GoodWorld
<1>2. CASE isDefaulted(w, s)
  <2>1. x = w
    BY <1>2 DEF StopAuction
  <2>2. Auctioned(w.stab[s])
    <3>1. CASE w.stab[s].sweepBorrowed > 0
      BY <3>1 DEF Auctioned
    <3>2. CASE callMissed(w, s)
      BY <3>2 DEF Auctioned, callMissed
    <3> QED
      BY <1>2, <3>1, <3>2 DEF isDefaulted
  <2> QED
    BY <2>1, <2>2
<1>3. CASE ~isDefaulted(w, s)
  <2> DEFINE r == [w.stab[s] EXCEPT !.startingTime = 0, !.startingPrice = 0]
  <2>1. x = [w EXCEPT !.stab[s].startingTime = 0, !.stab[s].startingPrice = 0]
    BY <1>3 DEF StopAuction
  <2>2. x = [w EXCEPT !.stab[s] = r]
    BY <1>1, <2>1 DEF Worlds, StabilizerStorage
  <2>3. /\ r \in StabilizerStorage /\ r.sweepBorrowed = w.stab[s].sweepBorrowed
        /\ r.config = w.stab[s].config /\ r.startingPrice = 0
        /\ r.callAmount = w.stab[s].callAmount /\ r.callTime = w.stab[s].callTime
        /\ r.spreadDate = w.stab[s].spreadDate
    BY <1>1 DEF StabilizerStorage
  <2> HIDE DEF x, r
  <2>4. Timed(r, w.now)
    BY <1>1, <2>3 DEF Timed
  <2>5. GoodWorld(x) /\ OnlyStab(w, x, s, r)
    BY <2>2, <2>3, <2>4, SetStab
  <2>6. \A q \in Stabilizers : x.stab[q] = IF q = s THEN r ELSE w.stab[q]
    BY <1>1, <2>5, OtherStabs DEF OnlyStab
  <2>7. Auctioned(r)
    BY <2>3 DEF Auctioned
  <2> QED
    BY <2>3, <2>5, <2>6, <2>7 DEF OnlyStab, x
<1> QED
  BY <1>2, <1>3

Booked(w, s, paid, fee) ==
    LET call == IF w.stab[s].callAmount > paid THEN w.stab[s].callAmount - paid ELSE 0
    IN  [w.stab[s] EXCEPT !.callAmount = call,
                          !.callTime = IF w.stab[s].config.callDelay > 0 /\ call = 0
                                       THEN 0 ELSE @,
                          !.spreadDate = w.now,
                          !.sweepBorrowed = @ - (paid - fee)]

LEMMA BookRepaymentIs ==
    ASSUME NEW w \in Worlds, NEW s \in Stabilizers, NEW paid, NEW fee
    PROVE  BookRepayment(w, s, paid, fee) = [w EXCEPT !.stab[s] = Booked(w, s, paid, fee)]
<1> DEFINE z == w.stab[s]
           call == IF z.callAmount > paid THEN z.callAmount - paid ELSE 0
           time == IF z.config.callDelay > 0 /\ call = 0 THEN 0 ELSE z.callTime
           date == w.now
           debt == z.sweepBorrowed - (paid - fee)
<1>1. BookRepayment(w, s, paid, fee) =
        [w EXCEPT !.stab[s].callAmount = call, !.stab[s].callTime = time,
                  !.stab[s].spreadDate = date, !.stab[s].sweepBorrowed = debt]
  BY Zenon DEF BookRepayment
<1>2. Booked(w, s, paid, fee) =
        [z EXCEPT !.callAmount = call, !.callTime = time,
                  !.spreadDate = date, !.sweepBorrowed = debt]
  BY Zenon DEF Booked
<1>3. w.stab \in [Stabilizers -> StabilizerStorage] /\ z \in StabilizerStorage
  BY WorldFields
<1> HIDE DEF call, time, date, debt
<1> DEFINE r1 == [z EXCEPT !.callAmount = call, !.callTime = time]
           x1 == [w EXCEPT !.stab[s] = r1]
<1>4. x1 = [w EXCEPT !.stab[s].callAmount = call, !.stab[s].callTime = time]
  BY <1>3 DEF Worlds, StabilizerStorage
<1>5. BookRepayment(w, s, paid, fee) =
        [x1 EXCEPT !.stab[s].spreadDate = date, !.stab[s].sweepBorrowed = debt]
  BY <1>1, <1>4
<1>6. Booked(w, s, paid, fee) = [r1 EXCEPT !.spreadDate = date, !.sweepBorrowed = debt]
  BY <1>2
<1>7. x1.stab[s] = r1 /\ x1.stab = [w.stab EXCEPT ![s] = r1]
  BY <1>3 DEF Worlds
<1>8. [x1 EXCEPT !.stab[s] = Booked(w, s, paid, fee)] = [w EXCEPT !.stab[s] = Booked(w, s, paid, fee)]
  BY <1>3, <1>7 DEF Worlds
<1> HIDE DEF r1
<1>9. [x1 EXCEPT !.stab[s].spreadDate = date, !.stab[s].sweepBorrowed = debt] =
      [x1 EXCEPT !.stab[s] = [r1 EXCEPT !.spreadDate = date, !.sweepBorrowed = debt]]
  BY <1>3, <1>7 DEF Worlds
<1> QED
  BY <1>5, <1>6, <1>8, <1>9

\* What is booked is neither more than the debt nor less than the fee.
LEMMA BookedGood ==
    ASSUME NEW w, GoodWorld(w), NEW s \in Stabilizers, NEW paid \in Nat, NEW fee \in Nat,
           fee <= paid, paid - fee <= w.stab[s].sweepBorrowed
    PROVE  LET r == Booked(w, s, paid, fee)
           IN  /\ r \in StabilizerStorage /\ Timed(r, w.now)
               /\ r.sweepBorrowed = w.stab[s].sweepBorrowed - (paid - fee)
               /\ r.config = w.stab[s].config /\ r.spreadDate = w.now
               /\ r.callAmount = IF w.stab[s].callAmount > paid
                                 THEN w.stab[s].callAmount - paid ELSE 0
               /\ r.callAmount > 0 => r.callTime = w.stab[s].callTime
               /\ r.startingPrice = w.stab[s].startingPrice
               /\ r.startingTime = w.stab[s].startingTime
<1> DEFINE call == IF w.stab[s].callAmount > paid THEN w.stab[s].callAmount - paid ELSE 0
           time == IF w.stab[s].config.callDelay > 0 /\ call = 0 THEN 0 ELSE w.stab[s].callTime
           debt == w.stab[s].sweepBorrowed - (paid - fee)
           r == Booked(w, s, paid, fee)
<1>1. /\ w \in Worlds /\ w.stab[s] \in StabilizerStorage /\ Timed(w.stab[s], w.now)
      /\ w.now \in Nat
  BY WorldFields DEF GoodWorld
<1>2. /\ w.stab[s].callAmount \in Nat /\ w.stab[s].callTime \in Nat
      /\ w.stab[s].sweepBorrowed \in Nat
  BY <1>1, StabFields
<1>3. call \in Nat /\ time \in Nat /\ debt \in Nat
  BY <1>2
<1>4. call > 0 => time > 0
  BY <1>1, <1>2 DEF Timed
<1>5. r = [w.stab[s] EXCEPT !.callAmount = call, !.callTime = time,
                            !.spreadDate = w.now, !.sweepBorrowed = debt]
  BY <1>1 DEF Booked, StabilizerStorage
<1> HIDE DEF call, time, debt, r
<1>6. /\ r \in StabilizerStorage /\ r.callAmount = call /\ r.callTime = time
      /\ r.spreadDate = w.now /\ r.sweepBorrowed = debt /\ r.config = w.stab[s].config
      /\ r.startingPrice = w.stab[s].startingPrice
      /\ r.startingTime = w.stab[s].startingTime
  BY <1>1, <1>3, <1>5 DEF StabilizerStorage
<1>7. Timed(r, w.now)
  BY <1>1, <1>4, <1>6 DEF Timed
<1> QED
  BY <1>3, <1>6, <1>7 DEF r, debt, call, time

LEMMA StopAuctionHoldings ==
    ASSUME NEW w \in Worlds, NEW s \in Stabilizers
    PROVE  /\ SameHoldings(w, StopAuction(w, s))
           /\ StopAuction(w, s).stab[s].callTime = w.stab[s].callTime
<1>1. CASE isDefaulted(w, s)
  BY <1>1 DEF StopAuction, SameHoldings
<1>2. CASE ~isDefaulted(w, s)
  <2>1. PICK r \in StabilizerStorage : r = w.stab[s]
    BY WorldFields
  <2>2. StopAuction(w, s) =
          [w EXCEPT !.stab[s] = [r EXCEPT !.startingTime = 0, !.startingPrice = 0]]
    BY <1>2, <2>1 DEF StopAuction, Worlds, StabilizerStorage
  <2>3. [r EXCEPT !.startingTime = 0, !.startingPrice = 0].callTime = r.callTime
    BY DEF StabilizerStorage
  <2>4. [w EXCEPT !.stab[s] = [r EXCEPT !.startingTime = 0, !.startingPrice = 0]].stab[s] =
          [r EXCEPT !.startingTime = 0, !.startingPrice = 0]
    BY WorldFields DEF Worlds
  <2> QED
    BY <2>1, <2>2, <2>3, <2>4, StabHoldings
<1> QED
  BY <1>1, <1>2

\* What a payment costs s: SWEEP, and no call is missed for it.
Spends(w, x, s, paid) ==
    /\ SameHoldings(w, x)
    /\ accruedFee(w, s) =< paid /\ paid =< w.sweep.balanceOf[s]
    /\ paid - accruedFee(w, s) =< w.stab[s].sweepBorrowed
    /\ x.sweep.balanceOf[s] = w.sweep.balanceOf[s] - paid
    /\ x.stab[s].spreadDate = x.now
    /\ callMissed(x, s) => callMissed(w, s)

\* What a payment takes off the debt of s and off what is called of it.
Pays(w, x, s, paid) ==
    /\ x.now = w.now
    /\ \A q \in Stabilizers : q # s => x.stab[q] = w.stab[q]
    /\ getDebt(x, s) = getDebt(w, s) - paid
    /\ x.stab[s].callAmount = IF w.stab[s].callAmount > paid
                              THEN w.stab[s].callAmount - paid ELSE 0

Payable(w, s, amount) == Least(Least(amount, w.sweep.balanceOf[s]), getDebt(w, s))

LEMMA RepayKept ==
    ASSUME NEW w, GoodWorld(w), NEW s \in Stabilizers, NEW amount \in Int,
           NEW x \in Repay(w, s, amount)
    PROVE  /\ Kept(w, x) /\ Pays(w, x, s, Payable(w, s, amount))
           /\ Spends(w, x, s, Payable(w, s, amount))
<1> DEFINE paid == Least(Least(amount, w.sweep.balanceOf[s]), getDebt(w, s))
           fee == accruedFee(w, s)
           y == BookRepayment(w, s, paid, fee)
           r == Booked(w, s, paid, fee)
<1>1. /\ ~(paid = 0 \/ paid < fee)
      /\ x \in UNION {{StopAuction(w2, s) :
                         w2 \in SweepCall(w1, Burn(w1.sweep, s, paid - fee, TRUE))} :
                      w1 \in SweepTransfer(y, s, Treasury, fee)}
  BY Zenon DEF Repay, Then
<1>2. PICK w1 \in SweepTransfer(y, s, Treasury, fee) :
         x \in {StopAuction(w2, s) :
                  w2 \in SweepCall(w1, Burn(w1.sweep, s, paid - fee, TRUE))}
  BY <1>1, Zenon
<1>3. PICK w2 \in SweepCall(w1, Burn(w1.sweep, s, paid - fee, TRUE)) :
         x = StopAuction(w2, s)
  BY <1>2, Zenon
<1>4. /\ w \in Worlds /\ w.sweep.balanceOf[s] \in Nat /\ w.stab[s].sweepBorrowed \in Nat
      /\ fee \in Nat /\ getDebt(w, s) = w.stab[s].sweepBorrowed + fee
  BY FeeNat, StabFields DEF GoodWorld, getDebt
<1>5. paid \in Nat /\ fee <= paid /\ paid - fee <= w.stab[s].sweepBorrowed
      /\ paid - fee \in Nat /\ paid =< w.sweep.balanceOf[s]
  BY <1>1, <1>4 DEF Least
<1>b. Payable(w, s, amount) = paid
  BY DEF Payable
<1> HIDE DEF paid, fee
<1>6. /\ r \in StabilizerStorage /\ Timed(r, w.now)
      /\ r.sweepBorrowed = w.stab[s].sweepBorrowed - (paid - fee)
      /\ r.config = w.stab[s].config /\ r.spreadDate = w.now
      /\ r.callAmount = IF w.stab[s].callAmount > paid
                        THEN w.stab[s].callAmount - paid ELSE 0
      /\ r.callAmount > 0 => r.callTime = w.stab[s].callTime
      /\ r.startingPrice = w.stab[s].startingPrice
      /\ r.startingTime = w.stab[s].startingTime
  BY <1>4, <1>5, BookedGood
<1>7. y = [w EXCEPT !.stab[s] = r]
  BY <1>4, BookRepaymentIs
<1> HIDE DEF y, r
<1>8. GoodWorld(y) /\ OnlyStab(w, y, s, r)
  BY <1>6, <1>7, SetStab
<1>a. w \in Worlds /\ y.stab = [w.stab EXCEPT ![s] = r]
  BY <1>4, <1>8 DEF OnlyStab
<1>9. \A q \in Stabilizers : y.stab[q] = IF q = s THEN r ELSE w.stab[q]
  BY <1>a, OtherStabs
<1>10. GoodWorld(w1) /\ SameBooks(y, w1) /\ w1.sweep.minters = y.sweep.minters
  BY <1>2, <1>4, <1>8, Who, SweepTransferGood
<1>11. /\ GoodWorld(w2) /\ SameBooks(w1, w2)
       /\ \A q \in Stabilizers : w2.sweep.minters[q].mintedAmount =
             w1.sweep.minters[q].mintedAmount - IF q = s THEN paid - fee ELSE 0
  <2>1. /\ GoodWorld(w1) /\ s \in Stabilizers /\ paid - fee \in Nat
        /\ w2 \in SweepCall(w1, Burn(w1.sweep, s, paid - fee, TRUE))
    BY <1>3, <1>5, <1>10
  <2>2. PICK burnt : burnt = paid - fee
    OBVIOUS
  <2>3. burnt \in Nat /\ w2 \in BurnedBy(w1, s, burnt)
    BY <2>1, <2>2 DEF BurnedBy
  <2>4. /\ GoodWorld(w2) /\ SameBooks(w1, w2)
        /\ \A q \in Stabilizers : w2.sweep.minters[q].mintedAmount =
              w1.sweep.minters[q].mintedAmount - IF q = s THEN burnt ELSE 0
    BY <2>1, <2>3, BurnWorld
  <2> QED
    BY <2>2, <2>4
<1>12. /\ GoodWorld(x) /\ x.sweep = w2.sweep /\ x.now = w2.now
       /\ \A q \in Stabilizers :
             /\ x.stab[q].sweepBorrowed = w2.stab[q].sweepBorrowed
             /\ x.stab[q].config = w2.stab[q].config
             /\ x.stab[q].callAmount = w2.stab[q].callAmount
             /\ x.stab[q].spreadDate = w2.stab[q].spreadDate
             /\ q # s => x.stab[q] = w2.stab[q]
             /\ Auctioned(w2.stab[q]) \/ q = s => Auctioned(x.stab[q])
             /\ \/ x.stab[q].startingPrice = 0
                \/ /\ x.stab[q].startingPrice = w2.stab[q].startingPrice
                   /\ x.stab[q].startingTime = w2.stab[q].startingTime
  BY <1>3, <1>11, StopAuctionKept
<1>13. w2.stab = y.stab /\ y.sweep = w.sweep
  BY <1>8, <1>10, <1>11 DEF SameBooks, OnlyStab
<1>14. \A q \in Stabilizers : w.stab[q].sweepBorrowed \in Nat
                              /\ w.sweep.minters[q].mintedAmount \in Nat
  BY <1>4, StabFields
<1>15. ASSUME NEW q \in Stabilizers
       PROVE  /\ Gap(x, q) = Gap(w, q) /\ x.stab[q].config = w.stab[q].config
              /\ Auctioned(w.stab[q]) => Auctioned(x.stab[q])
              /\ \/ x.stab[q].startingPrice = 0
                 \/ /\ x.stab[q].startingPrice = w.stab[q].startingPrice
                    /\ x.stab[q].startingTime = w.stab[q].startingTime
  <2>1. /\ x.sweep.minters[q].mintedAmount =
             w.sweep.minters[q].mintedAmount - IF q = s THEN paid - fee ELSE 0
        /\ x.stab[q].sweepBorrowed = y.stab[q].sweepBorrowed
        /\ x.stab[q].config = y.stab[q].config
    BY <1>10, <1>11, <1>12, <1>13
  <2>4. \/ x.stab[q].startingPrice = 0
        \/ /\ x.stab[q].startingPrice = y.stab[q].startingPrice
           /\ x.stab[q].startingTime = y.stab[q].startingTime
    BY <1>12, <1>13
  <2>2. CASE q = s
    <3>1. Gap(x, q) = Gap(w, q)
      BY <1>5, <1>6, <1>9, <1>14, <2>1, <2>2 DEF Gap
    <3>2. /\ x.stab[q].config = w.stab[q].config
          /\ Auctioned(w.stab[q]) => Auctioned(x.stab[q])
      BY <1>6, <1>9, <1>12, <2>1, <2>2
    <3> QED
      BY <1>6, <1>9, <2>2, <2>4, <3>1, <3>2
  <2>3. CASE q # s
    BY <1>9, <1>12, <1>13, <1>14, <2>1, <2>3 DEF Gap
  <2> QED
    BY <2>2, <2>3
<1>16. x.now = w.now
  BY <1>8, <1>10, <1>11, <1>12 DEF SameBooks, OnlyStab
<1>17. getDebt(x, s) = getDebt(w, s) - paid
  <2>1. x.stab[s].spreadDate = x.now /\ x.stab[s].sweepBorrowed = r.sweepBorrowed
    BY <1>6, <1>9, <1>12, <1>13, <1>16
  <2>2. getDebt(x, s) = r.sweepBorrowed
    BY <1>12, <2>1, FeePaid
  <2> QED
    BY <1>4, <1>5, <1>6, <2>2
<1>18. Pays(w, x, s, paid)
  BY <1>6, <1>9, <1>12, <1>13, <1>16, <1>17 DEF Pays
<1>19. SameHoldings(w, x)
  <2>1. SameHoldings(w, y)
    BY <1>4, <1>7, StabHoldings
  <2>2. SameHoldings(y, w1) /\ SameHoldings(w1, w2)
    BY <1>2, <1>3, <1>8, <1>10, SweepCallHoldings DEF SweepTransfer, GoodWorld
  <2>3. SameHoldings(w2, x)
    BY <1>3, <1>11, StopAuctionHoldings DEF GoodWorld
  <2> QED
    BY <2>1, <2>2, <2>3 DEF SameHoldings
<1>20. x.sweep.balanceOf[s] = w.sweep.balanceOf[s] - paid
  <2>1. w1.sweep.balanceOf = Moved(w.sweep.balanceOf, s, Treasury, fee)
    BY <1>2, <1>4, <1>8, <1>13, Who, SweepTransferGood
  <2>2. w.sweep.balanceOf \in [Accounts -> Nat]
    BY <1>4, WorldFields
  <2>3. w1.sweep.balanceOf[s] = w.sweep.balanceOf[s] - fee
    BY <2>1, <2>2, Who DEF Moved
  <2>4. PICK t \in Burn(w1.sweep, s, paid - fee, TRUE) : w2 = [w1 EXCEPT !.sweep = t]
    BY <1>3 DEF SweepCall
  <2>5. PICK approves, t1, burnt : approves = TRUE /\ t1 = w1.sweep /\ burnt = paid - fee
    OBVIOUS
  <2>6. t \in Burn(t1, s, burnt, approves) /\ Good(t1) /\ s \in Accounts /\ burnt \in Nat
    BY <1>5, <1>10, <2>4, <2>5, Who DEF GoodWorld, Burn, BeforeTokenTransfer
  <2>7. t.balanceOf[s] = t1.balanceOf[s] - burnt
    BY <2>6, BurnGood
  <2>8. w2.sweep = t
    BY <1>10, <2>4 DEF GoodWorld, Worlds
  <2> QED
    BY <1>4, <1>5, <1>12, <2>3, <2>5, <2>7, <2>8
<1>21. /\ x.stab[s].spreadDate = x.now /\ x.stab[s].callAmount = r.callAmount
       /\ x.stab[s].callTime = r.callTime /\ x.stab[s].config = w.stab[s].config
  <2>1. x.stab[s].callTime = w2.stab[s].callTime
    BY <1>3, <1>11, StopAuctionHoldings DEF GoodWorld
  <2> QED
    BY <1>6, <1>9, <1>12, <1>13, <1>16, <2>1
<1>22. callMissed(x, s) => callMissed(w, s)
  <2>1. w.stab[s].callAmount \in Nat
    BY <1>4, StabFields
  <2> QED
    BY <1>5, <1>6, <1>16, <1>21, <2>1 DEF callMissed
<1>23. Spends(w, x, s, paid)
  BY <1>5, <1>19, <1>20, <1>21, <1>22 DEF Spends, fee
<1> QED
  BY <1>b, <1>12, <1>15, <1>16, <1>18, <1>23 DEF Kept

-------------------------------------------------------------------------------
(* The health of who repays *)

InUSD(a, price, unit) == (a * price) \div unit

\* Converting two amounts together or one by one.
LEMMA Together ==
    ASSUME NEW a \in Nat, NEW c \in Nat, NEW price \in Nat \ {0}, NEW unit \in Nat \ {0}
    PROVE  /\ InUSD(a, price, unit) \in Nat /\ InUSD(c, price, unit) \in Nat
           /\ InUSD(a + c, price, unit) \in Nat
           /\ InUSD(a, price, unit) + InUSD(c, price, unit) =< InUSD(a + c, price, unit)
           /\ InUSD(a + c, price, unit) =< InUSD(a, price, unit) + InUSD(c, price, unit) + 1
<1>1. PICK x \in Nat, y \in Nat : x = a * price /\ y = c * price
  OBVIOUS
<1>2. (a + c) * price = x + y
  BY <1>1
<1>3. x + y \in Nat
  OBVIOUS
<1>4. x \div unit \in Nat /\ y \div unit \in Nat /\ (x + y) \div unit \in Nat
  BY <1>3, DivNat
<1> QED
  BY <1>1, <1>2, <1>4, QuotientOfSum DEF InUSD

\* What was worth value with owed on it is worth after with owes on it: no value is gained
\* and at most two units of equity are lost.
CostsTwo(value, owed, after, owes) ==
    /\ value \in Int /\ after \in Nat /\ owed \in Nat /\ owes \in Nat
    /\ after =< value /\ value - owed - 2 =< after - owes

\* Paying from a balance, of which fee is a fee and the rest comes off a debt b.
LEMMA PaymentCost ==
    ASSUME NEW rest \in Nat, NEW balance \in Nat, NEW fee \in Nat, NEW b \in Nat,
           NEW paid \in Nat, fee =< paid, paid =< balance, paid - fee =< b,
           NEW price \in Nat \ {0}, NEW unit \in Nat \ {0}
    PROVE  CostsTwo(rest + InUSD(balance, price, unit) - InUSD(fee, price, unit),
                    InUSD(b, price, unit),
                    rest + InUSD(balance - paid, price, unit),
                    InUSD(b - (paid - fee), price, unit))
<1> DEFINE C(a) == InUSD(a, price, unit)
<1>1. ASSUME NEW a \in Nat
      PROVE  C(a) \in Nat
  BY Together
<1>2. ASSUME NEW a \in Nat, NEW c \in Nat
      PROVE  C(a) + C(c) =< C(a + c) /\ C(a + c) =< C(a) + C(c) + 1
  BY Together
<1>3. PICK left \in Nat, debt \in Nat, more \in Nat :
         left = balance - paid /\ debt = b - (paid - fee) /\ more = paid - fee
  OBVIOUS
<1> HIDE DEF C
<1>4. /\ C(left) \in Nat /\ C(debt) \in Nat /\ C(paid) \in Nat /\ C(fee) \in Nat
      /\ C(b) \in Nat /\ C(balance) \in Nat /\ C(more) \in Nat /\ C(debt + paid) \in Nat
  BY <1>1
<1>5. C(left) + C(paid) =< C(balance) /\ C(balance) =< C(left) + C(paid) + 1
  <2>1. balance = left + paid
    BY <1>3
  <2> QED
    BY <1>2, <2>1
<1>6. C(fee) =< C(paid)
  <2>1. paid = fee + more
    BY <1>3
  <2>2. C(fee) + C(more) =< C(paid)
    BY <1>2, <2>1
  <2> QED
    BY <1>4, <2>2
<1>7. C(debt) + C(paid) =< C(b) + C(fee) + 1
  <2>1. debt + paid = b + fee
    BY <1>3
  <2>2. C(debt) + C(paid) =< C(debt + paid) /\ C(b + fee) =< C(b) + C(fee) + 1
    BY <1>2
  <2>3. C(b + fee) = C(debt + paid)
    BY <2>1
  <2> QED
    BY <1>4, <2>2, <2>3
<1>8. /\ rest + C(balance) - C(fee) \in Int /\ rest + C(left) \in Nat
      /\ rest + C(left) =< rest + C(balance) - C(fee)
      /\ rest + C(balance) - C(fee) - C(b) - 2 =< rest + C(left) - C(debt)
  BY <1>4, <1>5, <1>6, <1>7
<1>9. CostsTwo(rest + C(balance) - C(fee), C(b), rest + C(left), C(debt))
  BY <1>4, <1>8 DEF CostsTwo
<1> QED
  BY <1>3, <1>9 DEF C

\* The ratio of what is left stays at least what it had to be.
LEMMA RatioLeft ==
    ASSUME NEW value \in Int, 0 =< value, NEW junior \in Int,
           NEW after \in Nat, NEW rest \in Int,
           NEW min \in Nat, NEW p \in Nat \ {0},
           (junior - 2) * p > value * min, after =< value, junior - 2 =< rest, rest =< after
    PROVE  /\ after > 0 /\ rest > 0 /\ (rest * p) \div after >= min
<1>1. PICK least \in Int, share \in Nat, old \in Nat :
         /\ old = value /\ least = p * (junior - 2) /\ share = min * old
  BY MulNat
<1>2. least > share
  BY <1>1
<1>3. least =< p * rest
  BY <1>1, Product
<1>4. rest > 0
  <2>1. CASE rest =< 0
    <3>1. p * rest =< p * 0
      BY <2>1, Product
    <3> QED
      BY <1>1, <1>2, <1>3, <3>1
  <2> QED
    BY <2>1
<1>5. min * after =< share
  BY <1>1, Product
<1>6. PICK have \in Int : have = p * rest
  OBVIOUS
<1>7. after * min \in Int /\ after * min =< have /\ rest * p = have
  BY <1>1, <1>2, <1>3, <1>5, <1>6
<1>8. min =< have \div after
  BY <1>4, <1>7, QuotientAtLeast
<1>9. have \div after \in Int
  BY <1>4, Rounded
<1> QED
  BY <1>4, <1>7, <1>8, <1>9

LEMMA StaysHealthy ==
    ASSUME NEW value, NEW owed, NEW after, NEW owes, CostsTwo(value, owed, after, owes),
           NEW min \in Nat, 0 =< value,
           (value - owed - 2) * Precision > value * min
    PROVE  /\ after \in Nat /\ owes \in Nat /\ after > 0 /\ after - owes > 0
           /\ ((after - owes) * Precision) \div after \in Int
           /\ ((after - owes) * Precision) \div after >= min
<1>1. PICK junior \in Int, kept \in Int :
         /\ junior = value - owed /\ kept = after - owes
         /\ junior - 2 =< kept /\ kept =< after
  BY DEF CostsTwo
<1>2. value \in Int /\ after \in Nat /\ after =< value /\ owes \in Nat
  BY DEF CostsTwo
<1>3. (junior - 2) * Precision > value * min
  BY <1>1
<1>4. after > 0 /\ kept > 0 /\ (kept * Precision) \div after >= min
  BY <1>1, <1>2, <1>3, Units, RatioLeft
<1>5. (kept * Precision) \div after \in Int
  BY <1>2, <1>4, Units, Rounded
<1> QED
  BY <1>1, <1>2, <1>4, <1>5

LEMMA AssetValueNat ==
    ASSUME NEW w, GoodWorld(w), NEW s \in Stabilizers
    PROVE  AssetValue(w, s) \in Nat
<1>1. /\ w \in Worlds /\ w.token[s] \in Nat /\ w.claim[s].amount \in Nat
      /\ w.off[s].actualValue \in Nat /\ w.tokenPrice \in Nat
  BY WorldFields, StabFields DEF GoodWorld
<1>2. convertToAssets(w, w.token[s]) \in Nat /\ convertToAssets(w, w.claim[s].amount) \in Nat
  BY <1>1, Conversions
<1>3. convertToAssets(w, w.token[s]) \div Scale \in Nat
  BY <1>2, Units, DivNat
<1>4. TokenValue(w, s) \in Nat
  <2>1. w.token[s] * w.tokenPrice \in Nat
    BY <1>1, MulNat
  <2> QED
    BY <2>1, Units, DivNat DEF TokenValue
<1>5. VaultValue(w, s) \in Nat
  BY <1>1, <1>2, Conversions DEF VaultValue
<1>6. EthenaValue(w, s) \in Nat
  BY <1>1, <1>3, Conversions DEF EthenaValue
<1>7. MapleValue(w, s) \in Nat
  BY <1>2, <1>5 DEF MapleValue
<1>8. OffChainValue(w, s) \in Nat
  BY <1>1, Conversions DEF OffChainValue
<1> QED
  BY <1>4, <1>5, <1>6, <1>7, <1>8 DEF AssetValue

LEMMA AssetValueSame ==
    ASSUME NEW w, NEW x, SameHoldings(w, x), NEW s
    PROVE  AssetValue(x, s) = AssetValue(w, s) /\ oracleUsdxToUsd(x, x.usdx[s]) = oracleUsdxToUsd(w, w.usdx[s])
  BY DEF SameHoldings, AssetValue, TokenValue, VaultValue, EthenaValue, MapleValue,
     OffChainValue, convertToAssets, oracleUsdxToUsd

\* s could lose two units of its equity.
Sound(w, s) ==
    /\ w.stab[s].config.minEquityRatio >= 0 /\ currentValue(w, s) >= 0 /\ ~callMissed(w, s)
    /\ (currentValue(w, s) - convertToUSD(w, w.stab[s].sweepBorrowed) - 2) * Precision
            > currentValue(w, s) * w.stab[s].config.minEquityRatio

\* A stabilizer that could lose two units of its equity is healthy after a payment.
LEMMA RepayHealthy ==
    ASSUME NEW w, GoodWorld(w), NEW s \in Stabilizers, NEW amount \in Int,
           NEW x \in Repay(w, s, amount), Sound(w, s)
    PROVE  valueReadable(x, s) /\ ~isDefaulted(x, s)
<1>1. PICK paid \in Nat : paid = Payable(w, s, amount)
  <2>1. /\ w.sweep.balanceOf[s] \in Nat /\ getDebt(w, s) \in Nat /\ accruedFee(w, s) \in Nat
        /\ accruedFee(w, s) =< Payable(w, s, amount)
    BY StabFields, FeeNat, RepayKept DEF Spends, GoodWorld
  <2>2. Payable(w, s, amount) \in Int
    BY <2>1 DEF Payable, Least
  <2> QED
    BY <2>1, <2>2
<1>2. Kept(w, x) /\ Pays(w, x, s, paid) /\ Spends(w, x, s, paid)
  BY <1>1, RepayKept
<1>3. GoodWorld(x) /\ x.stab[s].config = w.stab[s].config /\ ~callMissed(x, s)
  BY <1>2 DEF Kept, Spends, Sound
<1>4. PICK rest \in Nat, balance \in Nat, fee \in Nat, b \in Nat :
         /\ rest = AssetValue(w, s) + oracleUsdxToUsd(w, w.usdx[s])
         /\ balance = w.sweep.balanceOf[s] /\ fee = accruedFee(w, s)
         /\ b = w.stab[s].sweepBorrowed
  <2>1. w \in Worlds /\ w.usdx[s] \in Nat /\ w.sweep.balanceOf[s] \in Nat
        /\ w.stab[s].sweepBorrowed \in Nat
    BY StabFields DEF GoodWorld
  <2>2. oracleUsdxToUsd(w, w.usdx[s]) \in Nat /\ AssetValue(w, s) \in Nat
        /\ accruedFee(w, s) \in Nat
    BY <2>1, Conversions, AssetValueNat, FeeNat
  <2>3. AssetValue(w, s) + oracleUsdxToUsd(w, w.usdx[s]) \in Nat
    BY <2>2
  <2> QED
    BY <2>1, <2>2, <2>3
<1>5. /\ fee =< paid /\ paid =< balance /\ paid - fee =< b
      /\ x.sweep.balanceOf[s] = balance - paid
  BY <1>2, <1>4 DEF Spends
<1>6. x.sweep.balanceOf[s] \in Nat /\ x.stab[s].sweepBorrowed \in Nat
      /\ accruedFee(x, s) \in Nat
  BY <1>3, StabFields, FeeNat DEF GoodWorld
<1>7. PICK left \in Nat : left = x.sweep.balanceOf[s]
  BY <1>6
<1>9. accruedFee(x, s) = 0 /\ x.stab[s].sweepBorrowed = b - (paid - fee)
  <2>1. getDebt(x, s) = x.stab[s].sweepBorrowed
    BY <1>2, <1>3, FeePaid DEF Spends
  <2>2. getDebt(x, s) = getDebt(w, s) - paid /\ getDebt(w, s) = b + fee
    BY <1>2, <1>4 DEF Pays, getDebt
  <2>3. PICK debt \in Nat, rate \in Nat :
           debt = x.stab[s].sweepBorrowed /\ rate = accruedFee(x, s)
    BY <1>6
  <2>4. PICK owing \in Nat, owed \in Nat :
           owing = getDebt(x, s) /\ owed = getDebt(w, s)
    BY <1>3, FeeNat DEF GoodWorld
  <2>5. owing = debt + rate /\ owing = debt
    BY <2>1, <2>3, <2>4 DEF getDebt
  <2>6. owing = owed - paid /\ owed = b + fee
    BY <2>2, <2>4
  <2> QED
    BY <1>4, <2>3, <2>5, <2>6
<1>10. PICK price \in Nat \ {0}, unit \in Nat \ {0} :
          price = w.targetPrice /\ unit = Unit * Scale
  BY WorldFields, Units, MulPos DEF GoodWorld
<1>11. /\ x.targetPrice = price
       /\ AssetValue(x, s) + oracleUsdxToUsd(x, x.usdx[s]) = rest
  BY <1>2, <1>4, <1>10, AssetValueSame DEF Spends, SameHoldings
<1>12. /\ currentValue(w, s) = rest + InUSD(balance, price, unit) - InUSD(fee, price, unit)
       /\ convertToUSD(w, w.stab[s].sweepBorrowed) = InUSD(b, price, unit)
  BY <1>4, <1>10 DEF currentValue, grossValue, convertToUSD, InUSD
<1>13. grossValue(x, s) = rest + InUSD(balance - paid, price, unit)
  BY <1>5, <1>10, <1>11 DEF grossValue, convertToUSD, InUSD
<1>14. convertToUSD(x, accruedFee(x, s)) = 0
  <2>1. (0 * price) \div unit = 0
    OBVIOUS
  <2> QED
    BY <1>9, <1>10, <1>11, <2>1 DEF convertToUSD
<1>15. convertToUSD(x, x.stab[s].sweepBorrowed) = InUSD(b - (paid - fee), price, unit)
  BY <1>9, <1>10, <1>11 DEF convertToUSD, InUSD
<1>16. CostsTwo(currentValue(w, s), convertToUSD(w, w.stab[s].sweepBorrowed),
                grossValue(x, s), convertToUSD(x, x.stab[s].sweepBorrowed))
  <2>1. CostsTwo(rest + InUSD(balance, price, unit) - InUSD(fee, price, unit),
                 InUSD(b, price, unit), rest + InUSD(balance - paid, price, unit),
                 InUSD(b - (paid - fee), price, unit))
    BY <1>5, PaymentCost
  <2> QED
    BY <1>12, <1>13, <1>15, <2>1
<1>17. PICK min \in Nat : min = w.stab[s].config.minEquityRatio
  <2>1. w.stab[s].config.minEquityRatio \in Int
    BY StabFields DEF GoodWorld
  <2> QED
    BY <2>1 DEF Sound
<1>18. PICK after \in Nat, owes \in Nat :
          after = grossValue(x, s) /\ owes = convertToUSD(x, x.stab[s].sweepBorrowed)
  BY <1>16 DEF CostsTwo
<1>19. /\ after > 0 /\ after - owes > 0
       /\ ((after - owes) * Precision) \div after \in Int
       /\ ((after - owes) * Precision) \div after >= min
  <2>1. /\ 0 =< currentValue(w, s)
        /\ (currentValue(w, s) - convertToUSD(w, w.stab[s].sweepBorrowed) - 2) * Precision
              > currentValue(w, s) * min
    BY <1>17 DEF Sound
  <2> QED
    BY <1>16, <1>18, <2>1, StaysHealthy
<1>20. currentValue(x, s) = after /\ valueReadable(x, s)
  BY <1>14, <1>18 DEF currentValue, valueReadable
<1>21. getEquityRatio(x, s) = ((after - owes) * Precision) \div after
  BY <1>18, <1>19, <1>20 DEF getEquityRatio
<1>22. ~(getEquityRatio(x, s) < x.stab[s].config.minEquityRatio)
  BY <1>3, <1>17, <1>19, <1>21
<1> QED
  BY <1>3, <1>20, <1>22 DEF isDefaulted

-------------------------------------------------------------------------------
(* What was asked back *)

\* Cooling c and more, or shares that are left with less, in units of scale parts: what
\* was worth held is now worth left, and what it lost, but for one part, is claimed.
LEMMA CooledDown ==
    ASSUME NEW held \in Nat, NEW left \in Nat, NEW more \in Nat, NEW c \in Nat,
           NEW scale \in Nat \ {0}, held =< left + more + 1
    PROVE  /\ held \div scale \in Nat /\ left \div scale \in Nat
           /\ c \div scale \in Nat /\ (c + more) \div scale \in Nat
           /\ held \div scale + c \div scale =< left \div scale + (c + more) \div scale + 2
<1>1. PICK q \in Int : /\ q = (left + more) \div scale /\ left + more < scale * q + scale
                      /\ scale * q \in Int
  BY Rounded
<1>2. held =< scale * (q + 1)
  <2>1. scale * (q + 1) = scale * q + scale
    OBVIOUS
  <2> QED
    BY <1>1, <2>1
<1>3. held \div scale =< q + 1
  BY <1>2, QuotientAtMost
<1>4. q =< left \div scale + more \div scale + 1
  BY <1>1, QuotientOfSum
<1>5. c \div scale + more \div scale =< (c + more) \div scale
  BY QuotientOfSum
<1>6. /\ held \div scale \in Nat /\ left \div scale \in Nat /\ c \div scale \in Nat
      /\ more \div scale \in Nat /\ (c + more) \div scale \in Nat
  BY DivNat
<1> QED
  BY <1>1, <1>3, <1>4, <1>5, <1>6

\* A usdx that is worth a dollar.
LEMMA AtPar ==
    ASSUME NEW w, w.usdxPrice = Unit, NEW a \in Nat
    PROVE  oracleUsdxToUsd(w, a) = a
<1>1. a * Unit = Unit * a /\ Unit * a \in Int
  BY Units
<1>2. a =< (a * Unit) \div Unit /\ (a * Unit) \div Unit =< a /\ (a * Unit) \div Unit \in Int
  BY <1>1, Units, Rounded, QuotientAtLeast, QuotientAtMost
<1> QED
  BY <1>2 DEF oracleUsdxToUsd

\* What s has of its investment: usdx, shares and what it claims, in dollars.
Invested(w, s) ==
    AssetValue(w, s) + w.usdx[s]
      + (IF AssetOf[s] = "EthenaAsset" THEN w.claim[s].amount \div Scale ELSE 0)

LEMMA InvestedNat ==
    ASSUME NEW w, GoodWorld(w), NEW s \in Stabilizers
    PROVE  Invested(w, s) \in Nat
<1>1. w \in Worlds /\ w.usdx[s] \in Nat /\ w.claim[s].amount \in Nat
  BY StabFields DEF GoodWorld
<1>2. w.claim[s].amount \div Scale \in Nat /\ AssetValue(w, s) \in Nat
  BY <1>1, Units, DivNat, AssetValueNat
<1> QED
  BY <1>1, <1>2 DEF Invested

\* The equity at par: what is invested, and SWEEP less debt.
LEMMA EquityIs ==
    ASSUME NEW y, GoodWorld(y), NEW s \in Stabilizers, y.usdxPrice = Unit
    PROVE  /\ Invested(y, s) \in Nat /\ convertToUSD(y, y.sweep.balanceOf[s]) \in Nat
           /\ convertToUSD(y, getDebt(y, s)) \in Nat
           /\ equity(y, s) = Invested(y, s) + convertToUSD(y, y.sweep.balanceOf[s])
                                - convertToUSD(y, getDebt(y, s))
<1>1. /\ y \in Worlds /\ y.usdx[s] \in Nat /\ y.claim[s].amount \in Nat
      /\ y.sweep.balanceOf[s] \in Nat /\ getDebt(y, s) \in Nat
  BY StabFields, FeeNat DEF GoodWorld
<1>2. PICK claimed \in Nat, value \in Nat :
         claimed = y.claim[s].amount \div Scale /\ value = AssetValue(y, s)
  BY <1>1, Units, DivNat, AssetValueNat
<1>3. oracleUsdxToUsd(y, y.usdx[s]) = y.usdx[s] /\ oracleUsdxToUsd(y, claimed) = claimed
  BY <1>1, AtPar
<1>4. PICK balance \in Nat, owed \in Nat :
         balance = convertToUSD(y, y.sweep.balanceOf[s]) /\ owed = convertToUSD(y, getDebt(y, s))
  BY <1>1, Conversions
<1>5. equity(y, s) = value + y.usdx[s] + balance - owed
                       + (IF AssetOf[s] = "EthenaAsset" THEN claimed ELSE 0)
  BY <1>1, <1>2, <1>3, <1>4 DEF equity, grossValue
<1> QED
  BY <1>1, <1>2, <1>4, <1>5, InvestedNat DEF Invested

\* SWEEP and debt do not change, and the rest of the equity is what is invested.
LEMMA SameSweep ==
    ASSUME NEW w, NEW x, SameBooks(w, x), x.sweep = w.sweep, NEW s
    PROVE  /\ convertToUSD(x, x.sweep.balanceOf[s]) = convertToUSD(w, w.sweep.balanceOf[s])
           /\ convertToUSD(x, getDebt(x, s)) = convertToUSD(w, getDebt(w, s))
  BY DEF SameBooks, getDebt, accruedFee, convertToUSD

LEMMA RedeemedEquity ==
    ASSUME NEW w, GoodWorld(w), NEW x, GoodWorld(x), NEW s \in Stabilizers,
           w.usdxPrice = Unit, SameBooks(w, x), x.sweep = w.sweep,
           Invested(x, s) + 2 >= Invested(w, s)
    PROVE  equity(x, s) + 2 >= equity(w, s)
<1>1. x.usdxPrice = Unit
  BY DEF SameBooks
<1>2. PICK balance \in Nat, owed \in Nat :
         balance = convertToUSD(w, w.sweep.balanceOf[s]) /\ owed = convertToUSD(w, getDebt(w, s))
  BY EquityIs
<1>3. equity(w, s) = Invested(w, s) + balance - owed /\ Invested(w, s) \in Nat
  BY <1>2, EquityIs
<1>4. equity(x, s) = Invested(x, s) + balance - owed /\ Invested(x, s) \in Nat
  BY <1>1, <1>2, EquityIs, SameSweep
<1> QED
  BY <1>3, <1>4

\* Both assets' shares, before and after, as what they are worth.
LEMMA SharesLeft ==
    ASSUME NEW w, GoodWorld(w), NEW s \in Stabilizers, NEW k \in 0 .. w.token[s],
           NEW x, GoodWorld(x), SameBooks(w, x), x.token[s] = w.token[s] - k
    PROVE  /\ convertToAssets(w, w.token[s]) \in Nat /\ convertToAssets(x, x.token[s]) \in Nat
           /\ convertToAssets(w, k) \in Nat
           /\ convertToAssets(w, w.token[s]) =<
                 convertToAssets(x, x.token[s]) + convertToAssets(w, k) + 1
<1>1. /\ w \in Worlds /\ x \in Worlds /\ w.token[s] \in Nat /\ x.token[s] \in Nat
      /\ w.tokenPrice \in Nat \ {0} /\ k \in Nat
  BY WorldFields, StabFields DEF GoodWorld
<1>2. PICK price \in Nat \ {0}, left \in Nat :
         price = w.tokenPrice /\ price = x.tokenPrice /\ left = x.token[s]
  BY <1>1 DEF SameBooks
<1>3. w.token[s] = left + k
  BY <1>1, <1>2
<1>4. /\ InUSD(left + k, price, Unit) =< InUSD(left, price, Unit) + InUSD(k, price, Unit) + 1
      /\ InUSD(left, price, Unit) \in Nat /\ InUSD(k, price, Unit) \in Nat
      /\ InUSD(left + k, price, Unit) \in Nat
  BY <1>1, Units, Together
<1> QED
  BY <1>2, <1>3, <1>4 DEF convertToAssets, InUSD

LEMMA CoolsKeeps ==
    ASSUME NEW w, GoodWorld(w), NEW s \in Stabilizers, NEW x, GoodWorld(x), Cools(w, x, s),
           AssetOf[s] = "EthenaAsset", w.usdxPrice = Unit
    PROVE  equity(x, s) + 2 >= equity(w, s)
<1>1. PICK k \in 0 .. w.token[s] :
         Redeems(w, x, s, k, 0, w.claim[s].amount + convertToAssets(w, k))
  BY DEF Cools
<1>2. SameBooks(w, x) /\ x.sweep = w.sweep /\ x.token[s] = w.token[s] - k
  BY <1>1 DEF Redeems
<1>3. PICK held \in Nat, left \in Nat, more \in Nat, c \in Nat, cash \in Nat :
         /\ held = convertToAssets(w, w.token[s]) /\ left = convertToAssets(x, x.token[s])
         /\ more = convertToAssets(w, k) /\ c = w.claim[s].amount /\ cash = w.usdx[s]
         /\ held =< left + more + 1
  BY <1>2, SharesLeft, StabFields DEF GoodWorld
<1>4. x.claim[s].amount = c + more /\ x.usdx[s] = cash
  BY <1>1, <1>3 DEF Redeems
<1>5. Invested(w, s) = held \div Scale + cash + c \div Scale
  BY <1>3, AtPar, DivNat, Units DEF Invested, AssetValue, EthenaValue
<1>6. Invested(x, s) = left \div Scale + cash + (c + more) \div Scale
  BY <1>2, <1>3, <1>4, AtPar, DivNat, Units DEF Invested, AssetValue, EthenaValue, SameBooks
<1>7. /\ held \div Scale \in Nat /\ left \div Scale \in Nat
      /\ c \div Scale \in Nat /\ (c + more) \div Scale \in Nat
      /\ held \div Scale + c \div Scale =< left \div Scale + (c + more) \div Scale + 2
  BY <1>3, Units, CooledDown
<1>8. Invested(x, s) + 2 >= Invested(w, s)
  BY <1>5, <1>6, <1>7
<1> QED
  BY <1>2, <1>8, RedeemedEquity

LEMMA CollectsKeeps ==
    ASSUME NEW w, GoodWorld(w), NEW s \in Stabilizers, NEW x, GoodWorld(x),
           Collects(w, x, s, 0), AssetOf[s] = "EthenaAsset", w.usdxPrice = Unit
    PROVE  equity(x, s) + 2 >= equity(w, s)
<1>1. PICK k \in 0 .. w.token[s], got \in Nat :
        /\ got >= subBasisPoints(w.claim[s].amount + convertToAssets(w, k), 0) \div Scale
        /\ Redeems(w, x, s, k, got, 0)
  BY DEF Collects
<1>2. SameBooks(w, x) /\ x.sweep = w.sweep /\ x.token[s] = w.token[s] - k
  BY <1>1 DEF Redeems
<1>3. PICK held \in Nat, left \in Nat, more \in Nat, c \in Nat, cash \in Nat :
         /\ held = convertToAssets(w, w.token[s]) /\ left = convertToAssets(x, x.token[s])
         /\ more = convertToAssets(w, k) /\ c = w.claim[s].amount /\ cash = w.usdx[s]
         /\ held =< left + more + 1
  BY <1>2, SharesLeft, StabFields DEF GoodWorld
<1>4. x.claim[s].amount = 0 /\ x.usdx[s] = cash + got
  BY <1>1, <1>3 DEF Redeems
<1>5. Invested(w, s) = held \div Scale + cash + c \div Scale
  BY <1>3, AtPar, DivNat, Units DEF Invested, AssetValue, EthenaValue
<1>6. Invested(x, s) = left \div Scale + cash + got
  <2>1. 0 \div Scale = 0
    BY Units
  <2> QED
    BY <1>2, <1>3, <1>4, <2>1, AtPar, DivNat, Units DEF Invested, AssetValue, EthenaValue, SameBooks
<1>7. /\ held \div Scale \in Nat /\ left \div Scale \in Nat
      /\ c \div Scale \in Nat /\ (c + more) \div Scale \in Nat
      /\ held \div Scale + c \div Scale =< left \div Scale + (c + more) \div Scale + 2
  BY <1>3, Units, CooledDown
<1>8. got >= (c + more) \div Scale
  <2>1. PICK usde \in Nat : usde = c + more
    OBVIOUS
  <2>2. subBasisPoints(usde, 0) = usde
    <3>1. usde * (Precision - 0) = Precision * usde /\ Precision * usde \in Int
      BY Units
    <3>2. /\ (Precision * usde) \div Precision =< usde
          /\ usde =< (Precision * usde) \div Precision
          /\ (Precision * usde) \div Precision \in Int
      BY <3>1, Units, Rounded, QuotientAtLeast, QuotientAtMost
    <3> QED
      BY <3>1, <3>2 DEF subBasisPoints
  <2> QED
    BY <1>1, <1>3, <2>1, <2>2
<1>9. Invested(x, s) + 2 >= Invested(w, s)
  BY <1>5, <1>6, <1>7, <1>8
<1> QED
  BY <1>2, <1>9, RedeemedEquity

LEMMA LocksKeeps ==
    ASSUME NEW w, GoodWorld(w), NEW s \in Stabilizers, NEW x, GoodWorld(x), Locks(w, x, s),
           AssetOf[s] = "MapleAsset", w.usdxPrice = Unit
    PROVE  equity(x, s) + 2 >= equity(w, s)
<1>1. PICK k \in 0 .. w.token[s] : Redeems(w, x, s, k, 0, w.claim[s].amount + k)
  BY DEF Locks
<1>2. SameBooks(w, x) /\ x.sweep = w.sweep /\ x.token[s] = w.token[s] - k
  BY <1>1 DEF Redeems
<1>3. PICK held \in Nat, left \in Nat, more \in Nat, c \in Nat, cash \in Nat :
         /\ held = convertToAssets(w, w.token[s]) /\ left = convertToAssets(x, x.token[s])
         /\ more = convertToAssets(w, k) /\ c = w.claim[s].amount /\ cash = w.usdx[s]
         /\ held =< left + more + 1
  BY <1>2, SharesLeft, StabFields DEF GoodWorld
<1>4. x.claim[s].amount = c + k /\ x.usdx[s] = cash
  BY <1>1, <1>3 DEF Redeems
<1>5. PICK price \in Nat \ {0} : price = w.tokenPrice /\ price = x.tokenPrice
  BY <1>2, WorldFields DEF GoodWorld, SameBooks
<1>6. /\ InUSD(c, price, Unit) \in Nat /\ InUSD(c + k, price, Unit) \in Nat
      /\ InUSD(c, price, Unit) + InUSD(k, price, Unit) =< InUSD(c + k, price, Unit)
  <2>1. k \in Nat
    OBVIOUS
  <2> QED
    BY <2>1, Units, Together
<1>7. more = InUSD(k, price, Unit)
  BY <1>3, <1>5 DEF convertToAssets, InUSD
<1>8. Invested(w, s) = held + InUSD(c, price, Unit) + cash
  BY <1>3, <1>5, <1>6, AtPar DEF Invested, AssetValue, MapleValue, VaultValue, convertToAssets, InUSD
<1>9. Invested(x, s) = left + InUSD(c + k, price, Unit) + cash
  BY <1>2, <1>3, <1>4, <1>5, <1>6, AtPar DEF Invested, AssetValue, MapleValue, VaultValue, convertToAssets, InUSD, SameBooks
<1>10. Invested(x, s) + 2 >= Invested(w, s)
  BY <1>3, <1>6, <1>7, <1>8, <1>9
<1> QED
  BY <1>2, <1>10, RedeemedEquity

LEMMA PaysOutKeeps ==
    ASSUME NEW w, GoodWorld(w), NEW s \in Stabilizers, NEW x, GoodWorld(x), PaysOut(w, x, s),
           AssetOf[s] = "MapleAsset", w.usdxPrice = Unit
    PROVE  equity(x, s) + 2 >= equity(w, s)
<1>1. PICK k \in 0 .. w.claim[s].amount :
         Redeems(w, x, s, 0, convertToAssets(w, k), w.claim[s].amount - k)
  BY DEF PaysOut
<1>2. SameBooks(w, x) /\ x.sweep = w.sweep /\ x.token[s] = w.token[s] - 0
  BY <1>1 DEF Redeems
<1>3. PICK held \in Nat, c \in Nat, cash \in Nat, price \in Nat \ {0} :
         /\ held = convertToAssets(w, w.token[s]) /\ c = w.claim[s].amount
         /\ cash = w.usdx[s] /\ price = w.tokenPrice
  BY WorldFields, StabFields, Conversions DEF GoodWorld
<1>4. PICK rest \in Nat : rest = c - k
  BY <1>3
<1>5. /\ x.claim[s].amount = rest /\ x.usdx[s] = cash + InUSD(k, price, Unit)
      /\ x.tokenPrice = price /\ x.token[s] = w.token[s]
  <2>1. w.token[s] \in Nat
    BY StabFields DEF GoodWorld
  <2> QED
    BY <1>1, <1>2, <1>3, <1>4, <2>1 DEF Redeems, convertToAssets, InUSD, SameBooks
<1>6. /\ InUSD(k, price, Unit) \in Nat /\ InUSD(rest, price, Unit) \in Nat
      /\ InUSD(c, price, Unit) \in Nat
      /\ InUSD(c, price, Unit) =< InUSD(k, price, Unit) + InUSD(rest, price, Unit) + 1
  <2>1. c = k + rest /\ k \in Nat
    BY <1>3, <1>4
  <2> QED
    BY <2>1, Units, Together
<1>7. Invested(w, s) = held + InUSD(c, price, Unit) + cash
  BY <1>3, <1>6, AtPar DEF Invested, AssetValue, MapleValue, VaultValue, convertToAssets, InUSD
<1>8. Invested(x, s) = held + InUSD(rest, price, Unit) + (cash + InUSD(k, price, Unit))
  BY <1>2, <1>3, <1>5, <1>6, AtPar DEF Invested, AssetValue, MapleValue, VaultValue, convertToAssets, InUSD, SameBooks
<1>9. Invested(x, s) + 2 >= Invested(w, s)
  BY <1>6, <1>7, <1>8
<1> QED
  BY <1>2, <1>9, RedeemedEquity

-------------------------------------------------------------------------------
(* What a step gains *)

\* The equity of s grows by n at most, where pools are fair and a usdx is worth a dollar.
Gains(w, x, s, n) ==
    x.usdxPrice = w.usdxPrice /\ (Fair(w) => equity(x, s) =< equity(w, s) + n)

LEMMA GainsTwice ==
    ASSUME NEW w, GoodWorld(w), NEW x, GoodWorld(x), NEW y, GoodWorld(y),
           NEW s \in Stabilizers, NEW m \in Nat, NEW n \in Nat,
           Gains(w, x, s, m), Gains(x, y, s, n)
    PROVE  Gains(w, y, s, m + n)
<1>1. x.usdxPrice = w.usdxPrice /\ y.usdxPrice = w.usdxPrice
  BY DEF Gains
<1>2. CASE Fair(w)
  <2>1. Fair(x) /\ w.usdxPrice = Unit /\ x.usdxPrice = Unit /\ y.usdxPrice = Unit
    BY <1>1, <1>2 DEF Fair
  <2>2. equity(x, s) =< equity(w, s) + m /\ equity(y, s) =< equity(x, s) + n
    BY <1>2, <2>1 DEF Gains
  <2>3. equity(w, s) \in Int /\ equity(x, s) \in Int /\ equity(y, s) \in Int
    BY <2>1, EquityIs
  <2> QED
    BY <1>1, <2>2, <2>3 DEF Gains
<1> QED
  BY <1>1, <1>2 DEF Gains

LEMMA GainsMore ==
    ASSUME NEW w, GoodWorld(w), NEW x, GoodWorld(x), NEW s \in Stabilizers,
           NEW m \in Nat, NEW n \in Nat, m =< n, Gains(w, x, s, m)
    PROVE  Gains(w, x, s, n)
<1>1. CASE Fair(w)
  <2>1. equity(w, s) \in Int /\ equity(x, s) \in Int
    BY <1>1, EquityIs DEF Fair, Gains
  <2> QED
    BY <1>1, <2>1 DEF Gains
<1> QED
  BY <1>1 DEF Gains

LEMMA GainsNone ==
    ASSUME NEW w, GoodWorld(w), NEW s \in Stabilizers
    PROVE  Gains(w, w, s, 0) /\ Gains(w, w, s, 1)
<1>1. CASE Fair(w)
  <2>1. equity(w, s) \in Int
    BY <1>1, EquityIs DEF Fair
  <2> QED
    BY <2>1 DEF Gains
<1> QED
  BY <1>1 DEF Gains

\* What is held is all that changes.
LEMMA HoldingsGain ==
    ASSUME NEW w, GoodWorld(w), NEW x, GoodWorld(x), NEW s \in Stabilizers, NEW n \in Nat,
           SameBooks(w, x), x.sweep = w.sweep,
           Fair(w) => Invested(x, s) =< Invested(w, s) + n
    PROVE  Gains(w, x, s, n)
<1>1. x.usdxPrice = w.usdxPrice
  BY DEF SameBooks
<1>2. CASE Fair(w)
  <2>1. w.usdxPrice = Unit /\ x.usdxPrice = Unit
    BY <1>1, <1>2 DEF Fair
  <2>2. PICK balance \in Nat, owed \in Nat :
           balance = convertToUSD(w, w.sweep.balanceOf[s]) /\ owed = convertToUSD(w, getDebt(w, s))
    BY <2>1, EquityIs
  <2>3. equity(w, s) = Invested(w, s) + balance - owed /\ Invested(w, s) \in Nat
    BY <2>1, <2>2, EquityIs
  <2>4. equity(x, s) = Invested(x, s) + balance - owed /\ Invested(x, s) \in Nat
    BY <2>1, <2>2, EquityIs, SameSweep
  <2> QED
    BY <1>1, <1>2, <2>3, <2>4 DEF Gains
<1> QED
  BY <1>1, <1>2 DEF Gains

\* What is invested, asset by asset, when a usdx is worth a dollar.
LEMMA InvestedAtPar ==
    ASSUME NEW w, GoodWorld(w), NEW s \in Stabilizers, w.usdxPrice = Unit
    PROVE  /\ AssetOf[s] \in {"ERC20Asset", "ERC4626Asset"} =>
                 Invested(w, s) = InUSD(w.token[s], w.tokenPrice, Unit) + w.usdx[s]
           /\ AssetOf[s] = "MapleAsset" =>
                 Invested(w, s) = InUSD(w.token[s], w.tokenPrice, Unit) + w.usdx[s]
                                      + InUSD(w.claim[s].amount, w.tokenPrice, Unit)
           /\ AssetOf[s] = "EthenaAsset" =>
                 Invested(w, s) = InUSD(w.token[s], w.tokenPrice, Unit) \div Scale + w.usdx[s]
                                      + w.claim[s].amount \div Scale
           /\ AssetOf[s] = "OffChainAsset" =>
                 Invested(w, s) = w.off[s].actualValue + w.usdx[s]
<1>1. /\ w \in Worlds /\ w.token[s] \in Nat /\ w.usdx[s] \in Nat
      /\ w.claim[s].amount \in Nat /\ w.off[s].actualValue \in Nat
  BY StabFields DEF GoodWorld
<1>2. PICK held \in Nat, locked \in Nat :
         /\ held = InUSD(w.token[s], w.tokenPrice, Unit) /\ held = convertToAssets(w, w.token[s])
         /\ locked = InUSD(w.claim[s].amount, w.tokenPrice, Unit)
         /\ locked = convertToAssets(w, w.claim[s].amount)
  BY <1>1, Conversions DEF convertToAssets, InUSD
<1>3. held \div Scale \in Nat /\ TokenValue(w, s) = held
  BY <1>2, Units, DivNat DEF TokenValue, convertToAssets
<1>4. /\ oracleUsdxToUsd(w, held) = held /\ oracleUsdxToUsd(w, held \div Scale) = held \div Scale
      /\ oracleUsdxToUsd(w, w.off[s].actualValue) = w.off[s].actualValue
  BY <1>1, <1>3, AtPar
<1>5. /\ AssetOf[s] \in {"ERC20Asset", "ERC4626Asset"} => AssetValue(w, s) = held
      /\ AssetOf[s] = "MapleAsset" => AssetValue(w, s) = held + locked
      /\ AssetOf[s] = "EthenaAsset" => AssetValue(w, s) = held \div Scale
      /\ AssetOf[s] = "OffChainAsset" => AssetValue(w, s) = w.off[s].actualValue
  BY <1>2, <1>3, <1>4 DEF AssetValue, VaultValue, MapleValue, EthenaValue, OffChainValue
<1>6. Invested(w, s) = AssetValue(w, s) + w.usdx[s]
                        + (IF AssetOf[s] = "EthenaAsset" THEN w.claim[s].amount \div Scale ELSE 0)
  BY DEF Invested
<1>7. PICK cash \in Nat, claimed \in Nat, part \in Nat, away \in Nat :
         /\ cash = w.usdx[s] /\ claimed = w.claim[s].amount \div Scale
         /\ part = held \div Scale /\ away = w.off[s].actualValue
  BY <1>1, <1>3, Units, DivNat
<1>8. CASE AssetOf[s] \in {"ERC20Asset", "ERC4626Asset"}
  <2>1. Invested(w, s) = held + cash
    BY <1>5, <1>6, <1>7, <1>8
  <2> QED
    BY <1>2, <1>7, <1>8, <2>1
<1>9. CASE AssetOf[s] = "MapleAsset"
  <2>1. Invested(w, s) = held + cash + locked
    BY <1>5, <1>6, <1>7, <1>9
  <2> QED
    BY <1>2, <1>7, <1>9, <2>1
<1>10. CASE AssetOf[s] = "EthenaAsset"
  <2>1. Invested(w, s) = part + cash + claimed
    BY <1>5, <1>6, <1>7, <1>10
  <2> QED
    BY <1>2, <1>7, <1>10, <2>1
<1>11. CASE AssetOf[s] = "OffChainAsset"
  <2>1. Invested(w, s) = away + cash
    BY <1>5, <1>6, <1>7, <1>11
  <2> QED
    BY <1>7, <1>11, <2>1
<1> QED
  BY <1>8, <1>9, <1>10, <1>11

\* Buying for no more, and selling for no less, than the price.
LEMMA BoughtFair ==
    ASSUME NEW a \in Nat, NEW got \in Nat, NEW cost \in Nat, NEW price \in Nat \ {0},
           NEW unit \in Nat \ {0}, got * price =< cost * unit
    PROVE  /\ InUSD(a, price, unit) \in Nat /\ InUSD(a + got, price, unit) \in Nat
           /\ InUSD(a + got, price, unit) =< InUSD(a, price, unit) + cost
<1>1. PICK x \in Nat, y \in Nat : x = a * price /\ y = got * price
  OBVIOUS
<1>2. (a + got) * price = x + y
  BY <1>1
<1>3. unit * cost \in Nat /\ unit * cost = cost * unit
  OBVIOUS
<1>4. PICK z \in Nat : z = unit * cost
  BY <1>3
<1>5. x + y =< x + z
  BY <1>1, <1>3, <1>4
<1>6. (x + y) \div unit =< (x + z) \div unit
  BY <1>5, Divided
<1>7. (x + z) \div unit = x \div unit + cost
  <2>1. x \in Int /\ cost \in Int
    OBVIOUS
  <2>2. (x + unit * cost) \div unit = x \div unit + cost
    BY <2>1, QuotientOfMultiple
  <2> QED
    BY <1>4, <2>2
<1>8. x \div unit \in Nat /\ (x + y) \div unit \in Nat
  BY DivNat
<1> QED
  BY <1>1, <1>2, <1>6, <1>7, <1>8 DEF InUSD

LEMMA SoldFair ==
    ASSUME NEW left \in Nat, NEW sold \in Nat, NEW got \in Nat, NEW price \in Nat \ {0},
           NEW unit \in Nat \ {0}, got * unit =< sold * price
    PROVE  /\ InUSD(left, price, unit) \in Nat /\ InUSD(left + sold, price, unit) \in Nat
           /\ InUSD(left, price, unit) + got =< InUSD(left + sold, price, unit)
<1>1. PICK x \in Nat, y \in Nat : x = left * price /\ y = sold * price
  OBVIOUS
<1>2. (left + sold) * price = x + y
  BY <1>1
<1>3. unit * got \in Nat /\ unit * got = got * unit
  OBVIOUS
<1>4. PICK z \in Nat : z = unit * got
  BY <1>3
<1>5. x + z =< x + y
  BY <1>1, <1>3, <1>4
<1>6. (x + z) \div unit =< (x + y) \div unit
  BY <1>5, Divided
<1>7. (x + z) \div unit = x \div unit + got
  <2>1. x \in Int /\ got \in Int
    OBVIOUS
  <2>2. (x + unit * got) \div unit = x \div unit + got
    BY <2>1, QuotientOfMultiple
  <2> QED
    BY <1>4, <2>2
<1>8. x \div unit \in Nat /\ (x + y) \div unit \in Nat
  BY DivNat
<1> QED
  BY <1>1, <1>2, <1>6, <1>7, <1>8 DEF InUSD

\* What s holds, before and after a step at the same prices.
LEMMA Prices ==
    ASSUME NEW w, GoodWorld(w), NEW x, GoodWorld(x), SameBooks(w, x), NEW s \in Stabilizers,
           w.usdxPrice = Unit
    PROVE  /\ w.tokenPrice \in Nat \ {0} /\ x.tokenPrice = w.tokenPrice /\ x.usdxPrice = Unit
           /\ w.token[s] \in Nat /\ w.usdx[s] \in Nat /\ w.claim[s].amount \in Nat
           /\ x.token[s] \in Nat /\ x.usdx[s] \in Nat /\ x.claim[s].amount \in Nat
  BY WorldFields, StabFields DEF GoodWorld, SameBooks

LEMMA BuysGain ==
    ASSUME NEW w, GoodWorld(w), NEW x, GoodWorld(x), NEW s \in Stabilizers, Buys(w, x, s, 1),
           AssetOf[s] \in {"ERC20Asset", "ERC4626Asset", "MapleAsset"}
    PROVE  Gains(w, x, s, 0)
<1>1. SameBooks(w, x) /\ x.sweep = w.sweep /\ x.claim = w.claim
  BY DEF Buys
<1>2. ASSUME Fair(w)
      PROVE  Invested(x, s) =< Invested(w, s) + 0
  <2>1. PICK paid \in Nat, got \in Nat :
           /\ x.usdx[s] = w.usdx[s] - paid /\ x.token[s] = w.token[s] + got
           /\ got * w.tokenPrice =< paid * 1 * Unit
    BY <1>2 DEF Buys
  <2>2. w.usdxPrice = Unit /\ paid * 1 = paid
    BY <1>2 DEF Fair
  <2>3. PICK price \in Nat \ {0}, a \in Nat, cash \in Nat, c \in Nat :
           /\ price = w.tokenPrice /\ a = w.token[s] /\ cash = w.usdx[s]
           /\ c = w.claim[s].amount /\ price = x.tokenPrice /\ x.usdxPrice = Unit
    BY <1>1, <2>2, Prices
  <2>4. /\ InUSD(a, price, Unit) \in Nat /\ InUSD(a + got, price, Unit) \in Nat
        /\ InUSD(a + got, price, Unit) =< InUSD(a, price, Unit) + paid
    BY <2>1, <2>2, <2>3, Units, BoughtFair
  <2>5. InUSD(c, price, Unit) \in Nat
    BY <2>3, Units, Together
  <2>6. x.usdx[s] = cash - paid /\ x.token[s] = a + got /\ x.claim[s].amount = c
    BY <1>1, <2>1, <2>3
  <2>7. CASE AssetOf[s] \in {"ERC20Asset", "ERC4626Asset"}
    <3>1. /\ Invested(w, s) = InUSD(a, price, Unit) + cash
          /\ Invested(x, s) = InUSD(a + got, price, Unit) + (cash - paid)
      BY <2>2, <2>3, <2>6, <2>7, InvestedAtPar
    <3> QED
      BY <2>4, <3>1
  <2>8. CASE AssetOf[s] = "MapleAsset"
    <3>1. /\ Invested(w, s) = InUSD(a, price, Unit) + cash + InUSD(c, price, Unit)
          /\ Invested(x, s) = InUSD(a + got, price, Unit) + (cash - paid) + InUSD(c, price, Unit)
      BY <2>2, <2>3, <2>6, <2>8, InvestedAtPar
    <3> QED
      BY <2>4, <2>5, <3>1
  <2> QED
    BY <2>7, <2>8
<1> QED
  BY <1>1, <1>2, HoldingsGain, 0 \in Nat

\* USDe is staked, and Scale parts of it are a part of usdx.
LEMMA StakesGain ==
    ASSUME NEW w, GoodWorld(w), NEW x, GoodWorld(x), NEW s \in Stabilizers,
           Buys(w, x, s, Scale), AssetOf[s] = "EthenaAsset"
    PROVE  Gains(w, x, s, 0)
<1>1. SameBooks(w, x) /\ x.sweep = w.sweep /\ x.claim = w.claim
  BY DEF Buys
<1>2. ASSUME Fair(w)
      PROVE  Invested(x, s) =< Invested(w, s) + 0
  <2>1. PICK paid \in Nat, got \in Nat :
           /\ x.usdx[s] = w.usdx[s] - paid /\ x.token[s] = w.token[s] + got
           /\ got * w.tokenPrice =< paid * Scale * Unit
    BY <1>2 DEF Buys
  <2>2. w.usdxPrice = Unit
    BY <1>2 DEF Fair
  <2>3. PICK price \in Nat \ {0}, a \in Nat, cash \in Nat, c \in Nat :
           /\ price = w.tokenPrice /\ a = w.token[s] /\ cash = w.usdx[s]
           /\ c = w.claim[s].amount /\ price = x.tokenPrice /\ x.usdxPrice = Unit
    BY <1>1, <2>2, Prices
  <2>4. PICK usde \in Nat : usde = paid * Scale
    BY Units
  <2>5. PICK before \in Nat, after \in Nat :
           /\ before = InUSD(a, price, Unit) /\ after = InUSD(a + got, price, Unit)
           /\ after =< before + usde
    <3>1. got * price =< usde * Unit
      BY <2>1, <2>3, <2>4
    <3>2. /\ InUSD(a, price, Unit) \in Nat /\ InUSD(a + got, price, Unit) \in Nat
          /\ InUSD(a + got, price, Unit) =< InUSD(a, price, Unit) + usde
      BY <3>1, Units, BoughtFair
    <3> QED
      BY <3>2
  <2>6. x.usdx[s] = cash - paid /\ x.token[s] = a + got /\ x.claim[s].amount = c
    BY <1>1, <2>1, <2>3
  <2>7. PICK b \in Nat, e \in Nat, claimed \in Nat :
           b = before \div Scale /\ e = after \div Scale /\ claimed = c \div Scale
    BY Units, DivNat
  <2>8. e =< b + paid
    <3>1. after \div Scale =< (before + usde) \div Scale
      BY <2>5, Units, Divided
    <3>2. usde = Scale * paid /\ before \in Int /\ paid \in Int
      BY <2>4, Units
    <3>3. (before + Scale * paid) \div Scale = before \div Scale + paid
      BY <3>2, Units, QuotientOfMultiple
    <3> QED
      BY <2>7, <3>1, <3>2, <3>3
  <2>9. Invested(w, s) = b + cash + claimed
    BY <2>2, <2>3, <2>5, <2>7, InvestedAtPar
  <2>10. Invested(x, s) = e + (cash - paid) + claimed
    BY <2>3, <2>5, <2>6, <2>7, InvestedAtPar
  <2> QED
    BY <2>8, <2>9, <2>10
<1> QED
  BY <1>1, <1>2, HoldingsGain, 0 \in Nat

LEMMA SellsGain ==
    ASSUME NEW w, GoodWorld(w), NEW x, GoodWorld(x), NEW s \in Stabilizers, Sells(w, x, s),
           AssetOf[s] \in {"ERC20Asset", "ERC4626Asset"}
    PROVE  Gains(w, x, s, 0)
<1>1. SameBooks(w, x) /\ x.sweep = w.sweep
  BY DEF Sells
<1>2. ASSUME Fair(w)
      PROVE  Invested(x, s) =< Invested(w, s) + 0
  <2>1. PICK sold \in Nat, got \in Nat :
           /\ x.token[s] = w.token[s] - sold /\ x.usdx[s] = w.usdx[s] + got
           /\ got * Unit =< sold * w.tokenPrice
    BY <1>2 DEF Sells
  <2>2. w.usdxPrice = Unit
    BY <1>2 DEF Fair
  <2>3. PICK price \in Nat \ {0}, left \in Nat, cash \in Nat :
           /\ price = w.tokenPrice /\ left = x.token[s] /\ cash = w.usdx[s]
           /\ price = x.tokenPrice /\ x.usdxPrice = Unit /\ w.token[s] \in Nat
    BY <1>1, <2>2, Prices
  <2>4. w.token[s] = left + sold /\ x.usdx[s] = cash + got
    BY <2>1, <2>3
  <2>5. /\ InUSD(left, price, Unit) \in Nat /\ InUSD(left + sold, price, Unit) \in Nat
        /\ InUSD(left, price, Unit) + got =< InUSD(left + sold, price, Unit)
    BY <2>1, <2>3, Units, SoldFair
  <2>6. /\ Invested(w, s) = InUSD(left + sold, price, Unit) + cash
        /\ Invested(x, s) = InUSD(left, price, Unit) + (cash + got)
    BY <2>2, <2>3, <2>4, InvestedAtPar
  <2> QED
    BY <2>5, <2>6
<1> QED
  BY <1>1, <1>2, HoldingsGain, 0 \in Nat

LEMMA SendsGain ==
    ASSUME NEW w, GoodWorld(w), NEW x, GoodWorld(x), NEW s \in Stabilizers, Sends(w, x, s),
           AssetOf[s] = "OffChainAsset"
    PROVE  Gains(w, x, s, 0)
<1>1. SameBooks(w, x) /\ x.usdxPrice = w.usdxPrice /\ x.targetPrice = w.targetPrice
  BY DEF Sends, SameBooks
<1>2. ASSUME Fair(w)
      PROVE  equity(x, s) =< equity(w, s) + 0
  <2>1. PICK usdxPaid \in Nat, sweepPaid \in Nat :
           /\ sweepPaid =< w.sweep.balanceOf[s]
           /\ x.usdx[s] = w.usdx[s] - usdxPaid
           /\ x.sweep.balanceOf[s] = w.sweep.balanceOf[s] - sweepPaid
           /\ x.off[s].actualValue =
                 w.off[s].actualValue + usdxPaid + convertToUSD(w, sweepPaid)
    BY DEF Sends
  <2>2. w.usdxPrice = Unit /\ x.usdxPrice = Unit
    BY <1>1, <1>2 DEF Fair
  <2>3. PICK away \in Nat, cash \in Nat, left \in Nat, price \in Nat \ {0} :
           /\ away = w.off[s].actualValue /\ cash = w.usdx[s]
           /\ left = x.sweep.balanceOf[s] /\ w.sweep.balanceOf[s] = left + sweepPaid
           /\ price = w.targetPrice
    <3>1. /\ w.off[s].actualValue \in Nat /\ w.usdx[s] \in Nat /\ w.sweep.balanceOf[s] \in Nat
          /\ x.sweep.balanceOf[s] \in Nat /\ w.targetPrice \in Nat \ {0}
      BY WorldFields, StabFields DEF GoodWorld
    <3>2. w.sweep.balanceOf[s] = x.sweep.balanceOf[s] + sweepPaid
      BY <2>1, <3>1
    <3> QED
      BY <3>1, <3>2
  <2>4. PICK unit \in Nat \ {0} : unit = Unit * Scale
    BY Units, MulPos
  <2>5. /\ InUSD(left, price, unit) \in Nat /\ InUSD(sweepPaid, price, unit) \in Nat
        /\ InUSD(left + sweepPaid, price, unit) \in Nat
        /\ InUSD(left, price, unit) + InUSD(sweepPaid, price, unit) =<
              InUSD(left + sweepPaid, price, unit)
    BY Together
  <2>6. /\ convertToUSD(w, w.sweep.balanceOf[s]) = InUSD(left + sweepPaid, price, unit)
        /\ convertToUSD(x, x.sweep.balanceOf[s]) = InUSD(left, price, unit)
        /\ convertToUSD(w, sweepPaid) = InUSD(sweepPaid, price, unit)
    BY <1>1, <2>3, <2>4 DEF convertToUSD, InUSD
  <2>7. PICK owed \in Nat : /\ owed = convertToUSD(w, getDebt(w, s))
                            /\ owed = convertToUSD(x, getDebt(x, s))
    <3>1. convertToUSD(x, getDebt(x, s)) = convertToUSD(w, getDebt(w, s))
      BY <1>1 DEF SameBooks, getDebt, accruedFee, convertToUSD
    <3> QED
      BY <2>2, <3>1, EquityIs
  <2>8. /\ Invested(w, s) = away + cash
        /\ Invested(x, s) = (away + usdxPaid + InUSD(sweepPaid, price, unit)) + (cash - usdxPaid)
    BY <2>1, <2>2, <2>3, <2>6, InvestedAtPar
  <2>9. /\ equity(w, s) = Invested(w, s) + InUSD(left + sweepPaid, price, unit) - owed
        /\ equity(x, s) = Invested(x, s) + InUSD(left, price, unit) - owed
    BY <2>2, <2>6, <2>7, EquityIs
  <2> QED
    BY <2>5, <2>8, <2>9
<1> QED
  BY <1>1, <1>2 DEF Gains

\* The other way round than CooledDown: in units of scale parts, what is left and what is
\* claimed is at most one more than what was.
LEMMA CooledUp ==
    ASSUME NEW held \in Nat, NEW left \in Nat, NEW more \in Nat, NEW c \in Nat,
           NEW scale \in Nat \ {0}, left + more =< held
    PROVE  /\ held \div scale \in Nat /\ left \div scale \in Nat
           /\ c \div scale \in Nat /\ (c + more) \div scale \in Nat
           /\ left \div scale + (c + more) \div scale =< held \div scale + c \div scale + 1
<1>1. left \div scale + more \div scale =< (left + more) \div scale
  BY QuotientOfSum
<1>2. (left + more) \div scale =< held \div scale
  BY Divided
<1>3. (c + more) \div scale =< c \div scale + more \div scale + 1
  BY QuotientOfSum
<1>4. /\ held \div scale \in Nat /\ left \div scale \in Nat /\ c \div scale \in Nat
      /\ more \div scale \in Nat /\ (c + more) \div scale \in Nat
      /\ (left + more) \div scale \in Nat
  BY DivNat
<1> QED
  BY <1>1, <1>2, <1>3, <1>4

\* What s redeems is worth no more than it was; all of it at the price of one share.
LEMMA SharesApart ==
    ASSUME NEW w, GoodWorld(w), NEW s \in Stabilizers, NEW k \in 0 .. w.token[s],
           NEW x, GoodWorld(x), SameBooks(w, x), x.token[s] = w.token[s] - k,
           w.usdxPrice = Unit
    PROVE  /\ InUSD(w.token[s], w.tokenPrice, Unit) \in Nat
           /\ InUSD(x.token[s], x.tokenPrice, Unit) \in Nat
           /\ InUSD(k, w.tokenPrice, Unit) \in Nat
           /\ convertToAssets(w, k) = InUSD(k, w.tokenPrice, Unit)
           /\ InUSD(x.token[s], x.tokenPrice, Unit) + InUSD(k, w.tokenPrice, Unit) =<
                  InUSD(w.token[s], w.tokenPrice, Unit)
<1>1. PICK price \in Nat \ {0}, rest \in Nat :
         /\ price = w.tokenPrice /\ price = x.tokenPrice /\ rest = x.token[s]
         /\ w.token[s] \in Nat
  BY Prices
<1>2. k \in Nat /\ w.token[s] = rest + k
  BY <1>1
<1>3. /\ InUSD(rest, price, Unit) \in Nat /\ InUSD(k, price, Unit) \in Nat
      /\ InUSD(rest + k, price, Unit) \in Nat
      /\ InUSD(rest, price, Unit) + InUSD(k, price, Unit) =< InUSD(rest + k, price, Unit)
  BY <1>2, Units, Together
<1>4. convertToAssets(w, k) = InUSD(k, price, Unit)
  BY <1>1 DEF convertToAssets, InUSD
<1> QED
  BY <1>1, <1>2, <1>3, <1>4

LEMMA CoolsGain ==
    ASSUME NEW w, GoodWorld(w), NEW x, GoodWorld(x), NEW s \in Stabilizers, Cools(w, x, s),
           AssetOf[s] = "EthenaAsset"
    PROVE  Gains(w, x, s, 1)
<1>1. PICK k \in 0 .. w.token[s] :
         Redeems(w, x, s, k, 0, w.claim[s].amount + convertToAssets(w, k))
  BY DEF Cools
<1>2. SameBooks(w, x) /\ x.sweep = w.sweep /\ x.token[s] = w.token[s] - k
  BY <1>1 DEF Redeems
<1>3. ASSUME Fair(w)
      PROVE  Invested(x, s) =< Invested(w, s) + 1
  <2>1. w.usdxPrice = Unit
    BY <1>3 DEF Fair
  <2>2. x.usdxPrice = Unit /\ w.usdx[s] \in Nat /\ w.claim[s].amount \in Nat
    BY <1>2, <2>1, Prices
  <2>3. PICK held, left, more \in Nat :
           /\ held = InUSD(w.token[s], w.tokenPrice, Unit)
           /\ left = InUSD(x.token[s], x.tokenPrice, Unit)
           /\ more = InUSD(k, w.tokenPrice, Unit) /\ more = convertToAssets(w, k)
           /\ left + more =< held
    <3>1. /\ InUSD(w.token[s], w.tokenPrice, Unit) \in Nat
          /\ InUSD(x.token[s], x.tokenPrice, Unit) \in Nat
          /\ InUSD(k, w.tokenPrice, Unit) \in Nat
          /\ convertToAssets(w, k) = InUSD(k, w.tokenPrice, Unit)
          /\ InUSD(x.token[s], x.tokenPrice, Unit) + InUSD(k, w.tokenPrice, Unit) =<
                 InUSD(w.token[s], w.tokenPrice, Unit)
      BY <1>2, <2>1, SharesApart
    <3> QED
      BY <3>1
  <2>4. PICK cash \in Nat, c \in Nat : cash = w.usdx[s] /\ c = w.claim[s].amount
    BY <2>2
  <2>5. x.usdx[s] = cash /\ x.claim[s].amount = c + more
    BY <1>1, <2>3, <2>4 DEF Redeems
  <2>6. Invested(w, s) = held \div Scale + cash + c \div Scale
    BY <2>1, <2>3, <2>4, InvestedAtPar
  <2>7. Invested(x, s) = left \div Scale + cash + (c + more) \div Scale
    BY <2>2, <2>3, <2>5, InvestedAtPar
  <2>8. /\ held \div Scale \in Nat /\ left \div Scale \in Nat
        /\ c \div Scale \in Nat /\ (c + more) \div Scale \in Nat
        /\ left \div Scale + (c + more) \div Scale =< held \div Scale + c \div Scale + 1
    BY <2>3, Units, CooledUp
  <2> QED
    BY <2>6, <2>7, <2>8
<1> QED
  BY <1>2, <1>3, HoldingsGain, 1 \in Nat

LEMMA CollectsGain ==
    ASSUME NEW w, GoodWorld(w), NEW x, GoodWorld(x), NEW s \in Stabilizers,
           NEW slippage, Collects(w, x, s, slippage), AssetOf[s] = "EthenaAsset"
    PROVE  Gains(w, x, s, 1)
<1>1. PICK k \in 0 .. w.token[s], got \in Nat :
        /\ got =< (w.claim[s].amount + convertToAssets(w, k)) \div Scale + Bonus
        /\ Redeems(w, x, s, k, got, 0)
  BY DEF Collects
<1>2. SameBooks(w, x) /\ x.sweep = w.sweep /\ x.token[s] = w.token[s] - k
  BY <1>1 DEF Redeems
<1>3. ASSUME Fair(w)
      PROVE  Invested(x, s) =< Invested(w, s) + 1
  <2>1. w.usdxPrice = Unit /\ Bonus = 0
    BY <1>3 DEF Fair
  <2>2. x.usdxPrice = Unit /\ w.usdx[s] \in Nat /\ w.claim[s].amount \in Nat
    BY <1>2, <2>1, Prices
  <2>3. PICK held, left, more \in Nat :
           /\ held = InUSD(w.token[s], w.tokenPrice, Unit)
           /\ left = InUSD(x.token[s], x.tokenPrice, Unit)
           /\ more = InUSD(k, w.tokenPrice, Unit) /\ more = convertToAssets(w, k)
           /\ left + more =< held
    <3>1. /\ InUSD(w.token[s], w.tokenPrice, Unit) \in Nat
          /\ InUSD(x.token[s], x.tokenPrice, Unit) \in Nat
          /\ InUSD(k, w.tokenPrice, Unit) \in Nat
          /\ convertToAssets(w, k) = InUSD(k, w.tokenPrice, Unit)
          /\ InUSD(x.token[s], x.tokenPrice, Unit) + InUSD(k, w.tokenPrice, Unit) =<
                 InUSD(w.token[s], w.tokenPrice, Unit)
      BY <1>2, <2>1, SharesApart
    <3> QED
      BY <3>1
  <2>4. PICK cash \in Nat, c \in Nat : cash = w.usdx[s] /\ c = w.claim[s].amount
    BY <2>2
  <2>5. x.usdx[s] = cash + got /\ x.claim[s].amount = 0
    BY <1>1, <2>4 DEF Redeems
  <2>6. Invested(w, s) = held \div Scale + cash + c \div Scale
    BY <2>1, <2>3, <2>4, InvestedAtPar
  <2>7. Invested(x, s) = left \div Scale + (cash + got)
    <3>1. 0 \div Scale = 0 /\ left \div Scale \in Nat
      BY Units, DivNat
    <3> QED
      BY <2>2, <2>3, <2>5, <3>1, InvestedAtPar
  <2>8. /\ held \div Scale \in Nat /\ left \div Scale \in Nat
        /\ c \div Scale \in Nat /\ (c + more) \div Scale \in Nat
        /\ left \div Scale + (c + more) \div Scale =< held \div Scale + c \div Scale + 1
    BY <2>3, Units, CooledUp
  <2>9. got =< (c + more) \div Scale
    BY <1>1, <2>1, <2>3, <2>4, <2>8
  <2> QED
    BY <2>6, <2>7, <2>8, <2>9
<1> QED
  BY <1>2, <1>3, HoldingsGain, 1 \in Nat

LEMMA LocksGain ==
    ASSUME NEW w, GoodWorld(w), NEW x, GoodWorld(x), NEW s \in Stabilizers, Locks(w, x, s),
           AssetOf[s] = "MapleAsset"
    PROVE  Gains(w, x, s, 1)
<1>1. PICK k \in 0 .. w.token[s] : Redeems(w, x, s, k, 0, w.claim[s].amount + k)
  BY DEF Locks
<1>2. SameBooks(w, x) /\ x.sweep = w.sweep /\ x.token[s] = w.token[s] - k
  BY <1>1 DEF Redeems
<1>3. ASSUME Fair(w)
      PROVE  Invested(x, s) =< Invested(w, s) + 1
  <2>1. w.usdxPrice = Unit
    BY <1>3 DEF Fair
  <2>2. PICK price \in Nat \ {0}, cash \in Nat, c \in Nat :
           /\ price = w.tokenPrice /\ price = x.tokenPrice /\ x.usdxPrice = Unit
           /\ cash = w.usdx[s] /\ c = w.claim[s].amount
    BY <1>2, <2>1, Prices
  <2>3. PICK held, left, more \in Nat :
           /\ held = InUSD(w.token[s], w.tokenPrice, Unit)
           /\ left = InUSD(x.token[s], x.tokenPrice, Unit)
           /\ more = InUSD(k, w.tokenPrice, Unit) /\ more = convertToAssets(w, k)
           /\ left + more =< held
    <3>1. /\ InUSD(w.token[s], w.tokenPrice, Unit) \in Nat
          /\ InUSD(x.token[s], x.tokenPrice, Unit) \in Nat
          /\ InUSD(k, w.tokenPrice, Unit) \in Nat
          /\ convertToAssets(w, k) = InUSD(k, w.tokenPrice, Unit)
          /\ InUSD(x.token[s], x.tokenPrice, Unit) + InUSD(k, w.tokenPrice, Unit) =<
                 InUSD(w.token[s], w.tokenPrice, Unit)
      BY <1>2, <2>1, SharesApart
    <3> QED
      BY <3>1
  <2>4. x.usdx[s] = cash /\ x.claim[s].amount = c + k
    BY <1>1, <2>2 DEF Redeems
  <2>5. PICK before \in Nat, after \in Nat :
           /\ before = InUSD(c, price, Unit) /\ after = InUSD(c + k, price, Unit)
           /\ after =< before + more + 1
    <3>1. k \in Nat
      OBVIOUS
    <3>2. /\ InUSD(c, price, Unit) \in Nat /\ InUSD(c + k, price, Unit) \in Nat
          /\ InUSD(c + k, price, Unit) =< InUSD(c, price, Unit) + InUSD(k, price, Unit) + 1
      BY <3>1, Units, Together
    <3> QED
      BY <2>2, <2>3, <3>2
  <2>6. Invested(w, s) = held + cash + before
    BY <2>1, <2>2, <2>3, <2>5, InvestedAtPar
  <2>7. Invested(x, s) = left + cash + after
    BY <2>2, <2>3, <2>4, <2>5, InvestedAtPar
  <2> QED
    BY <2>3, <2>5, <2>6, <2>7
<1> QED
  BY <1>2, <1>3, HoldingsGain, 1 \in Nat

LEMMA PaysOutGain ==
    ASSUME NEW w, GoodWorld(w), NEW x, GoodWorld(x), NEW s \in Stabilizers, PaysOut(w, x, s),
           AssetOf[s] = "MapleAsset"
    PROVE  Gains(w, x, s, 0)
<1>1. PICK k \in 0 .. w.claim[s].amount :
         Redeems(w, x, s, 0, convertToAssets(w, k), w.claim[s].amount - k)
  BY DEF PaysOut
<1>2. SameBooks(w, x) /\ x.sweep = w.sweep /\ x.token[s] = w.token[s] - 0
  BY <1>1 DEF Redeems
<1>3. ASSUME Fair(w)
      PROVE  Invested(x, s) =< Invested(w, s) + 0
  <2>1. w.usdxPrice = Unit
    BY <1>3 DEF Fair
  <2>2. PICK price \in Nat \ {0}, cash \in Nat, a \in Nat, rest \in Nat :
           /\ price = w.tokenPrice /\ price = x.tokenPrice /\ x.usdxPrice = Unit
           /\ cash = w.usdx[s] /\ a = w.token[s] /\ rest = x.claim[s].amount
           /\ w.claim[s].amount \in Nat
    BY <1>2, <2>1, Prices
  <2>3. /\ w.claim[s].amount = rest + k /\ k \in Nat /\ x.token[s] = a
        /\ x.usdx[s] = cash + convertToAssets(w, k)
    BY <1>1, <1>2, <2>2 DEF Redeems
  <2>4. PICK locked \in Nat, left \in Nat, paid \in Nat :
           /\ locked = InUSD(rest + k, price, Unit) /\ left = InUSD(rest, price, Unit)
           /\ paid = InUSD(k, price, Unit) /\ left + paid =< locked
    <3>1. Unit \in Nat \ {0}
      BY Units
    <3> QED
      BY <2>3, <3>1, Together
  <2>5. x.usdx[s] = cash + paid
    BY <2>2, <2>3, <2>4 DEF convertToAssets, InUSD
  <2>6. PICK held \in Nat : held = InUSD(a, price, Unit)
    BY Units, Together
  <2>7. Invested(w, s) = held + cash + locked
    BY <2>1, <2>2, <2>3, <2>4, <2>6, InvestedAtPar
  <2>8. Invested(x, s) = held + (cash + paid) + left
    BY <2>2, <2>3, <2>4, <2>5, <2>6, InvestedAtPar
  <2> QED
    BY <2>4, <2>7, <2>8
<1> QED
  BY <1>2, <1>3, HoldingsGain, 0 \in Nat

\* Investing and divesting.
LEMMA InvestGains ==
    ASSUME NEW w, GoodWorld(w), NEW s \in Stabilizers, NEW a \in Nat,
           NEW slippage \in 0 .. Precision, NEW x \in Invest(w, s, a, slippage)
    PROVE  Gains(w, x, s, 0)
<1>1. GoodWorld(x)
  BY InvestKept DEF Kept
<1>2. AssetOf[s] \in {"ERC20Asset", "OffChainAsset", "ERC4626Asset", "EthenaAsset", "MapleAsset"}
  BY AssetAssumption
<1>3. CASE AssetOf[s] = "ERC20Asset"
  BY <1>1, <1>3, TokenInvestKept, BuysGain DEF Invest
<1>4. CASE AssetOf[s] = "EthenaAsset"
  BY <1>1, <1>4, EthenaInvestKept, StakesGain DEF Invest
<1>5. CASE AssetOf[s] \in {"ERC4626Asset", "MapleAsset"}
  BY <1>1, <1>5, InvestDepositKept, BuysGain DEF Invest
<1>6. CASE AssetOf[s] = "OffChainAsset"
  BY <1>1, <1>6, OffChainInvestKept, SendsGain, 0 \in Nat DEF Invest
<1> QED
  BY <1>2, <1>3, <1>4, <1>5, <1>6

LEMMA DivestGains ==
    ASSUME NEW w, GoodWorld(w), NEW s \in Stabilizers, NEW a \in Nat,
           NEW slippage \in 0 .. Precision, NEW x \in Divest(w, s, a, slippage)
    PROVE  Gains(w, x, s, 1)
<1>1. GoodWorld(x)
  BY DivestKept DEF Kept
<1>2. AssetOf[s] \in {"ERC20Asset", "OffChainAsset", "ERC4626Asset", "EthenaAsset", "MapleAsset"}
  BY AssetAssumption
<1>3. CASE AssetOf[s] = "ERC20Asset"
  <2>1. Gains(w, x, s, 0)
    BY <1>1, <1>3, TokenDivestKept, SellsGain DEF Divest
  <2> QED
    BY <1>1, <2>1, GainsMore
<1>4. CASE AssetOf[s] = "ERC4626Asset"
  <2>1. Gains(w, x, s, 0)
    BY <1>1, <1>4, DivestWithdrawKept, SellsGain DEF Divest
  <2> QED
    BY <1>1, <2>1, GainsMore
<1>5. CASE AssetOf[s] = "EthenaAsset"
  BY <1>1, <1>5, EthenaDivestKept, CollectsGain DEF Divest
<1>6. CASE AssetOf[s] = "MapleAsset"
  <2>1. Gains(w, x, s, 0)
    BY <1>1, <1>6, MapleDivestKept, PaysOutGain DEF Divest
  <2> QED
    BY <1>1, <2>1, GainsMore
<1>7. CASE AssetOf[s] = "OffChainAsset"
  <2>1. Gains(w, x, s, 0)
    BY <1>1, <1>7, OffChainDivestKept, SendsGain DEF Divest
  <2> QED
    BY <1>1, <2>1, GainsMore
<1> QED
  BY <1>2, <1>3, <1>4, <1>5, <1>6, <1>7

-------------------------------------------------------------------------------
(* Swaps *)

LEMMA KeptSame ==
    ASSUME NEW w, GoodWorld(w)
    PROVE  Kept(w, w)
  BY DEF Kept

\* The usdx of s grows by cash and its SWEEP by coins, either of which may be negative.
Trades(w, x, s, cash, coins) ==
    /\ SameBooks(w, x) /\ x.token = w.token /\ x.off = w.off /\ x.claim = w.claim
    /\ x.usdx[s] = w.usdx[s] + cash
    /\ x.sweep.balanceOf[s] = w.sweep.balanceOf[s] + coins

\* A swap of usdx for SWEEP, and one back, for no more than they are worth.
BuysSweep(w, x, s) ==
    \E paid, out \in Nat :
        /\ Trades(w, x, s, - paid, out)
        /\ out =< convertToSWEEP(w, oracleUsdxToUsd(w, paid)) + Bonus

SellsSweep(w, x, s) ==
    \E paid, out \in Nat :
        /\ paid =< w.sweep.balanceOf[s] /\ Trades(w, x, s, out, - paid)
        /\ out =< oracleUsdToUsdx(w, convertToUSD(w, paid)) + Bonus

LEMMA BuyKept ==
    ASSUME NEW w, GoodWorld(w), NEW s \in Stabilizers, NEW a \in Nat,
           NEW slippage \in 0 .. Precision, NEW x \in Buy(w, s, a, slippage)
    PROVE  Kept(w, x) /\ SameBooks(w, x) /\ BuysSweep(w, x, s)
<1> DEFINE paid == Least(a, w.usdx[s])
           fair == convertToSWEEP(w, oracleUsdxToUsd(w, paid))
<1>1. x \in UNION {UNION {SweepTransfer(w1, Outside, s, out) :
                             out \in subBasisPoints(fair, slippage) .. fair + Bonus} :
                      w1 \in UsdxTransfer(w, s, Outside, paid)}
  BY Zenon DEF Buy, Then
<1>a. PICK w1 \in UsdxTransfer(w, s, Outside, paid) :
         x \in UNION {SweepTransfer(w1, Outside, s, out) :
                         out \in subBasisPoints(fair, slippage) .. fair + Bonus}
  BY <1>1, Zenon
<1>2. PICK out \in subBasisPoints(fair, slippage) .. fair + Bonus :
         x \in SweepTransfer(w1, Outside, s, out)
  BY <1>a, Zenon
<1>3. w \in Worlds /\ w.usdx[s] \in Nat
  BY StabFields DEF GoodWorld
<1>4. paid \in Nat
  BY <1>3, LeastNat
<1> HIDE DEF paid
<1>5. fair \in Nat
  <2>1. oracleUsdxToUsd(w, paid) \in Nat
    BY <1>3, <1>4, Conversions
  <2> QED
    BY <1>3, <2>1, Conversions
<1> HIDE DEF fair
<1>6. out \in Nat
  <2>1. subBasisPoints(fair, slippage) \in Nat
    BY <1>5, SlippageNat DEF subBasisPoints
  <2> QED
    BY <2>1
<1>7. GoodWorld(w1) /\ Kept(w, w1) /\ SameBooks(w, w1)
  BY <1>a, <1>4, Who, UsdxTransferGood, UsdxTransferKept
<1>8. Kept(w1, x) /\ SameBooks(w1, x)
  BY <1>2, <1>6, <1>7, Who, SweepTransferGood, SweepTransferKept
<1>9. Trades(w, x, s, - paid, out)
  <2>1. /\ w1.sweep = w.sweep /\ w1.token = w.token /\ w1.off = w.off /\ w1.claim = w.claim
        /\ w1.usdx = Moved(w.usdx, s, Outside, paid)
    BY <1>a, <1>4, Who, UsdxTransferGood
  <2>2. /\ x.usdx = w1.usdx /\ x.token = w1.token /\ x.off = w1.off /\ x.claim = w1.claim
        /\ x.sweep.balanceOf = Moved(w1.sweep.balanceOf, Outside, s, out)
    BY <1>2, <1>6, <1>7, Who, SweepTransferGood
  <2>3. PICK f \in [Accounts -> Nat], g \in [Accounts -> Nat] :
           f = w.usdx /\ g = w.sweep.balanceOf
    BY <1>3, WorldFields
  <2>4. /\ Moved(f, s, Outside, paid)[s] = f[s] - paid
        /\ Moved(g, Outside, s, out)[s] = g[s] + out
    BY <1>4, <1>6, MovedFrom
  <2>5. SameBooks(w, x) /\ f[s] \in Nat
    BY <1>7, <1>8, Who DEF SameBooks
  <2> QED
    BY <1>4, <2>1, <2>2, <2>3, <2>4, <2>5 DEF Trades
<1>10. BuysSweep(w, x, s)
  <2>1. out =< fair + Bonus
    BY <1>5, <1>6, Units, SlippageNat DEF subBasisPoints
  <2> QED
    BY <1>4, <1>6, <1>9, <2>1 DEF BuysSweep, fair
<1> QED
  BY <1>7, <1>8, <1>10, KeptTwice DEF SameBooks

\* What a sale brings is not below zero.
LEMMA SellKept ==
    ASSUME NEW w, GoodWorld(w), NEW s \in Stabilizers, NEW a \in Nat,
           NEW slippage \in 0 .. Precision, NEW x \in Sell(w, s, a, slippage)
    PROVE  Kept(w, x) /\ x.usdx[s] - w.usdx[s] \in Nat /\ SellsSweep(w, x, s)
<1> DEFINE paid == Least(a, w.sweep.balanceOf[s])
           fair == oracleUsdToUsdx(w, convertToUSD(w, paid))
<1>1. x \in UNION {UNION {UsdxTransfer(w1, Outside, s, out) :
                             out \in subBasisPoints(fair, slippage) .. fair + Bonus} :
                      w1 \in SweepTransfer(w, s, Outside, paid)}
  BY Zenon DEF Sell, Then
<1>a. PICK w1 \in SweepTransfer(w, s, Outside, paid) :
         x \in UNION {UsdxTransfer(w1, Outside, s, out) :
                         out \in subBasisPoints(fair, slippage) .. fair + Bonus}
  BY <1>1, Zenon
<1>2. PICK out \in subBasisPoints(fair, slippage) .. fair + Bonus :
         x \in UsdxTransfer(w1, Outside, s, out)
  BY <1>a, Zenon
<1>3. w \in Worlds /\ w.sweep.balanceOf[s] \in Nat
  BY StabFields DEF GoodWorld
<1>4. paid \in Nat /\ paid =< w.sweep.balanceOf[s]
  BY <1>3, LeastNat
<1> HIDE DEF paid
<1>5. fair \in Nat
  <2>1. convertToUSD(w, paid) \in Nat
    BY <1>3, <1>4, Conversions
  <2> QED
    BY <1>3, <2>1, Conversions
<1> HIDE DEF fair
<1>6. out \in Nat
  <2>1. subBasisPoints(fair, slippage) \in Nat
    BY <1>5, SlippageNat DEF subBasisPoints
  <2> QED
    BY <2>1
<1>7. GoodWorld(w1) /\ Kept(w, w1) /\ w1.usdx = w.usdx
  BY <1>a, <1>4, Who, SweepTransferGood, SweepTransferKept
<1>8. Kept(w1, x) /\ x.usdx = Moved(w1.usdx, Outside, s, out)
  BY <1>2, <1>6, <1>7, Who, UsdxTransferGood, UsdxTransferKept
<1>9. x.usdx[s] - w.usdx[s] \in Nat
  <2>1. PICK f \in [Accounts -> Nat] : f = w.usdx
    BY <1>3, WorldFields
  <2>2. Moved(f, Outside, s, out)[s] = f[s] + out
    BY <1>6, Who DEF Moved
  <2>3. f[s] \in Nat
    BY <2>1, Who
  <2> QED
    BY <1>6, <1>7, <1>8, <2>1, <2>2, <2>3
<1>10. Trades(w, x, s, out, - paid)
  <2>1. /\ w1.usdx = w.usdx /\ w1.token = w.token /\ w1.off = w.off /\ w1.claim = w.claim
        /\ SameBooks(w, w1) /\ w1.sweep.balanceOf = Moved(w.sweep.balanceOf, s, Outside, paid)
    BY <1>a, <1>4, Who, SweepTransferGood
  <2>2. /\ x.sweep = w1.sweep /\ x.token = w1.token /\ x.off = w1.off /\ x.claim = w1.claim
        /\ SameBooks(w1, x) /\ x.usdx = Moved(w1.usdx, Outside, s, out)
    BY <1>2, <1>6, <1>7, Who, UsdxTransferGood
  <2>3. PICK f \in [Accounts -> Nat], g \in [Accounts -> Nat] :
           f = w.usdx /\ g = w.sweep.balanceOf
    BY <1>3, WorldFields
  <2>4. /\ Moved(g, s, Outside, paid)[s] = g[s] - paid
        /\ Moved(f, Outside, s, out)[s] = f[s] + out
    BY <1>4, <1>6, MovedFrom
  <2>5. SameBooks(w, x) /\ g[s] \in Nat
    BY <2>1, <2>2, <2>3, Who DEF SameBooks
  <2> QED
    BY <1>4, <2>1, <2>2, <2>3, <2>4, <2>5 DEF Trades
<1>11. SellsSweep(w, x, s)
  <2>1. out =< fair + Bonus
    BY <1>5, <1>6, Units, SlippageNat DEF subBasisPoints
  <2> QED
    BY <1>4, <1>6, <1>10, <2>1 DEF SellsSweep, fair
<1> QED
  BY <1>7, <1>8, <1>9, <1>11, KeptTwice

LEMMA TradesGain ==
    ASSUME NEW w, GoodWorld(w), NEW x, GoodWorld(x), NEW s \in Stabilizers,
           NEW cash \in Int, NEW coins \in Int, Trades(w, x, s, cash, coins),
           Fair(w) => convertToUSD(w, x.sweep.balanceOf[s]) + cash =<
                          convertToUSD(w, w.sweep.balanceOf[s])
    PROVE  Gains(w, x, s, 0)
<1>1. /\ x.usdxPrice = w.usdxPrice /\ x.targetPrice = w.targetPrice
      /\ x.tokenPrice = w.tokenPrice /\ SameBooks(w, x)
      /\ x.token = w.token /\ x.off = w.off /\ x.claim = w.claim
      /\ x.usdx[s] = w.usdx[s] + cash
  BY DEF Trades, SameBooks
<1>2. ASSUME Fair(w)
      PROVE  equity(x, s) =< equity(w, s) + 0
  <2>1. w.usdxPrice = Unit /\ x.usdxPrice = Unit
    BY <1>1, <1>2 DEF Fair
  <2>2. PICK value \in Nat, before \in Nat, claimed \in Nat :
           /\ value = AssetValue(w, s) /\ before = w.usdx[s]
           /\ claimed = w.claim[s].amount \div Scale
    BY AssetValueNat, StabFields, Units, DivNat DEF GoodWorld
  <2>3. AssetValue(x, s) = value
    BY <1>1, <2>2 DEF AssetValue, TokenValue, VaultValue, EthenaValue, MapleValue,
       OffChainValue, convertToAssets, oracleUsdxToUsd
  <2>4. Invested(x, s) = Invested(w, s) + cash
    BY <1>1, <2>2, <2>3 DEF Invested
  <2>5. convertToUSD(x, x.sweep.balanceOf[s]) = convertToUSD(w, x.sweep.balanceOf[s])
    BY <1>1 DEF convertToUSD
  <2>6. convertToUSD(x, getDebt(x, s)) = convertToUSD(w, getDebt(w, s))
    BY <1>1 DEF SameBooks, getDebt, accruedFee, convertToUSD
  <2>7. /\ Invested(w, s) \in Nat /\ convertToUSD(w, w.sweep.balanceOf[s]) \in Nat
        /\ convertToUSD(w, getDebt(w, s)) \in Nat
        /\ equity(w, s) = Invested(w, s) + convertToUSD(w, w.sweep.balanceOf[s])
                              - convertToUSD(w, getDebt(w, s))
    BY <2>1, EquityIs
  <2>8. /\ convertToUSD(x, x.sweep.balanceOf[s]) \in Nat
        /\ equity(x, s) = Invested(x, s) + convertToUSD(x, x.sweep.balanceOf[s])
                              - convertToUSD(x, getDebt(x, s))
    BY <2>1, EquityIs
  <2> QED
    BY <1>2, <2>4, <2>5, <2>6, <2>7, <2>8
<1> QED
  BY <1>1, <1>2 DEF Gains

\* SWEEP in dollars.
LEMMA SweepInUSD ==
    ASSUME NEW w, GoodWorld(w)
    PROVE  /\ w.targetPrice \in Nat \ {0} /\ Unit * Scale \in Nat \ {0}
           /\ \A a \in Nat : convertToUSD(w, a) = InUSD(a, w.targetPrice, Unit * Scale)
  BY Units, MulPos, WorldFields DEF GoodWorld, convertToUSD, InUSD

LEMMA BuyGains ==
    ASSUME NEW w, GoodWorld(w), NEW x, GoodWorld(x), NEW s \in Stabilizers, BuysSweep(w, x, s)
    PROVE  Gains(w, x, s, 0)
<1>1. PICK paid \in Nat, out \in Nat :
         /\ Trades(w, x, s, - paid, out)
         /\ out =< convertToSWEEP(w, oracleUsdxToUsd(w, paid)) + Bonus
  BY DEF BuysSweep
<1>2. PICK price \in Nat \ {0}, unit \in Nat \ {0} :
         price = w.targetPrice /\ unit = Unit * Scale
  BY SweepInUSD
<1>3. PICK before \in Nat : before = w.sweep.balanceOf[s]
  BY StabFields DEF GoodWorld
<1>4. x.sweep.balanceOf[s] = before + out
  BY <1>1, <1>3 DEF Trades
<1>5. ASSUME Fair(w)
      PROVE  convertToUSD(w, x.sweep.balanceOf[s]) + (- paid) =<
                 convertToUSD(w, w.sweep.balanceOf[s])
  <2>1. Bonus = 0 /\ w.usdxPrice = Unit
    BY <1>5 DEF Fair
  <2>2. oracleUsdxToUsd(w, paid) = paid
    BY <2>1, AtPar
  <2>3. PICK cost \in Nat : cost = paid * Unit * Scale
    BY Units, MulNat
  <2>4. out =< cost \div price
    <3>1. cost \div price \in Nat
      BY DivNat
    <3> QED
      BY <1>1, <1>2, <2>1, <2>2, <2>3, <3>1 DEF convertToSWEEP
  <2>5. out * price =< cost
    BY <2>4, Worth
  <2>6. cost = paid * unit
    BY <1>2, <2>3, Units
  <2>7. /\ InUSD(before, price, unit) \in Nat /\ InUSD(before + out, price, unit) \in Nat
        /\ InUSD(before + out, price, unit) =< InUSD(before, price, unit) + paid
    BY <2>5, <2>6, BoughtFair
  <2>8. /\ convertToUSD(w, x.sweep.balanceOf[s]) = InUSD(before + out, price, unit)
        /\ convertToUSD(w, w.sweep.balanceOf[s]) = InUSD(before, price, unit)
    <3>1. before + out \in Nat
      OBVIOUS
    <3> QED
      BY <1>2, <1>3, <1>4, <3>1, SweepInUSD
  <2> QED
    BY <2>7, <2>8
<1>6. - paid \in Int /\ out \in Int
  OBVIOUS
<1> QED
  BY <1>1, <1>5, <1>6, TradesGain

LEMMA SellGains ==
    ASSUME NEW w, GoodWorld(w), NEW x, GoodWorld(x), NEW s \in Stabilizers, SellsSweep(w, x, s)
    PROVE  Gains(w, x, s, 0)
<1>1. PICK paid \in Nat, out \in Nat :
         /\ paid =< w.sweep.balanceOf[s] /\ Trades(w, x, s, out, - paid)
         /\ out =< oracleUsdToUsdx(w, convertToUSD(w, paid)) + Bonus
  BY DEF SellsSweep
<1>2. PICK price \in Nat \ {0}, unit \in Nat \ {0} :
         price = w.targetPrice /\ unit = Unit * Scale
  BY SweepInUSD
<1>3. PICK left \in Nat : left = x.sweep.balanceOf[s]
  BY StabFields DEF GoodWorld
<1>4. w.sweep.balanceOf[s] = left + paid
  <2>1. w.sweep.balanceOf[s] \in Nat
    BY StabFields DEF GoodWorld
  <2>2. left = w.sweep.balanceOf[s] + (- paid)
    BY <1>1, <1>3 DEF Trades
  <2> QED
    BY <2>1, <2>2
<1>5. ASSUME Fair(w)
      PROVE  convertToUSD(w, x.sweep.balanceOf[s]) + out =< convertToUSD(w, w.sweep.balanceOf[s])
  <2>1. Bonus = 0 /\ w.usdxPrice = Unit
    BY <1>5 DEF Fair
  <2>2. PICK fair \in Nat : fair = convertToUSD(w, paid) /\ fair = InUSD(paid, price, unit)
    BY <1>2, SweepInUSD, Together
  <2>3. oracleUsdToUsdx(w, fair) = fair
    <3>1. oracleUsdxToUsd(w, fair) = fair
      BY <2>1, AtPar
    <3> QED
      BY <2>1, <3>1 DEF oracleUsdxToUsd, oracleUsdToUsdx
  <2>4. out =< fair
    BY <1>1, <2>1, <2>2, <2>3
  <2>5. /\ InUSD(left, price, unit) \in Nat /\ InUSD(left + paid, price, unit) \in Nat
        /\ InUSD(left, price, unit) + InUSD(paid, price, unit) =< InUSD(left + paid, price, unit)
    BY Together
  <2>6. /\ convertToUSD(w, x.sweep.balanceOf[s]) = InUSD(left, price, unit)
        /\ convertToUSD(w, w.sweep.balanceOf[s]) = InUSD(left + paid, price, unit)
    <3>1. left + paid \in Nat
      OBVIOUS
    <3> QED
      BY <1>2, <1>3, <1>4, <3>1, SweepInUSD
  <2> QED
    BY <2>2, <2>4, <2>5, <2>6
<1>6. - paid \in Int /\ out \in Int
  OBVIOUS
<1> QED
  BY <1>1, <1>5, <1>6, TradesGain

\* A loan, or a payment, enters both books.
LEMMA LendsGain ==
    ASSUME NEW w, GoodWorld(w), NEW x, GoodWorld(x), NEW s \in Stabilizers,
           NEW d \in Int, Lends(w, x, s, d)
    PROVE  Gains(w, x, s, 1) /\ (d = 0 => Gains(w, x, s, 0))
<1>1. /\ x.usdxPrice = w.usdxPrice /\ x.targetPrice = w.targetPrice /\ SameHoldings(w, x)
      /\ x.sweep.balanceOf[s] = w.sweep.balanceOf[s] + d /\ getDebt(x, s) = getDebt(w, s) + d
  BY DEF Lends, SameHoldings
<1>2. ASSUME Fair(w)
      PROVE  equity(x, s) =< equity(w, s) + 1 /\ (d = 0 => equity(x, s) =< equity(w, s) + 0)
  <2>1. w.usdxPrice = Unit /\ x.usdxPrice = Unit
    BY <1>1, <1>2 DEF Fair
  <2>2. PICK invested \in Nat : invested = Invested(w, s) /\ invested = Invested(x, s)
    <3>1. AssetValue(x, s) = AssetValue(w, s)
      BY <1>1, AssetValueSame
    <3>2. Invested(x, s) = Invested(w, s)
      BY <1>1, <3>1 DEF Invested, SameHoldings
    <3> QED
      BY <3>2, InvestedNat
  <2>3. PICK held \in Nat, kept \in Nat, owed \in Nat, owes \in Nat :
           /\ held = w.sweep.balanceOf[s] /\ kept = x.sweep.balanceOf[s]
           /\ owed = getDebt(w, s) /\ owes = getDebt(x, s)
    BY StabFields, FeeNat DEF GoodWorld
  <2>4. PICK price \in Nat \ {0}, unit \in Nat \ {0} :
           price = w.targetPrice /\ unit = Unit * Scale
    BY SweepInUSD
  <2>5. PICK h \in Nat, k \in Nat, o \in Nat, p \in Nat :
           /\ h = InUSD(held, price, unit) /\ k = InUSD(kept, price, unit)
           /\ o = InUSD(owed, price, unit) /\ p = InUSD(owes, price, unit)
    BY Together
  <2>6. equity(w, s) = invested + h - o /\ equity(x, s) = invested + k - p
    <3>1. /\ convertToUSD(w, w.sweep.balanceOf[s]) = h /\ convertToUSD(w, getDebt(w, s)) = o
      BY <2>3, <2>4, <2>5, SweepInUSD
    <3>2. /\ convertToUSD(x, x.sweep.balanceOf[s]) = k /\ convertToUSD(x, getDebt(x, s)) = p
      BY <1>1, <2>3, <2>4, <2>5, SweepInUSD
    <3>3. equity(w, s) = invested + h - o
      BY <2>1, <2>2, <3>1, EquityIs
    <3>4. equity(x, s) = invested + k - p
      BY <2>1, <2>2, <3>2, EquityIs
    <3> QED
      BY <3>3, <3>4
  <2>7. kept = held + d /\ owes = owed + d
    BY <1>1, <2>3
  <2>8. CASE d \in Nat
    <3>1. PICK more \in Nat : more = InUSD(d, price, unit)
      BY <2>8, Together
    <3>2. k =< h + more + 1
      BY <2>5, <2>7, <2>8, <3>1, Together
    <3>3. o + more =< p
      BY <2>5, <2>7, <2>8, <3>1, Together
    <3>4. d = 0 => k = h /\ p = o
      BY <2>5, <2>7
    <3> QED
      BY <2>6, <3>2, <3>3, <3>4
  <2>9. CASE d \notin Nat
    <3>1. PICK e \in Nat : held = kept + e /\ owed = owes + e
      <4>1. - d \in Nat /\ held = kept + (- d) /\ owed = owes + (- d)
        BY <2>7, <2>9
      <4> QED
        BY <4>1
    <3>2. PICK less \in Nat : less = InUSD(e, price, unit)
      BY Together
    <3>3. k + less =< h
      BY <2>5, <3>1, <3>2, Together
    <3>4. o =< p + less + 1
      BY <2>5, <3>1, <3>2, Together
    <3> QED
      BY <2>6, <2>9, <3>3, <3>4
  <2> QED
    BY <2>8, <2>9
<1> QED
  BY <1>1, <1>2 DEF Gains

\* What leaves SWEEP and debt alone.
LEMMA SameDebtGains ==
    ASSUME NEW w, GoodWorld(w), NEW x, GoodWorld(x), NEW s \in Stabilizers,
           SameHoldings(w, x), x.sweep = w.sweep, x.now = w.now,
           x.stab[s].sweepBorrowed = w.stab[s].sweepBorrowed,
           x.stab[s].spreadDate = w.stab[s].spreadDate,
           x.stab[s].config.protocolFee = w.stab[s].config.protocolFee
    PROVE  Gains(w, x, s, 0)
<1>1. getDebt(x, s) = getDebt(w, s) /\ getDebt(w, s) \in Nat /\ w.sweep.balanceOf[s] \in Nat
  BY FeeNat, StabFields DEF getDebt, accruedFee, GoodWorld
<1>2. Lends(w, x, s, 0)
  BY <1>1 DEF Lends
<1> QED
  BY <1>2, LendsGain, 0 \in Int

LEMMA BorrowGains ==
    ASSUME NEW w, GoodWorld(w), NEW s \in Stabilizers, NEW amount \in Nat,
           NEW x \in Borrow(w, s, amount)
    PROVE  Gains(w, x, s, 1)
<1>1. GoodWorld(x) /\ Lends(w, x, s, amount - accruedFee(w, s))
  BY BorrowKept DEF Kept
<1>2. amount - accruedFee(w, s) \in Int
  BY FeeNat
<1> QED
  BY <1>1, <1>2, LendsGain

LEMMA RepayGains ==
    ASSUME NEW w, GoodWorld(w), NEW s \in Stabilizers, NEW amount \in Int,
           NEW x \in Repay(w, s, amount)
    PROVE  Gains(w, x, s, 1)
<1>1. PICK paid : paid = Payable(w, s, amount)
  OBVIOUS
<1>2. GoodWorld(x) /\ Pays(w, x, s, paid) /\ Spends(w, x, s, paid)
  BY <1>1, RepayKept DEF Kept
<1>3. /\ SameHoldings(w, x) /\ x.sweep.balanceOf[s] = w.sweep.balanceOf[s] - paid
      /\ getDebt(x, s) = getDebt(w, s) - paid
  BY <1>2 DEF Pays, Spends
<1>4. paid \in Int /\ w.sweep.balanceOf[s] \in Nat /\ getDebt(w, s) \in Nat
  BY <1>1, FeeNat, StabFields DEF Payable, Least, GoodWorld
<1>5. - paid \in Int /\ Lends(w, x, s, - paid)
  BY <1>3, <1>4 DEF Lends
<1> QED
  BY <1>2, <1>5, LendsGain

-------------------------------------------------------------------------------
(* Calls *)

LEMMA DebtSame ==
    ASSUME NEW w, NEW x, NEW s, x.now = w.now,
           x.stab[s].sweepBorrowed = w.stab[s].sweepBorrowed,
           x.stab[s].spreadDate = w.stab[s].spreadDate,
           x.stab[s].config = w.stab[s].config
    PROVE  getDebt(x, s) = getDebt(w, s)
  BY DEF getDebt, accruedFee

\* A call of amount: of s, and of nobody else, and it is no payment.
Calls(w, x, s, amount) ==
    /\ x.now = w.now
    /\ \A q \in Stabilizers : q # s => x.stab[q] = w.stab[q]
    /\ getDebt(x, s) = getDebt(w, s)
    /\ w.stab[s].config.callDelay > 0 => x.stab[s].callAmount = amount

LEMMA SetCallKept ==
    ASSUME NEW w, GoodWorld(w), NEW s \in Stabilizers, NEW amount \in Nat
    PROVE  /\ Kept(w, SetCall(w, s, amount)) /\ Calls(w, SetCall(w, s, amount), s, amount)
           /\ Gains(w, SetCall(w, s, amount), s, 0)
<1>1. CASE ~(w.stab[s].config.callDelay > 0)
  BY <1>1, KeptSame, GainsNone DEF SetCall, Calls
<1>2. CASE w.stab[s].config.callDelay > 0
  <2>1. PICK z \in StabilizerStorage : z = w.stab[s]
    BY WorldFields DEF GoodWorld
  <2>2. w \in Worlds /\ w.now \in Nat /\ z.config.callDelay \in Nat /\ Timed(z, w.now)
    BY <2>1, WorldFields, StabFields DEF GoodWorld
  <2>3. PICK time \in Nat : time = w.now + w.stab[s].config.callDelay
    BY <2>1, <2>2
  <2> DEFINE r == [z EXCEPT !.callTime = time, !.callAmount = amount]
  <2>4. SetCall(w, s, amount) = [w EXCEPT !.stab[s].callTime = time,
                                          !.stab[s].callAmount = amount]
    BY <1>2, <2>3 DEF SetCall
  <2>5. SetCall(w, s, amount) = [w EXCEPT !.stab[s] = r]
    BY <2>1, <2>2, <2>4 DEF Worlds, StabilizerStorage
  <2>6. /\ r \in StabilizerStorage /\ r.sweepBorrowed = z.sweepBorrowed
        /\ r.config = z.config /\ r.callTime = time /\ r.callAmount = amount
        /\ r.spreadDate = z.spreadDate /\ r.startingPrice = z.startingPrice
        /\ r.startingTime = z.startingTime
    BY DEF StabilizerStorage
  <2> HIDE DEF r
  <2>7. Timed(r, w.now) /\ (Auctioned(w.stab[s]) => Auctioned(r))
    BY <1>2, <2>1, <2>2, <2>3, <2>6 DEF Timed, Auctioned
  <2>8. PICK x : x = SetCall(w, s, amount)
    OBVIOUS
  <2>9. Kept(w, x)
    BY <2>1, <2>5, <2>6, <2>7, <2>8, StabKept
  <2>10. OnlyStab(w, x, s, r)
    BY <2>5, <2>6, <2>7, <2>8, SetStab
  <2>11. \A q \in Stabilizers : x.stab[q] = IF q = s THEN r ELSE w.stab[q]
    BY <2>2, <2>10, OtherStabs DEF OnlyStab
  <2>12. getDebt(x, s) = getDebt(w, s)
    <3>1. /\ x.now = w.now /\ x.stab[s].sweepBorrowed = w.stab[s].sweepBorrowed
          /\ x.stab[s].spreadDate = w.stab[s].spreadDate
          /\ x.stab[s].config = w.stab[s].config
      BY <2>1, <2>6, <2>10, <2>11 DEF OnlyStab
    <3> QED
      BY <3>1, DebtSame
  <2>13. Calls(w, x, s, amount)
    BY <2>6, <2>10, <2>11, <2>12 DEF Calls, OnlyStab
  <2>14. Gains(w, x, s, 0)
    <3>1. SameHoldings(w, x) /\ x.sweep = w.sweep /\ x.now = w.now /\ GoodWorld(x)
      BY <2>2, <2>5, <2>8, <2>9, <2>10, StabHoldings DEF OnlyStab, Kept
    <3>2. x.stab[s] = r
      BY <2>11
    <3> QED
      BY <2>1, <2>6, <3>1, <3>2, SameDebtGains
  <2> QED
    BY <2>8, <2>9, <2>13, <2>14
<1> QED
  BY <1>1, <1>2

LEMMA CancelCallKept ==
    ASSUME NEW w, GoodWorld(w), NEW s \in Stabilizers
    PROVE  Kept(w, CancelCall(w, s)) /\ Gains(w, CancelCall(w, s), s, 0)
<1>1. PICK z \in StabilizerStorage : z = w.stab[s]
  BY WorldFields DEF GoodWorld
<1>2. w \in Worlds /\ Timed(z, w.now)
  BY <1>1 DEF GoodWorld
<1> DEFINE r == [z EXCEPT !.callAmount = 0, !.callTime = 0]
<1>3. CancelCall(w, s) = [w EXCEPT !.stab[s] = r]
  BY <1>1, <1>2 DEF CancelCall, Worlds, StabilizerStorage
<1>4. /\ r \in StabilizerStorage /\ r.sweepBorrowed = z.sweepBorrowed
      /\ r.config = z.config /\ r.callAmount = 0
      /\ r.spreadDate = z.spreadDate /\ r.startingPrice = z.startingPrice
      /\ r.startingTime = z.startingTime
  BY DEF StabilizerStorage
<1> HIDE DEF r
<1>5. Timed(r, w.now) /\ (Auctioned(w.stab[s]) => Auctioned(r))
  BY <1>1, <1>2, <1>4 DEF Timed, Auctioned
<1>6. PICK x : x = CancelCall(w, s)
  OBVIOUS
<1>7. Kept(w, x)
  BY <1>1, <1>3, <1>4, <1>5, <1>6, StabKept
<1>8. Gains(w, x, s, 0)
  <2>1. OnlyStab(w, x, s, r)
    BY <1>3, <1>4, <1>5, <1>6, SetStab
  <2>2. SameHoldings(w, x)
    BY <1>2, <1>3, <1>6, StabHoldings
  <2>3. x.stab[s] = r
    BY <1>2, <2>1, WorldFields DEF OnlyStab
  <2>4. x.sweep = w.sweep /\ x.now = w.now /\ x.stab[s] = r /\ GoodWorld(x)
    BY <1>7, <2>1, <2>3 DEF OnlyStab, Kept
  <2> QED
    BY <1>1, <1>4, <2>2, <2>4, SameDebtGains
<1> QED
  BY <1>6, <1>7, <1>8

LEMMA RaiseSweepKept ==
    ASSUME NEW w, GoodWorld(w), NEW s \in Stabilizers, NEW amount \in Nat,
           NEW slippage \in 0 .. Precision, NEW x \in RaiseSweep(w, s, amount, slippage)
    PROVE  Kept(w, x) /\ SameBooks(w, x) /\ Gains(w, x, s, 1)
<1> DEFINE missing == oracleUsdToUsdx(w, convertToUSD(w, amount - w.sweep.balanceOf[s]))
<1>1. w \in Worlds /\ w.sweep.balanceOf[s] \in Nat /\ w.usdx[s] \in Nat
  BY StabFields DEF GoodWorld
<1>2. CASE w.sweep.balanceOf[s] >= amount
  BY <1>2, KeptSame, GainsNone DEF RaiseSweep, SameBooks
<1>3. CASE ~(w.sweep.balanceOf[s] >= amount)
  <2>1. missing \in Nat
    <3>1. amount - w.sweep.balanceOf[s] \in Nat
      BY <1>1, <1>3
    <3>2. convertToUSD(w, amount - w.sweep.balanceOf[s]) \in Nat
      BY <1>1, <3>1, Conversions
    <3> QED
      BY <1>1, <3>2, Conversions
  <2>2. x \in UNION {IF w1.usdx[s] > 0 THEN Buy(w1, s, missing, slippage) ELSE {w1} :
                        w1 \in IF missing > w.usdx[s]
                               THEN Divest(w, s, missing - w.usdx[s], slippage) ELSE {w}}
    BY <1>3, Zenon DEF RaiseSweep, Then
  <2> HIDE DEF missing
  <2>3. PICK w1 \in IF missing > w.usdx[s]
                    THEN Divest(w, s, missing - w.usdx[s], slippage) ELSE {w} :
           x \in IF w1.usdx[s] > 0 THEN Buy(w1, s, missing, slippage) ELSE {w1}
    BY <2>2, Zenon
  <2>4. Kept(w, w1) /\ SameBooks(w, w1) /\ Gains(w, w1, s, 1)
    <3>1. CASE missing > w.usdx[s]
      <4>1. missing - w.usdx[s] \in Nat /\ w1 \in Divest(w, s, missing - w.usdx[s], slippage)
        BY <1>1, <2>1, <2>3, <3>1
      <4> QED
        BY <4>1, DivestKept, DivestGains
    <3>2. CASE ~(missing > w.usdx[s])
      BY <2>3, <3>2, KeptSame, GainsNone DEF SameBooks
    <3> QED
      BY <3>1, <3>2
  <2>5. Kept(w1, x) /\ SameBooks(w1, x) /\ Gains(w1, x, s, 0)
    <3>1. GoodWorld(w1)
      BY <2>4 DEF Kept
    <3>2. CASE w1.usdx[s] > 0
      <4>1. x \in Buy(w1, s, missing, slippage)
        BY <2>3, <3>2
      <4> QED
        BY <2>1, <3>1, <4>1, BuyKept, BuyGains DEF Kept
    <3>3. CASE ~(w1.usdx[s] > 0)
      BY <2>3, <3>1, <3>3, KeptSame, GainsNone DEF SameBooks
    <3> QED
      BY <3>2, <3>3
  <2>6. Gains(w, x, s, 1)
    <3>1. Gains(w, x, s, 1 + 0)
      BY <2>4, <2>5, GainsTwice DEF Kept
    <3> QED
      BY <3>1
  <2> QED
    BY <2>4, <2>5, <2>6, KeptTwice DEF SameBooks
<1> QED
  BY <1>2, <1>3

\* What a call of the balancer asks of s is repaid or still called when it is over.
Answers(w, x, s, a) ==
    /\ x.now = w.now
    /\ \A q \in Stabilizers : q # s => x.stab[q] = w.stab[q]
    /\ w.stab[s].config.callDelay > 0 =>
          getDebt(w, s) - getDebt(x, s) + x.stab[s].callAmount = Least(a, getDebt(w, s))

LEMMA AutoCallKept ==
    ASSUME NEW w, GoodWorld(w), NEW s \in Stabilizers, NEW a \in Nat,
           NEW slippage \in 0 .. Precision, NEW x \in AutoCall(w, s, a, slippage)
    PROVE  Kept(w, x) /\ Answers(w, x, s, a) /\ Gains(w, x, s, 2)
<1> DEFINE amount == Least(a, getDebt(w, s))
           called == SetCall(w, s, amount)
<1>1. x \in UNION {IF w1.sweep.balanceOf[s] > 0 /\ amount > 0 THEN Repay(w1, s, amount)
                                                              ELSE {w1} :
                      w1 \in RaiseSweep(called, s, amount, slippage)}
  BY Zenon DEF AutoCall, Then
<1>2. PICK w1 \in RaiseSweep(called, s, amount, slippage) :
         x \in IF w1.sweep.balanceOf[s] > 0 /\ amount > 0 THEN Repay(w1, s, amount) ELSE {w1}
  BY <1>1, Zenon
<1>3. amount \in Nat
  BY FeeNat, LeastNat
<1>b. amount = Least(a, getDebt(w, s))
  OBVIOUS
<1> HIDE DEF amount
<1>4. Kept(w, called) /\ Calls(w, called, s, amount) /\ Gains(w, called, s, 0)
  BY <1>3, SetCallKept
<1> HIDE DEF called
<1>5. Kept(called, w1) /\ SameBooks(called, w1) /\ Gains(called, w1, s, 1)
  <2>1. GoodWorld(called)
    BY <1>4 DEF Kept
  <2> QED
    BY <1>2, <1>3, <2>1, RaiseSweepKept
<1>6. /\ Kept(w1, x) /\ (x = w1 \/ Pays(w1, x, s, Payable(w1, s, amount)))
      /\ Gains(w1, x, s, 1)
  <2>1. GoodWorld(w1)
    BY <1>5 DEF Kept
  <2>2. CASE w1.sweep.balanceOf[s] > 0 /\ amount > 0
    <3>1. x \in Repay(w1, s, amount) /\ amount \in Int
      BY <1>2, <1>3, <2>2
    <3> QED
      BY <2>1, <3>1, RepayKept, RepayGains
  <2>3. CASE ~(w1.sweep.balanceOf[s] > 0 /\ amount > 0)
    BY <1>2, <2>1, <2>3, KeptSame, GainsNone
  <2> QED
    BY <2>2, <2>3
<1>7. Answers(w, x, s, a)
  <2>1. /\ w1.now = w.now /\ getDebt(w1, s) = getDebt(w, s)
        /\ \A q \in Stabilizers : q # s => w1.stab[q] = w.stab[q]
        /\ w.stab[s].config.callDelay > 0 => w1.stab[s].callAmount = amount
    BY <1>4, <1>5, DebtSame DEF SameBooks, Calls
  <2>2. getDebt(w, s) \in Nat /\ amount <= getDebt(w, s)
    BY <1>b, FeeNat, LeastNat
  <2>3. w1.sweep.balanceOf[s] \in Nat
    BY <1>5, StabFields DEF Kept, GoodWorld
  <2>4. CASE x = w1
    BY <1>3, <1>b, <2>1, <2>2, <2>4 DEF Answers
  <2>5. CASE Pays(w1, x, s, Payable(w1, s, amount))
    <3>1. PICK paid \in Nat : paid = Payable(w1, s, amount) /\ paid <= amount
      BY <1>3, <2>1, <2>2, <2>3, LeastNat DEF Payable
    <3>2. /\ x.now = w1.now /\ getDebt(x, s) = getDebt(w1, s) - paid
          /\ \A q \in Stabilizers : q # s => x.stab[q] = w1.stab[q]
          /\ x.stab[s].callAmount = IF w1.stab[s].callAmount > paid
                                    THEN w1.stab[s].callAmount - paid ELSE 0
      BY <2>5, <3>1 DEF Pays
    <3> QED
      BY <1>3, <1>b, <2>1, <2>2, <3>1, <3>2 DEF Answers
  <2> QED
    BY <1>6, <2>4, <2>5
<1>8. Gains(w, x, s, 2)
  <2>1. GoodWorld(called) /\ GoodWorld(w1) /\ GoodWorld(x)
    BY <1>4, <1>5, <1>6 DEF Kept
  <2>2. Gains(w, w1, s, 0 + 1)
    BY <1>4, <1>5, <2>1, GainsTwice
  <2>3. Gains(w, w1, s, 1)
    BY <2>2
  <2>4. Gains(w, x, s, 1 + 1)
    BY <1>6, <2>1, <2>3, GainsTwice
  <2> QED
    BY <2>4
<1> QED
  BY <1>4, <1>5, <1>6, <1>7, <1>8, KeptTwice

-------------------------------------------------------------------------------
(* Leverage *)

LEMMA BorrowAndInvestKept ==
    ASSUME NEW w, GoodWorld(w), NEW s \in Stabilizers, NEW a \in Nat,
           NEW slippage \in 0 .. Precision, NEW useAMM \in BOOLEAN,
           NEW x \in BorrowAndInvest(w, s, a, slippage, useAMM)
    PROVE  Kept(w, x) /\ Gains(w, x, s, 1)
<1> DEFINE Spent(w1, w2) == IF useAMM THEN w2.usdx[s] - w1.usdx[s] ELSE convertToUSD(w, a)
           Sold(w1) == IF useAMM THEN Sell(w1, s, a, slippage) ELSE {w1}
<1>1. x \in UNION {UNION {Invest(w2, s, Spent(w1, w2), slippage) : w2 \in Sold(w1)} :
                      w1 \in Borrow(w, s, a)}
  BY Zenon DEF BorrowAndInvest, Then
<1>2. PICK w1 \in Borrow(w, s, a) :
         x \in UNION {Invest(w2, s, Spent(w1, w2), slippage) : w2 \in Sold(w1)}
  BY <1>1, Zenon
<1>3. PICK w2 \in Sold(w1) : x \in Invest(w2, s, Spent(w1, w2), slippage)
  BY <1>2, Zenon
<1>4. Kept(w, w1) /\ GoodWorld(w1) /\ Gains(w, w1, s, 1)
  BY <1>2, BorrowKept, BorrowGains DEF Kept
<1>5. Kept(w1, w2) /\ GoodWorld(w2) /\ Spent(w1, w2) \in Nat /\ Gains(w1, w2, s, 0)
  <2>1. CASE useAMM
    BY <1>3, <1>4, <2>1, SellKept, SellGains DEF Kept
  <2>2. CASE ~useAMM
    <3>1. w2 = w1 /\ convertToUSD(w, a) \in Nat
      BY <1>3, <2>2, Conversions DEF GoodWorld
    <3> QED
      BY <1>4, <2>2, <3>1, KeptSame, GainsNone
  <2> QED
    BY <2>1, <2>2
<1> HIDE DEF Spent, Sold
<1>6. Kept(w2, x) /\ Gains(w2, x, s, 0)
  BY <1>3, <1>5, InvestKept, InvestGains
<1>7. Gains(w, x, s, 1)
  <2>1. Gains(w, w2, s, 1 + 0)
    BY <1>4, <1>5, GainsTwice
  <2>2. Gains(w, w2, s, 1) /\ GoodWorld(x)
    BY <1>6, <2>1 DEF Kept
  <2>3. Gains(w, x, s, 1 + 0)
    BY <1>5, <1>6, <2>2, GainsTwice
  <2> QED
    BY <2>3
<1> QED
  BY <1>4, <1>5, <1>6, <1>7, KeptTwice

LEMMA OneStepDivestKept ==
    ASSUME NEW w, GoodWorld(w), NEW s \in Stabilizers, NEW a \in Nat,
           NEW slippage \in 0 .. Precision, NEW useAMM \in BOOLEAN,
           NEW x \in OneStepDivest(w, s, a, slippage, useAMM)
    PROVE  Kept(w, x) /\ Gains(w, x, s, 2)
<1> DEFINE Paid(w1, w2) == IF useAMM THEN w2.sweep.balanceOf[s] - w1.sweep.balanceOf[s]
                                     ELSE convertToSWEEP(w1, a)
           Bought(w1) == IF useAMM THEN Buy(w1, s, a, slippage) ELSE {w1}
<1>1. x \in UNION {UNION {Repay(w2, s, Paid(w1, w2)) : w2 \in Bought(w1)} :
                      w1 \in Divest(w, s, a, slippage)}
  BY Zenon DEF OneStepDivest, Then
<1>2. PICK w1 \in Divest(w, s, a, slippage) :
         x \in UNION {Repay(w2, s, Paid(w1, w2)) : w2 \in Bought(w1)}
  BY <1>1, Zenon
<1>3. PICK w2 \in Bought(w1) : x \in Repay(w2, s, Paid(w1, w2))
  BY <1>2, Zenon
<1>4. Kept(w, w1) /\ GoodWorld(w1) /\ w1 \in Worlds /\ Gains(w, w1, s, 1)
  BY <1>2, DivestKept, DivestGains DEF Kept, GoodWorld
<1>5. Kept(w1, w2) /\ GoodWorld(w2) /\ Gains(w1, w2, s, 0)
  BY <1>3, <1>4, BuyKept, BuyGains, KeptSame, GainsNone DEF Kept
<1>6. Paid(w1, w2) \in Int
  <2>1. w1.sweep.balanceOf[s] \in Nat /\ w2.sweep.balanceOf[s] \in Nat
    BY <1>4, <1>5, StabFields DEF GoodWorld
  <2>2. convertToSWEEP(w1, a) \in Nat
    BY <1>4, Conversions
  <2> QED
    BY <2>1, <2>2
<1> HIDE DEF Paid, Bought
<1>7. Kept(w2, x) /\ Gains(w2, x, s, 1)
  BY <1>3, <1>5, <1>6, RepayKept, RepayGains
<1>8. Gains(w, x, s, 2)
  <2>1. Gains(w, w2, s, 1 + 0)
    BY <1>4, <1>5, GainsTwice
  <2>2. Gains(w, w2, s, 1) /\ GoodWorld(x)
    BY <1>7, <2>1 DEF Kept
  <2>3. Gains(w, x, s, 1 + 1)
    BY <1>5, <1>7, <2>2, GainsTwice
  <2> QED
    BY <2>3
<1> QED
  BY <1>4, <1>5, <1>7, <1>8, KeptTwice

-------------------------------------------------------------------------------
(* Fee, withdrawals, auctions, liquidation *)

LEMMA PayFeeKept ==
    ASSUME NEW w, GoodWorld(w), NEW s \in Stabilizers, NEW x \in PayFee(w, s)
    PROVE  Kept(w, x) /\ Gains(w, x, s, 1)
<1>1. PICK z \in StabilizerStorage : z = w.stab[s]
  BY WorldFields DEF GoodWorld
<1>2. w \in Worlds /\ Timed(z, w.now) /\ w.now \in Nat
  BY <1>1, WorldFields DEF GoodWorld
<1>3. PICK time \in Nat : time = w.now
  BY <1>2
<1> DEFINE r == [z EXCEPT !.spreadDate = time]
           y == [w EXCEPT !.stab[s].spreadDate = w.now]
<1>4. y = [w EXCEPT !.stab[s] = r]
  BY <1>1, <1>2, <1>3 DEF Worlds, StabilizerStorage
<1>5. /\ r \in StabilizerStorage /\ r.sweepBorrowed = z.sweepBorrowed
      /\ r.config = z.config /\ r.callAmount = z.callAmount /\ r.callTime = z.callTime
      /\ r.spreadDate = time /\ r.startingPrice = z.startingPrice
      /\ r.startingTime = z.startingTime
  BY DEF StabilizerStorage
<1>6. x \in IF accruedFee(w, s) > 0 THEN SweepTransfer(y, s, Treasury, accruedFee(w, s)) ELSE {y}
  BY Zenon DEF PayFee
<1> HIDE DEF r
<1>7. Timed(r, w.now) /\ (Auctioned(w.stab[s]) => Auctioned(r))
  BY <1>1, <1>2, <1>3, <1>5 DEF Timed, Auctioned
<1> HIDE DEF y
<1>8. Kept(w, y) /\ GoodWorld(y)
  BY <1>1, <1>4, <1>5, <1>7, StabKept DEF Kept
<1>a. OnlyStab(w, y, s, r) /\ SameHoldings(w, y)
  BY <1>1, <1>2, <1>4, <1>5, <1>7, SetStab, StabHoldings
<1>b. y.stab[s] = r
  <2>1. \A q \in Stabilizers : y.stab[q] = IF q = s THEN r ELSE w.stab[q]
    BY <1>2, <1>a, OtherStabs DEF OnlyStab
  <2> QED
    BY <2>1
<1>9. PICK fee \in Nat : fee = accruedFee(w, s)
  BY FeeNat
<1>10. /\ Kept(w, x) /\ GoodWorld(x) /\ SameBooks(y, x) /\ SameHoldings(w, x)
       /\ x.sweep.balanceOf[s] = w.sweep.balanceOf[s] - fee
  <2>1. CASE fee > 0
    <3>1. x \in SweepTransfer(y, s, Treasury, fee)
      BY <1>6, <1>9, <2>1
    <3>2. Kept(y, x)
      BY <1>8, <3>1, Who, SweepTransferKept
    <3>3. /\ GoodWorld(x) /\ SameBooks(y, x) /\ x.off = y.off
          /\ x.usdx = y.usdx /\ x.token = y.token /\ x.claim = y.claim
          /\ x.sweep.balanceOf = Moved(y.sweep.balanceOf, s, Treasury, fee)
      BY <1>8, <3>1, Who, SweepTransferGood
    <3>4. PICK g \in [Accounts -> Nat] : g = w.sweep.balanceOf
      BY <1>2, WorldFields
    <3>5. Moved(g, s, Treasury, fee)[s] = g[s] - fee
      BY Who DEF Moved
    <3>6. x.sweep.balanceOf[s] = w.sweep.balanceOf[s] - fee
      BY <1>a, <3>3, <3>4, <3>5 DEF OnlyStab
    <3>7. SameHoldings(w, x)
      BY <1>a, <3>3 DEF SameHoldings, SameBooks
    <3>8. Kept(w, x)
      BY <1>8, <3>2, KeptTwice
    <3> QED
      BY <3>3, <3>6, <3>7, <3>8
  <2>2. CASE ~(fee > 0)
    <3>1. x = y /\ fee = 0 /\ w.sweep.balanceOf[s] \in Nat
      BY <1>2, <1>6, <1>9, <2>2, StabFields
    <3> QED
      BY <1>8, <1>a, <3>1 DEF OnlyStab, SameBooks
  <2> QED
    BY <2>1, <2>2
<1>11. Gains(w, x, s, 1)
  <2>1. x.stab[s] = r /\ x.now = w.now
    BY <1>a, <1>b, <1>10 DEF SameBooks, OnlyStab
  <2>2. getDebt(x, s) = w.stab[s].sweepBorrowed
    BY <1>1, <1>3, <1>5, <1>10, <2>1, FeePaid
  <2>3. getDebt(w, s) = w.stab[s].sweepBorrowed + fee
    BY <1>9 DEF getDebt
  <2>4. w.stab[s].sweepBorrowed \in Nat /\ w.sweep.balanceOf[s] \in Nat
    BY <1>2, StabFields
  <2>5. - fee \in Int /\ Lends(w, x, s, - fee)
    BY <1>10, <2>2, <2>3, <2>4 DEF Lends
  <2> QED
    BY <1>10, <2>5, LendsGain
<1> QED
  BY <1>10, <1>11

LEMMA WithdrawKept ==
    ASSUME NEW w, GoodWorld(w), NEW s \in Stabilizers, NEW a \in Nat,
           NEW x \in WithdrawSweep(w, s, a) \cup WithdrawUsdx(w, s, a)
                        \cup WithdrawToken(w, s, a)
    PROVE  Kept(w, x)
<1>1. w.sweep.balanceOf[s] \in Nat /\ w.usdx[s] \in Nat /\ w.token[s] \in Nat
  BY StabFields DEF GoodWorld
<1>2. /\ Least(a, w.sweep.balanceOf[s]) \in Nat /\ Least(a, w.usdx[s]) \in Nat
      /\ Least(a, w.token[s]) \in Nat
  BY <1>1, LeastNat
<1>3. x \in SweepTransfer(w, s, Outside, Least(a, w.sweep.balanceOf[s]))
            \cup UsdxTransfer(w, s, Outside, Least(a, w.usdx[s]))
            \cup TokenTransfer(w, s, Outside, Least(a, w.token[s]))
  BY DEF WithdrawSweep, WithdrawUsdx, WithdrawToken, WithdrawAll
<1> QED
  BY <1>2, <1>3, Who, SweepTransferKept, UsdxTransferKept, TokenTransferKept

\* What is withdrawn is lost to s.
LEMMA WithdrawGains ==
    ASSUME NEW w, GoodWorld(w), NEW s \in Stabilizers, NEW a \in Nat,
           NEW x \in WithdrawSweep(w, s, a) \cup WithdrawUsdx(w, s, a)
                        \cup WithdrawToken(w, s, a)
    PROVE  Gains(w, x, s, 0)
<1>1. /\ w \in Worlds /\ w.sweep.balanceOf[s] \in Nat /\ w.usdx[s] \in Nat /\ w.token[s] \in Nat
      /\ w.sweep.balanceOf \in [Accounts -> Nat] /\ w.usdx \in [Accounts -> Nat]
      /\ w.token \in [Accounts -> Nat]
  BY WorldFields, StabFields DEF GoodWorld
<1>2. PICK coins \in Nat, cash \in Nat, shares \in Nat :
         /\ coins = Least(a, w.sweep.balanceOf[s]) /\ coins =< w.sweep.balanceOf[s]
         /\ cash = Least(a, w.usdx[s])
         /\ shares = Least(a, w.token[s]) /\ shares =< w.token[s]
  BY <1>1, LeastNat
<1>3. \/ x \in SweepTransfer(w, s, Outside, coins) \/ x \in UsdxTransfer(w, s, Outside, cash)
      \/ x \in TokenTransfer(w, s, Outside, shares)
  BY <1>2 DEF WithdrawSweep, WithdrawUsdx, WithdrawToken, WithdrawAll
<1>4. CASE x \in SweepTransfer(w, s, Outside, coins)
  <2>1. /\ GoodWorld(x) /\ SameBooks(w, x) /\ x.off = w.off
        /\ x.usdx = w.usdx /\ x.token = w.token /\ x.claim = w.claim
        /\ x.sweep.balanceOf = Moved(w.sweep.balanceOf, s, Outside, coins)
    BY <1>4, Who, SweepTransferGood
  <2>2. Moved(w.sweep.balanceOf, s, Outside, coins)[s] = w.sweep.balanceOf[s] - coins
    BY <1>1, MovedFrom
  <2>3. Trades(w, x, s, 0, - coins)
    BY <1>1, <2>1, <2>2 DEF Trades
  <2>4. PICK left \in Nat : left = x.sweep.balanceOf[s] /\ w.sweep.balanceOf[s] = left + coins
    <3>1. w.sweep.balanceOf[s] - coins \in Nat
      BY <1>1, <1>2
    <3> QED
      BY <1>1, <2>1, <2>2, <3>1
  <2>5. PICK price \in Nat \ {0}, unit \in Nat \ {0} :
           price = w.targetPrice /\ unit = Unit * Scale
    BY SweepInUSD
  <2>6. /\ InUSD(left, price, unit) \in Nat /\ InUSD(coins, price, unit) \in Nat
        /\ InUSD(left + coins, price, unit) \in Nat
        /\ InUSD(left, price, unit) + InUSD(coins, price, unit) =< InUSD(left + coins, price, unit)
    BY Together
  <2>7. InUSD(left, price, unit) + 0 =< InUSD(left + coins, price, unit)
    BY <2>6
  <2>8. /\ convertToUSD(w, x.sweep.balanceOf[s]) = InUSD(left, price, unit)
        /\ convertToUSD(w, w.sweep.balanceOf[s]) = InUSD(left + coins, price, unit)
    BY <1>1, <2>4, <2>5, SweepInUSD
  <2>9. convertToUSD(w, x.sweep.balanceOf[s]) + 0 =< convertToUSD(w, w.sweep.balanceOf[s])
    BY <2>7, <2>8
  <2>10. - coins \in Int /\ 0 \in Int
    OBVIOUS
  <2> QED
    BY <2>1, <2>3, <2>9, <2>10, TradesGain
<1>5. CASE x \in UsdxTransfer(w, s, Outside, cash)
  <2>1. /\ GoodWorld(x) /\ SameBooks(w, x) /\ x.off = w.off
        /\ x.sweep = w.sweep /\ x.token = w.token /\ x.claim = w.claim
        /\ x.usdx = Moved(w.usdx, s, Outside, cash)
    BY <1>5, Who, UsdxTransferGood
  <2>2. Moved(w.usdx, s, Outside, cash)[s] = w.usdx[s] - cash
    BY <1>1, MovedFrom
  <2>3. Trades(w, x, s, - cash, 0)
    BY <1>1, <2>1, <2>2 DEF Trades
  <2>4. PICK owned \in Nat : owned = convertToUSD(w, w.sweep.balanceOf[s])
    BY <1>1, Together, SweepInUSD
  <2>5. convertToUSD(w, x.sweep.balanceOf[s]) + (- cash) =< convertToUSD(w, w.sweep.balanceOf[s])
    BY <2>1, <2>4
  <2>6. - cash \in Int /\ 0 \in Int
    OBVIOUS
  <2> QED
    BY <2>1, <2>3, <2>5, <2>6, TradesGain
<1>6. CASE x \in TokenTransfer(w, s, Outside, shares)
  <2>1. /\ GoodWorld(x) /\ SameBooks(w, x) /\ x.off = w.off
        /\ x.sweep = w.sweep /\ x.usdx = w.usdx /\ x.claim = w.claim
        /\ x.token = Moved(w.token, s, Outside, shares)
    BY <1>6, Who, TokenTransferGood
  <2>2. x.token[s] = w.token[s] - shares
    BY <1>1, <2>1, MovedFrom
  <2>3. ASSUME Fair(w)
        PROVE  Invested(x, s) =< Invested(w, s) + 0
    <3>1. w.usdxPrice = Unit /\ x.usdxPrice = Unit
      BY <2>1, <2>3 DEF Fair, SameBooks
    <3>2. shares \in 0 .. w.token[s]
      BY <1>1, <1>2
    <3>3. PICK held, left, more \in Nat :
             /\ held = InUSD(w.token[s], w.tokenPrice, Unit)
             /\ left = InUSD(x.token[s], x.tokenPrice, Unit)
             /\ more = InUSD(shares, w.tokenPrice, Unit) /\ more = convertToAssets(w, shares)
             /\ left + more =< held
      <4>1. /\ InUSD(w.token[s], w.tokenPrice, Unit) \in Nat
            /\ InUSD(x.token[s], x.tokenPrice, Unit) \in Nat
            /\ InUSD(shares, w.tokenPrice, Unit) \in Nat
            /\ convertToAssets(w, shares) = InUSD(shares, w.tokenPrice, Unit)
            /\ InUSD(x.token[s], x.tokenPrice, Unit) + InUSD(shares, w.tokenPrice, Unit) =<
                   InUSD(w.token[s], w.tokenPrice, Unit)
        BY <2>1, <2>2, <3>1, <3>2, SharesApart
      <4> QED
        BY <4>1
    <3>4. PICK part \in Nat, rest \in Nat :
             part = held \div Scale /\ rest = left \div Scale /\ rest =< part
      <4>1. left =< held /\ left \in Int /\ held \in Int /\ Scale \in Nat \ {0}
        BY <3>3, Units
      <4>2. left \div Scale =< held \div Scale
        BY <4>1, Divided
      <4>3. left \div Scale \in Nat /\ held \div Scale \in Nat
        BY <4>1, DivNat
      <4> QED
        BY <4>2, <4>3
    <3>5. PICK cash1 \in Nat, locked \in Nat, claimed \in Nat, away \in Nat :
             /\ cash1 = w.usdx[s] /\ locked = InUSD(w.claim[s].amount, w.tokenPrice, Unit)
             /\ claimed = w.claim[s].amount \div Scale /\ away = w.off[s].actualValue
      <4>1. /\ w.usdx[s] \in Nat /\ w.claim[s].amount \in Nat /\ w.off[s].actualValue \in Nat
            /\ w.tokenPrice \in Nat \ {0}
        BY <2>1, <3>1, StabFields, Prices DEF GoodWorld
      <4>2. InUSD(w.claim[s].amount, w.tokenPrice, Unit) \in Nat
        BY <4>1, Units, Together
      <4> QED
        BY <4>1, <4>2, Units, DivNat
    <3>6. /\ x.usdx[s] = cash1 /\ InUSD(x.claim[s].amount, x.tokenPrice, Unit) = locked
          /\ x.claim[s].amount \div Scale = claimed /\ x.off[s].actualValue = away
      BY <2>1, <3>5 DEF SameBooks
    <3>7. left =< held
      BY <3>3
    <3>8. CASE AssetOf[s] \in {"ERC20Asset", "ERC4626Asset"}
      <4>1. Invested(w, s) = held + cash1
        BY <3>1, <3>3, <3>5, <3>8, InvestedAtPar
      <4>2. Invested(x, s) = left + cash1
        BY <2>1, <3>1, <3>3, <3>6, <3>8, InvestedAtPar
      <4> QED
        BY <3>7, <4>1, <4>2
    <3>9. CASE AssetOf[s] = "MapleAsset"
      <4>1. Invested(w, s) = held + cash1 + locked
        BY <3>1, <3>3, <3>5, <3>9, InvestedAtPar
      <4>2. Invested(x, s) = left + cash1 + locked
        BY <2>1, <3>1, <3>3, <3>6, <3>9, InvestedAtPar
      <4> QED
        BY <3>7, <4>1, <4>2
    <3>10. CASE AssetOf[s] = "EthenaAsset"
      <4>1. Invested(w, s) = part + cash1 + claimed
        BY <3>1, <3>3, <3>4, <3>5, <3>10, InvestedAtPar
      <4>2. Invested(x, s) = rest + cash1 + claimed
        BY <2>1, <3>1, <3>3, <3>4, <3>6, <3>10, InvestedAtPar
      <4> QED
        BY <3>4, <4>1, <4>2
    <3>11. CASE AssetOf[s] = "OffChainAsset"
      <4>1. Invested(w, s) = away + cash1
        BY <3>1, <3>5, <3>11, InvestedAtPar
      <4>2. Invested(x, s) = away + cash1
        BY <2>1, <3>1, <3>6, <3>11, InvestedAtPar
      <4> QED
        BY <4>1, <4>2
    <3> QED
      BY <3>8, <3>9, <3>10, <3>11, AssetAssumption
  <2> QED
    BY <2>1, <2>3, HoldingsGain
<1> QED
  BY <1>3, <1>4, <1>5, <1>6

\* The protected part of a debt is no more than the debt.
LEMMA FloorIsPart ==
    ASSUME NEW w, GoodWorld(w), NEW s \in Stabilizers
    PROVE  auctionFloor(w, s) \in Int /\ auctionFloor(w, s) <= getDebt(w, s)
<1>1. /\ w.stab[s].sweepBorrowed \in Nat /\ w.stab[s].config.minLiquidationRatio \in Nat
      /\ accruedFee(w, s) \in Nat
  BY FeeNat, StabFields DEF GoodWorld
<1>2. PICK debt \in Nat, share \in Int : /\ debt = w.stab[s].sweepBorrowed
                                         /\ share = Precision - w.stab[s].config.minLiquidationRatio
                                         /\ share <= Precision
  <2>1. Precision \in Nat
    BY Units
  <2> QED
    BY <1>1, <2>1
<1>3. PICK part \in Int : part = debt * share
  BY MulInt
<1>4. part <= debt * Precision
  BY <1>2, <1>3, Units
<1>5. part \div Precision <= debt
  BY <1>3, <1>4, Units
<1> QED
  BY <1>1, <1>2, <1>3, <1>5, Units DEF auctionFloor, getDebt

\* A liquidator may pay more than the debt, or less.
LEMMA LiquidateKept ==
    ASSUME NEW w, GoodWorld(w), NEW s \in Stabilizers, NEW debt \in Int,
           NEW x \in Liquidate(w, s, debt)
    PROVE  Kept(w, x) /\ getDebt(x, s) = getDebt(w, s) - Least(debt, getDebt(w, s))
<1> DEFINE missing == IF debt > w.sweep.balanceOf[s] THEN debt - w.sweep.balanceOf[s] ELSE 0
           Paid == IF missing > 0 THEN SweepTransfer(w, Outside, s, missing) ELSE {w}
<1>1. x \in UNION {UNION {UNION {Repay(w3, s, debt) :
                                    w3 \in TokenTransfer(w2, s, Outside, w2.token[s])} :
                             w2 \in UsdxTransfer(w1, s, Outside, w1.usdx[s])} : w1 \in Paid}
  BY Zenon DEF Liquidate, Then
<1>2. PICK w1 \in Paid :
         x \in UNION {UNION {Repay(w3, s, debt) :
                                w3 \in TokenTransfer(w2, s, Outside, w2.token[s])} :
                         w2 \in UsdxTransfer(w1, s, Outside, w1.usdx[s])}
  BY <1>1, Zenon
<1>3. PICK w2 \in UsdxTransfer(w1, s, Outside, w1.usdx[s]) :
         x \in UNION {Repay(w3, s, debt) :
                         w3 \in TokenTransfer(w2, s, Outside, w2.token[s])}
  BY <1>2, Zenon
<1>4. PICK w3 \in TokenTransfer(w2, s, Outside, w2.token[s]) : x \in Repay(w3, s, debt)
  BY <1>3, Zenon
<1>5. /\ Kept(w, w1) /\ GoodWorld(w1) /\ SameBooks(w, w1)
      /\ debt <= w1.sweep.balanceOf[s]
  <2>1. w.sweep.balanceOf[s] \in Nat
    BY StabFields DEF GoodWorld
  <2>2. /\ missing \in Nat
        /\ \/ missing = debt - w.sweep.balanceOf[s]
           \/ missing = 0 /\ debt <= w.sweep.balanceOf[s]
    BY <2>1
  <2> HIDE DEF missing
  <2>3. CASE missing > 0
    <3>1. w1 \in SweepTransfer(w, Outside, s, missing) /\ s \in Accounts /\ Outside \in Accounts
      BY <1>2, <2>3, Who
    <3>2. /\ GoodWorld(w1) /\ SameBooks(w, w1) /\ Kept(w, w1)
          /\ w1.sweep.balanceOf = Moved(w.sweep.balanceOf, Outside, s, missing)
      BY <2>2, <3>1, SweepTransferKept, SweepTransferGood
    <3>3. w.sweep.balanceOf \in [Accounts -> Nat]
      BY WorldFields DEF GoodWorld
    <3>4. w1.sweep.balanceOf[s] = w.sweep.balanceOf[s] + missing
      BY <2>2, <3>1, <3>2, <3>3, Who DEF Moved
    <3> QED
      BY <2>1, <2>2, <2>3, <3>2, <3>4
  <2>4. CASE ~(missing > 0)
    BY <1>2, <2>1, <2>2, <2>4, KeptSame DEF SameBooks
  <2> QED
    BY <2>3, <2>4
<1> HIDE DEF missing, Paid
<1>6. Kept(w1, w2) /\ GoodWorld(w2) /\ SameBooks(w1, w2) /\ w2.sweep = w1.sweep
  <2>1. w1.usdx[s] \in Nat
    BY <1>5, StabFields DEF GoodWorld
  <2> QED
    BY <1>3, <1>5, <2>1, Who, UsdxTransferKept, UsdxTransferGood
<1>7. Kept(w2, w3) /\ GoodWorld(w3) /\ SameBooks(w2, w3) /\ w3.sweep = w2.sweep
  <2>1. w2.token[s] \in Nat
    BY <1>6, StabFields DEF GoodWorld
  <2> QED
    BY <1>4, <1>6, <2>1, Who, TokenTransferKept, TokenTransferGood
<1>8. Kept(w3, x) /\ Pays(w3, x, s, Payable(w3, s, debt))
  BY <1>4, <1>7, RepayKept
<1>9. getDebt(w3, s) = getDebt(w, s)
  <2>1. w3.now = w.now /\ w3.stab = w.stab
    BY <1>5, <1>6, <1>7 DEF SameBooks
  <2> QED
    BY <2>1, DebtSame
<1>10. Least(debt, w3.sweep.balanceOf[s]) = debt
  <2>1. debt <= w3.sweep.balanceOf[s] /\ w3.sweep.balanceOf[s] \in Nat
    BY <1>5, <1>6, <1>7, StabFields DEF GoodWorld
  <2> QED
    BY <2>1 DEF Least
<1>11. getDebt(x, s) = getDebt(w, s) - Least(debt, getDebt(w, s))
  BY <1>8, <1>9, <1>10 DEF Pays, Payable
<1> QED
  BY <1>5, <1>6, <1>7, <1>8, <1>11, KeptTwice

LEMMA BuyAuctionKept ==
    ASSUME NEW w, GoodWorld(w), NEW s \in Stabilizers, NEW x \in BuyAuction(w, s)
    PROVE  Kept(w, x) /\ getDebt(w, s) - getDebt(x, s) >= auctionFloor(w, s)
<1>1. PICK amount : amount = getAuctionAmount(w, s)
  OBVIOUS
<1>2. x \in Liquidate(w, s, amount)
  BY <1>1 DEF BuyAuction
<1>3. amount \in Int /\ amount >= auctionFloor(w, s)
  <2> DEFINE floor == auctionFloor(w, s)
             ratio == ((w.now - w.stab[s].startingTime) \div AuctionStep)
                         * w.stab[s].config.decreaseFactor
             price == (w.stab[s].startingPrice * (Precision - ratio)) \div Precision
  <2>1. w \in Worlds /\ w.now \in Nat
    BY WorldFields DEF GoodWorld
  <2>2. /\ w.stab[s].startingTime \in Nat /\ w.stab[s].startingPrice \in Nat
        /\ w.stab[s].sweepBorrowed \in Nat /\ w.stab[s].config.decreaseFactor \in Nat
        /\ w.stab[s].config.minLiquidationRatio \in Nat
    BY <2>1, StabFields
  <2>3. amount = IF ratio > Precision \/ price < floor THEN floor ELSE price
    BY <1>1, Zenon DEF getAuctionAmount
  <2>4. floor \in Int
    <3>1. Precision - w.stab[s].config.minLiquidationRatio \in Int
      BY <2>2, Units
    <3>2. w.stab[s].sweepBorrowed * (Precision - w.stab[s].config.minLiquidationRatio) \in Int
      BY <2>2, <3>1, MulInt
    <3> QED
      BY <3>2, Units DEF auctionFloor
  <2>5. price \in Int
    <3>1. (w.now - w.stab[s].startingTime) \div AuctionStep \in Int
      BY <2>1, <2>2, Units
    <3>2. ratio \in Int
      BY <2>2, <3>1, MulInt
    <3> HIDE DEF ratio
    <3>3. Precision - ratio \in Int
      BY <3>2, Units
    <3>4. w.stab[s].startingPrice * (Precision - ratio) \in Int
      BY <2>2, <3>3, MulInt
    <3> QED
      BY <3>4, Units
  <2>6. auctionFloor(w, s) = floor
    OBVIOUS
  <2> HIDE DEF ratio, floor, price
  <2> QED
    BY <2>3, <2>4, <2>5, <2>6
<1>4. Kept(w, x) /\ getDebt(x, s) = getDebt(w, s) - Least(amount, getDebt(w, s))
  BY <1>2, <1>3, LiquidateKept
<1>5. getDebt(w, s) \in Nat /\ auctionFloor(w, s) \in Int /\ auctionFloor(w, s) <= getDebt(w, s)
  BY FeeNat, FloorIsPart
<1> QED
  BY <1>3, <1>4, <1>5 DEF Least

-------------------------------------------------------------------------------
(* Governance *)

WritesOff(w, x) ==
    /\ "writeOff" \in GovernanceOps
    /\ \E p \in TargetPrices, a \in Accrued, d \in Debtors :
          /\ {current \in TargetPrices : WithinWriteOffLimit(current, p)} # {}
          /\ x \in WriteOff(w, p, d, a)

\* What every step keeps to: debt less minted stays, but for a minter that is removed;
\* configurations come from Configs; an auction without a call keeps its debt. A
\* write-off is the exception. An auction that runs on keeps its price and its clock.
Follows(w, x) ==
    /\ GoodWorld(x) /\ x.now \in {w.now, w.now + 1}
    /\ \A s \in Stabilizers :
          \/ w.stab[s].startingPrice = 0 \/ x.stab[s].startingPrice = 0
          \/ /\ x.stab[s].startingPrice = w.stab[s].startingPrice
             /\ x.stab[s].startingTime = w.stab[s].startingTime
    /\ \A s \in Stabilizers :
          \/ /\ \/ Gap(x, s) = Gap(w, s)
                \/ w.sweep.minters[s].isListed /\ ~x.sweep.minters[s].isListed
             /\ \/ x.stab[s].config.callDelay = w.stab[s].config.callDelay
                \/ \E c \in Configs : x.stab[s].config.callDelay = c.callDelay
             /\ w.stab[s].config.callDelay = 0 /\ Auctioned(w.stab[s]) => Auctioned(x.stab[s])
          \/ WritesOff(w, x)

LEMMA KeptFollows ==
    ASSUME NEW w, NEW x, Kept(w, x)
    PROVE  Follows(w, x)
  BY DEF Kept, Follows

\* An auction is started over a debt, or over a call that was missed, and only where
\* none runs.
LEMMA StartAuctionFollows ==
    ASSUME NEW w, GoodWorld(w), NEW s \in Stabilizers, NEW x \in StartAuction(w, s)
    PROVE  Follows(w, x)
<1>1. PICK z \in StabilizerStorage : z = w.stab[s]
  BY WorldFields DEF GoodWorld
<1>2. /\ w \in Worlds /\ Timed(z, w.now) /\ w.now \in Nat
      /\ z.config.minEquityRatio \in Int /\ z.sweepBorrowed \in Nat
  BY <1>1, WorldFields, StabFields DEF GoodWorld
<1> DEFINE quotient == (getDebt(w, s) * Precision) \div (Precision - z.config.minEquityRatio)
<1>3. /\ isDefaulted(w, s) /\ w.stab[s].startingPrice = 0
      /\ 0 =< z.config.minEquityRatio /\ z.config.minEquityRatio < Precision
      /\ x = [w EXCEPT !.stab[s].startingTime = w.now, !.stab[s].startingPrice = quotient]
  BY <1>1 DEF StartAuction, Call
<1>4. quotient \in Nat
  <2>1. getDebt(w, s) * Precision \in Nat
    BY FeeNat, Units, MulNat
  <2>2. Precision - z.config.minEquityRatio \in Nat \ {0}
    BY <1>2, <1>3, Units
  <2> QED
    BY <2>1, <2>2, DivNat
<1> HIDE DEF quotient
<1>5. PICK time \in Nat : time = w.now
  BY <1>2
<1> DEFINE r == [z EXCEPT !.startingTime = time, !.startingPrice = quotient]
<1>6. x = [w EXCEPT !.stab[s] = r]
  BY <1>1, <1>2, <1>3, <1>5 DEF Worlds, StabilizerStorage
<1>7. /\ r \in StabilizerStorage /\ r.sweepBorrowed = z.sweepBorrowed
      /\ r.config = z.config /\ r.callAmount = z.callAmount /\ r.callTime = z.callTime
      /\ r.spreadDate = z.spreadDate
  BY <1>4 DEF StabilizerStorage
<1> HIDE DEF r
<1>8. Timed(r, w.now)
  BY <1>2, <1>7 DEF Timed
<1>9. Auctioned(r)
  <2>1. CASE callMissed(w, s)
    BY <1>1, <1>7, <2>1 DEF callMissed, Auctioned
  <2>2. CASE w.stab[s].sweepBorrowed > 0
    BY <1>1, <1>7, <2>2 DEF Auctioned
  <2> QED
    BY <1>3, <2>1, <2>2 DEF isDefaulted
<1>10. GoodWorld(x) /\ OnlyStab(w, x, s, r)
  BY <1>1, <1>6, <1>7, <1>8, SetStab
<1>11. \A q \in Stabilizers : x.stab[q] = IF q = s THEN r ELSE w.stab[q]
  BY <1>2, <1>10, OtherStabs DEF OnlyStab
<1>12. x.sweep = w.sweep /\ x.now = w.now
  BY <1>10 DEF OnlyStab
<1> QED
  BY <1>1, <1>3, <1>7, <1>9, <1>10, <1>11, <1>12 DEF Follows, Gap

\* configure, setLoanLimit
LEMMA ConfigFollows ==
    ASSUME NEW w, GoodWorld(w), NEW s \in Stabilizers, NEW c \in Config,
           c.callDelay = w.stab[s].config.callDelay \/ c \in Configs
    PROVE  Follows(w, [w EXCEPT !.stab[s].config = c])
<1>1. PICK z \in StabilizerStorage : z = w.stab[s]
  BY WorldFields DEF GoodWorld
<1>2. w \in Worlds /\ Timed(z, w.now)
  BY <1>1 DEF GoodWorld
<1> DEFINE r == [z EXCEPT !.config = c]
           x == [w EXCEPT !.stab[s].config = c]
<1>3. x = [w EXCEPT !.stab[s] = r]
  BY <1>1, <1>2 DEF Worlds, StabilizerStorage
<1>4. /\ r \in StabilizerStorage /\ r.sweepBorrowed = z.sweepBorrowed
      /\ r.config = c /\ r.callAmount = z.callAmount /\ r.callTime = z.callTime
      /\ r.spreadDate = z.spreadDate /\ r.startingPrice = z.startingPrice
      /\ r.startingTime = z.startingTime
  BY DEF StabilizerStorage
<1> HIDE DEF r, x
<1>5. Timed(r, w.now)
  BY <1>2, <1>4 DEF Timed
<1>6. GoodWorld(x) /\ OnlyStab(w, x, s, r)
  BY <1>3, <1>4, <1>5, SetStab
<1>7. x.sweep = w.sweep /\ x.now = w.now
  BY <1>6 DEF OnlyStab
<1>8. \A q \in Stabilizers : x.stab[q] = IF q = s THEN r ELSE w.stab[q]
  BY <1>3, <1>4, <1>5, SetStab
<1>9. ASSUME NEW q \in Stabilizers
      PROVE  /\ Gap(x, q) = Gap(w, q)
             /\ \/ x.stab[q].config.callDelay = w.stab[q].config.callDelay
                \/ \E d \in Configs : x.stab[q].config.callDelay = d.callDelay
             /\ w.stab[q].config.callDelay = 0 /\ Auctioned(w.stab[q]) => Auctioned(x.stab[q])
             /\ x.stab[q].startingPrice = w.stab[q].startingPrice
             /\ x.stab[q].startingTime = w.stab[q].startingTime
  <2>1. CASE q = s
    BY <1>1, <1>4, <1>7, <1>8, <2>1 DEF Gap, Auctioned
  <2>2. CASE q # s
    BY <1>7, <1>8, <2>2 DEF Gap
  <2> QED
    BY <2>1, <2>2
<1>10. Follows(w, x)
  BY <1>6, <1>7, <1>9 DEF Follows
<1> QED
  BY <1>10 DEF x

\* propose, reject, pause, unpause
LEMMA SwitchesKept ==
    ASSUME NEW w, GoodWorld(w), NEW s \in Stabilizers, NEW enabled \in BOOLEAN,
           NEW halted \in BOOLEAN
    PROVE  Kept(w, [w EXCEPT !.stab[s].settingsEnabled = enabled, !.stab[s].paused = halted])
<1>1. PICK z \in StabilizerStorage : z = w.stab[s]
  BY WorldFields DEF GoodWorld
<1>2. w \in Worlds /\ Timed(z, w.now)
  BY <1>1 DEF GoodWorld
<1> DEFINE r == [z EXCEPT !.settingsEnabled = enabled, !.paused = halted]
           x == [w EXCEPT !.stab[s].settingsEnabled = enabled, !.stab[s].paused = halted]
<1>3. x = [w EXCEPT !.stab[s] = r]
  BY <1>1, <1>2 DEF Worlds, StabilizerStorage
<1>4. /\ r \in StabilizerStorage /\ r.sweepBorrowed = z.sweepBorrowed
      /\ r.config = z.config /\ r.callAmount = z.callAmount /\ r.callTime = z.callTime
      /\ r.spreadDate = z.spreadDate /\ r.startingPrice = z.startingPrice
      /\ r.startingTime = z.startingTime
  BY DEF StabilizerStorage
<1> HIDE DEF r, x
<1>5. Timed(r, w.now) /\ (Auctioned(w.stab[s]) => Auctioned(r))
  BY <1>1, <1>2, <1>4 DEF Timed, Auctioned
<1>6. Kept(w, x)
  BY <1>1, <1>3, <1>4, <1>5, StabKept
<1> QED
  BY <1>6 DEF x

LEMMA ProposeKept ==
    ASSUME NEW w, GoodWorld(w), NEW s \in Stabilizers
    PROVE  Kept(w, [w EXCEPT !.stab[s].settingsEnabled = FALSE])
<1>1. w \in Worlds /\ w.stab[s] \in StabilizerStorage
  BY WorldFields DEF GoodWorld
<1>2. PICK halted \in BOOLEAN : halted = w.stab[s].paused
  BY <1>1 DEF StabilizerStorage
<1>3. [w EXCEPT !.stab[s].settingsEnabled = FALSE] =
      [w EXCEPT !.stab[s].settingsEnabled = FALSE, !.stab[s].paused = halted]
  BY <1>1, <1>2 DEF Worlds, StabilizerStorage
<1> QED
  BY <1>3, SwitchesKept

\* A new configuration, and at the same fee it moves no value; nor does a proposal.
LEMMA ConfigGood ==
    ASSUME NEW w, GoodWorld(w), NEW s \in Stabilizers, NEW c \in Config
    PROVE  LET x == [w EXCEPT !.stab[s].config = c]
           IN  /\ GoodWorld(x) /\ SameHoldings(w, x) /\ x.sweep = w.sweep /\ x.now = w.now
               /\ x.stab[s].config = c
               /\ x.stab[s].sweepBorrowed = w.stab[s].sweepBorrowed
               /\ x.stab[s].spreadDate = w.stab[s].spreadDate
<1>1. PICK z \in StabilizerStorage : z = w.stab[s]
  BY WorldFields DEF GoodWorld
<1>2. w \in Worlds /\ Timed(z, w.now)
  BY <1>1 DEF GoodWorld
<1> DEFINE r == [z EXCEPT !.config = c]
           x == [w EXCEPT !.stab[s].config = c]
<1>3. x = [w EXCEPT !.stab[s] = r]
  BY <1>1, <1>2 DEF Worlds, StabilizerStorage
<1>4. /\ r \in StabilizerStorage /\ r.sweepBorrowed = z.sweepBorrowed
      /\ r.config = c /\ r.callAmount = z.callAmount /\ r.callTime = z.callTime
      /\ r.spreadDate = z.spreadDate
  BY DEF StabilizerStorage
<1> HIDE DEF r, x
<1>5. Timed(r, w.now)
  BY <1>2, <1>4 DEF Timed
<1>6. GoodWorld(x) /\ OnlyStab(w, x, s, r)
  BY <1>3, <1>4, <1>5, SetStab
<1>7. SameHoldings(w, x)
  BY <1>2, <1>3, StabHoldings
<1>8. x.stab[s] = r
  BY <1>2, <1>6, WorldFields DEF OnlyStab
<1>9. x.sweep = w.sweep /\ x.now = w.now
  BY <1>6 DEF OnlyStab
<1> QED
  BY <1>1, <1>4, <1>6, <1>7, <1>8, <1>9 DEF x

LEMMA ConfigGains ==
    ASSUME NEW w, GoodWorld(w), NEW s \in Stabilizers, NEW c \in Config,
           c.protocolFee = w.stab[s].config.protocolFee,
           NEW x, x = [w EXCEPT !.stab[s].config = c]
    PROVE  Gains(w, x, s, 0)
<1>1. /\ GoodWorld(x) /\ SameHoldings(w, x) /\ x.sweep = w.sweep /\ x.now = w.now
      /\ x.stab[s].config = c
      /\ x.stab[s].sweepBorrowed = w.stab[s].sweepBorrowed
      /\ x.stab[s].spreadDate = w.stab[s].spreadDate
  BY ConfigGood
<1> QED
  BY <1>1, SameDebtGains

LEMMA ProposeGains ==
    ASSUME NEW w, GoodWorld(w), NEW s \in Stabilizers
    PROVE  Gains(w, [w EXCEPT !.stab[s].settingsEnabled = FALSE], s, 0)
<1>1. PICK z \in StabilizerStorage : z = w.stab[s]
  BY WorldFields DEF GoodWorld
<1>2. w \in Worlds
  BY DEF GoodWorld
<1> DEFINE r == [z EXCEPT !.settingsEnabled = FALSE]
           x == [w EXCEPT !.stab[s].settingsEnabled = FALSE]
<1>3. x = [w EXCEPT !.stab[s] = r]
  BY <1>1, <1>2 DEF Worlds, StabilizerStorage
<1>4. /\ r \in StabilizerStorage /\ r.sweepBorrowed = z.sweepBorrowed
      /\ r.config = z.config /\ r.callAmount = z.callAmount /\ r.callTime = z.callTime
      /\ r.spreadDate = z.spreadDate
  BY DEF StabilizerStorage
<1> HIDE DEF r, x
<1>5. Timed(r, w.now)
  BY <1>1, <1>4 DEF Timed, GoodWorld
<1>6. GoodWorld(x) /\ OnlyStab(w, x, s, r)
  BY <1>3, <1>4, <1>5, SetStab
<1>7. SameHoldings(w, x)
  BY <1>2, <1>3, StabHoldings
<1>8. x.stab[s] = r
  BY <1>2, <1>6, WorldFields DEF OnlyStab
<1>9. x.sweep = w.sweep /\ x.now = w.now
  BY <1>6 DEF OnlyStab
<1>10. Gains(w, x, s, 0)
  BY <1>1, <1>4, <1>6, <1>7, <1>8, <1>9, SameDebtGains
<1> QED
  BY <1>10 DEF x

LEMMA PauseKept ==
    ASSUME NEW w, GoodWorld(w), NEW s \in Stabilizers, NEW halted \in BOOLEAN
    PROVE  Kept(w, [w EXCEPT !.stab[s].paused = halted])
<1>1. w \in Worlds /\ w.stab[s] \in StabilizerStorage
  BY WorldFields DEF GoodWorld
<1>2. PICK enabled \in BOOLEAN : enabled = w.stab[s].settingsEnabled
  BY <1>1 DEF StabilizerStorage
<1>3. [w EXCEPT !.stab[s].paused = halted] =
      [w EXCEPT !.stab[s].settingsEnabled = enabled, !.stab[s].paused = halted]
  BY <1>1, <1>2 DEF Worlds, StabilizerStorage
<1> QED
  BY <1>3, SwitchesKept

\* addMinter, removeMinter, pause and unpause of the token
LEMMA TokenFollows ==
    ASSUME NEW w, GoodWorld(w), NEW s \in Stabilizers, NEW cap \in Nat,
           NEW x \in SweepCall(w, AddMinter(w.sweep, s, cap) \cup RemoveMinter(w.sweep, s)
                                     \cup Pause(w.sweep) \cup Unpause(w.sweep))
    PROVE  Follows(w, x)
<1>1. PICK t0 : t0 = w.sweep
  OBVIOUS
<1>2. Good(t0) /\ UnlistedZero(t0) /\ s \in Accounts
  BY <1>1, Who DEF GoodWorld
<1>3. PICK t \in AddMinter(t0, s, cap) \cup RemoveMinter(t0, s) \cup Pause(t0) \cup Unpause(t0) :
         x = [w EXCEPT !.sweep = t]
  BY <1>1 DEF SweepCall
<1>4. /\ Good(t) /\ UnlistedZero(t)
      /\ \A q \in Stabilizers :
            \/ t.minters[q].mintedAmount = t0.minters[q].mintedAmount
            \/ t0.minters[q].isListed /\ ~t.minters[q].isListed
  <2>1. CASE t \in AddMinter(t0, s, cap)
    <3>1. /\ Good(t) /\ ~t0.minters[s].isListed
          /\ t.minters[s].isListed /\ t.minters[s].mintedAmount = 0
          /\ \A a \in Accounts \ {s} : t.minters[a] = t0.minters[a]
      BY <1>2, <2>1, AddMinterGood
    <3>2. t0.minters[s].mintedAmount = 0
      BY <1>2, <3>1 DEF UnlistedZero
    <3> QED
      BY <1>2, <3>1, <3>2, Who DEF UnlistedZero
  <2>2. CASE t \in RemoveMinter(t0, s)
    <3>1. /\ Good(t) /\ t0.minters[s].isListed
          /\ ~t.minters[s].isListed /\ t.minters[s].mintedAmount = 0
          /\ \A a \in Accounts \ {s} : t.minters[a] = t0.minters[a]
      BY <1>2, <2>2, RemoveMinterGood
    <3> QED
      BY <1>2, <3>1, Who DEF UnlistedZero
  <2>3. CASE t \in Pause(t0) \cup Unpause(t0)
    <3>1. Good(t) /\ t.minters = t0.minters
      BY <1>2, <2>3, SwitchGood
    <3> QED
      BY <1>2, <3>1 DEF UnlistedZero
  <2> QED
    BY <1>3, <2>1, <2>2, <2>3
<1>5. GoodWorld(x) /\ x.sweep = t /\ SameBooks(w, x)
  BY <1>3, <1>4, SetSweep
<1> QED
  BY <1>1, <1>4, <1>5 DEF Follows, Gap, SameBooks

\* What a debt is worth after it was divided by the ratio of two prices, rounded twice.
LEMMA WrittenOffWorth ==
    ASSUME NEW b \in Nat, NEW old \in Nat \ {0}, NEW new \in Nat \ {0},
           NEW p \in Nat \ {0}, NEW unit \in Nat \ {0},
           NEW c \in Int, c = (b * ((p * old) \div new)) \div p
    PROVE  /\ (c * new) \div unit =< (b * old) \div unit
           /\ unit * ((b * old) \div unit - (c * new) \div unit) =< new * (b \div p + 2) + unit
<1>1. PICK m \in Int :
         /\ m = (p * old) \div new
         /\ new * m \in Int /\ new * m =< p * old /\ p * old - new =< new * m
  BY Rounded
<1>2. /\ p * c \in Int /\ b * m \in Int
      /\ p * c =< b * m /\ b * m - p =< p * c
  BY <1>1, Rounded
<1>3. PICK q \in Int : q = b \div p /\ b =< p * (q + 1)
  <2>1. PICK q \in Int : q = b \div p /\ b < p * q + p
    BY Rounded
  <2>2. p * (q + 1) = p * q + p
    OBVIOUS
  <2> QED
    BY <2>1, <2>2
<1>4. PICK value \in Int, rest \in Int : value = b * old /\ rest = c * new
  OBVIOUS
<1>5. rest =< value
  <2>1. new * (p * c) =< new * (b * m)
    BY <1>2, Product
  <2>2. b * (new * m) =< b * (p * old)
    BY <1>1, Product
  <2>3. /\ new * (p * c) = p * rest /\ new * (b * m) = b * (new * m)
        /\ b * (p * old) = p * value /\ p * rest \in Int /\ p * value \in Int
        /\ b * (new * m) \in Int
    BY <1>4
  <2>4. p * rest =< p * value
    BY <2>1, <2>2, <2>3
  <2> QED
    BY <2>4, Cancelled
<1>6. value - new * (q + 2) =< rest
  <2>1. new * (b * m - p) =< new * (p * c)
    BY <1>2, Product
  <2>2. b * (p * old - new) =< b * (new * m)
    BY <1>1, Product
  <2>3. new * b =< new * (p * (q + 1))
    BY <1>3, Product
  <2>4. /\ new * (b * m - p) = b * (new * m) - p * new
        /\ b * (p * old - new) = p * value - new * b
        /\ new * (p * (q + 1)) = p * (new * (q + 2)) - p * new
        /\ new * (p * c) = p * rest
        /\ p * (value - new * (q + 2)) = p * value - p * (new * (q + 2))
    BY <1>4
  <2>5. PICK n1 \in Int, n2 \in Int, n3 \in Int, n4 \in Int, n5 \in Int, n6 \in Int :
           /\ n1 = b * (new * m) /\ n2 = p * new /\ n3 = p * value /\ n4 = new * b
           /\ n5 = p * (new * (q + 2)) /\ n6 = p * rest
    OBVIOUS
  <2>6. p * (value - new * (q + 2)) =< p * rest
    BY <2>1, <2>2, <2>3, <2>4, <2>5
  <2>7. value - new * (q + 2) \in Int
    OBVIOUS
  <2> QED
    BY <2>6, <2>7, Cancelled
<1>7. PICK before \in Int, after \in Int :
         /\ before = value \div unit /\ after = rest \div unit /\ after =< before
         /\ unit * before =< value /\ rest - unit =< unit * after
         /\ unit * before \in Int /\ unit * after \in Int
  BY <1>5, Divided, Rounded
<1>8. unit * (before - after) =< new * (q + 2) + unit
  <2>1. unit * (before - after) = unit * before - unit * after /\ new * (q + 2) \in Int
    OBVIOUS
  <2> QED
    BY <1>6, <1>7, <2>1
<1> QED
  BY <1>3, <1>4, <1>7, <1>8

\* What has accrued on a price shows in the worth of a debt once, rounded twice.
LEMMA AccruedOnce ==
    ASSUME NEW c \in Nat, NEW new \in Nat, NEW accrued \in Nat,
           NEW one \in Nat \ {0}, NEW unit \in Nat \ {0}
    PROVE  one * ((c * ((new * accrued) \div one)) \div unit)
               =< ((c * new) \div unit + 1) * accrued
<1>1. PICK price \in Int : /\ price = (new * accrued) \div one
                          /\ one * price \in Int /\ one * price =< new * accrued
  BY Rounded
<1>2. PICK after \in Int : /\ after = (c * price) \div unit
                          /\ unit * after \in Int /\ unit * after =< c * price
  BY Rounded
<1>3. PICK ruled \in Int : ruled = (c * new) \div unit /\ c * new =< unit * (ruled + 1)
  <2>1. PICK q \in Int : q = (c * new) \div unit /\ c * new < unit * q + unit
    BY Rounded
  <2>2. unit * (q + 1) = unit * q + unit
    OBVIOUS
  <2> QED
    BY <2>1, <2>2
<1>4. unit * (one * after) =< unit * ((ruled + 1) * accrued)
  <2>1. one * (unit * after) =< one * (c * price)
    BY <1>2, Product
  <2>2. c * (one * price) =< c * (new * accrued)
    BY <1>1, Product
  <2>3. accrued * (c * new) =< accrued * (unit * (ruled + 1))
    BY <1>3, Product
  <2>4. /\ one * (unit * after) = unit * (one * after) /\ one * (c * price) = c * (one * price)
        /\ c * (new * accrued) = accrued * (c * new)
        /\ accrued * (unit * (ruled + 1)) = unit * ((ruled + 1) * accrued)
    OBVIOUS
  <2>5. PICK n1 \in Int, n2 \in Int, n3 \in Int, n4 \in Int :
           /\ n1 = unit * (one * after) /\ n2 = c * (one * price)
           /\ n3 = accrued * (c * new) /\ n4 = unit * ((ruled + 1) * accrued)
    OBVIOUS
  <2> QED
    BY <2>1, <2>2, <2>3, <2>4, <2>5
<1>5. one * after \in Int /\ (ruled + 1) * accrued \in Int
  OBVIOUS
<1> QED
  BY <1>1, <1>2, <1>3, <1>4, <1>5, Cancelled

LEMMA WriteOffFollows ==
    ASSUME NEW w, GoodWorld(w), NEW newPrice \in TargetPrices, NEW insolvent \in Debtors,
           NEW accrued \in Accrued, NEW x \in WriteOff(w, newPrice, insolvent, accrued),
           WritesOff(w, x)
    PROVE  Follows(w, x)
<1> DEFINE list == w.sweep.minterAddresses
           called == {list[i] : i \in 1 .. Len(list)} \ {insolvent}
           Less(q) == [w.stab[q] EXCEPT !.sweepBorrowed = WrittenOff(w, q, newPrice)]
           stabs == [q \in Stabilizers |-> IF q \in called THEN Less(q) ELSE w.stab[q]]
           answered == (newPrice * accrued) \div InterestPrecision
<1>1. /\ w \in Worlds /\ w.stab \in [Stabilizers -> StabilizerStorage]
      /\ w.targetPrice \in Nat \ {0}
  BY WorldFields DEF GoodWorld
<1>2. answered > 0 /\ x = [w EXCEPT !.targetPrice = answered, !.stab = stabs]
  BY <1>1 DEF WriteOff, Call
<1>a. newPrice \in Nat \ {0} /\ accrued \in Nat
  BY InputAssumption
<1>b. answered \in Nat
  BY <1>a, Units, MulNat, DivNat
<1> HIDE DEF answered
<1> HIDE DEF called
<1>3. ASSUME NEW q \in Stabilizers
      PROVE  WrittenOff(w, q, newPrice) \in Nat
  <2>1. PICK b \in Nat : b = w.stab[q].sweepBorrowed
    BY <1>1, StabFields
  <2>2. PICK price \in Nat \ {0} : price = w.targetPrice
    BY <1>1
  <2>3. WrittenOff(w, q, newPrice) = (b * ((Precision * price) \div newPrice)) \div Precision
    BY <2>1, <2>2 DEF WrittenOff
  <2>4. (Precision * price) \div newPrice \in Nat
    BY <1>a, Units, MulNat, DivNat
  <2>5. b * ((Precision * price) \div newPrice) \in Nat
    BY <2>4, MulNat
  <2> QED
    BY <2>3, <2>5, Units, DivNat
<1>4. ASSUME NEW q \in Stabilizers
      PROVE  /\ Less(q) \in StabilizerStorage
             /\ Less(q).callAmount = w.stab[q].callAmount
             /\ Less(q).callTime = w.stab[q].callTime
             /\ Less(q).spreadDate = w.stab[q].spreadDate
             /\ Less(q).startingPrice = w.stab[q].startingPrice
             /\ Less(q).startingTime = w.stab[q].startingTime
  <2>1. PICK z \in StabilizerStorage : z = w.stab[q]
    BY <1>1
  <2>2. PICK debt \in Nat : debt = WrittenOff(w, q, newPrice)
    BY <1>3
  <2>3. Less(q) = [z EXCEPT !.sweepBorrowed = debt]
    BY <2>1, <2>2
  <2> HIDE DEF Less
  <2>4. /\ Less(q) \in StabilizerStorage /\ Less(q).callAmount = z.callAmount
        /\ Less(q).callTime = z.callTime /\ Less(q).spreadDate = z.spreadDate
        /\ Less(q).startingPrice = z.startingPrice /\ Less(q).startingTime = z.startingTime
    BY <2>3 DEF StabilizerStorage
  <2> QED
    BY <2>1, <2>4
<1> HIDE DEF Less
<1>5. stabs \in [Stabilizers -> StabilizerStorage]
  BY <1>1, <1>4
<1>6. \A q \in Stabilizers : stabs[q] = IF q \in called THEN Less(q) ELSE w.stab[q]
  OBVIOUS
<1> HIDE DEF stabs
<1>c. answered \in Nat \ {0}
  BY <1>2, <1>b
<1>7. /\ x \in Worlds /\ x.stab = stabs /\ x.sweep = w.sweep /\ x.now = w.now
  BY <1>1, <1>2, <1>5, <1>c DEF Worlds
<1>8. GoodWorld(x)
  BY <1>4, <1>6, <1>7 DEF GoodWorld, Timed
<1> QED
  BY <1>4, <1>6, <1>7, <1>8 DEF Follows

\* A write-off sets the price and rescales the debt of every minter but one.
LEMMA WriteOffIs ==
    ASSUME NEW w, GoodWorld(w), NEW newPrice, NEW insolvent, NEW accrued,
           NEW x \in WriteOff(w, newPrice, insolvent, accrued),
           NEW s \in Stabilizers, s # insolvent, w.sweep.minters[s].isListed
    PROVE  /\ x.targetPrice = (newPrice * accrued) \div InterestPrecision
           /\ x.stab[s].sweepBorrowed = WrittenOff(w, s, newPrice)
<1> DEFINE list == w.sweep.minterAddresses
           called == {list[i] : i \in 1 .. Len(list)} \ {insolvent}
           stabs == [q \in Stabilizers |->
                       IF q \in called
                       THEN [w.stab[q] EXCEPT !.sweepBorrowed = WrittenOff(w, q, newPrice)]
                       ELSE w.stab[q]]
<1>1. w \in Worlds /\ w.stab \in [Stabilizers -> StabilizerStorage]
  BY WorldFields DEF GoodWorld
<1>b. PICK answered : answered = (newPrice * accrued) \div InterestPrecision
  OBVIOUS
<1>2. x = [w EXCEPT !.targetPrice = answered, !.stab = stabs]
  BY <1>1, <1>b DEF WriteOff, Call
<1>3. s \in called
  BY Who DEF GoodWorld, Good, ListConsistent, Entries
<1> HIDE DEF called
<1>4. PICK r \in StabilizerStorage : r = w.stab[s]
  BY <1>1
<1>a. PICK debt : debt = WrittenOff(w, s, newPrice)
  OBVIOUS
<1>5. stabs[s] = [r EXCEPT !.sweepBorrowed = debt]
  BY <1>3, <1>4, <1>a
<1> HIDE DEF stabs
<1>6. x.targetPrice = answered /\ x.stab = stabs
  BY <1>1, <1>2 DEF Worlds
<1>7. stabs[s].sweepBorrowed = debt
  BY <1>5 DEF StabilizerStorage
<1> QED
  BY <1>4, <1>a, <1>b, <1>6, <1>7

-------------------------------------------------------------------------------
(* The world outside *)

LEMMA UpdateValueKept ==
    ASSUME NEW w, GoodWorld(w), NEW s \in Stabilizers, NEW value \in Nat
    PROVE  Kept(w, UpdateValue(w, s, value))
<1>1. PICK z \in OffChainStorage : z = w.off[s]
  BY WorldFields DEF GoodWorld
<1>2. w \in Worlds
  BY DEF GoodWorld
<1> DEFINE r == [z EXCEPT !.actualValue = value]
<1>3. UpdateValue(w, s, value) = [w EXCEPT !.off[s] = r]
  BY <1>1, <1>2 DEF UpdateValue, Worlds, OffChainStorage
<1>4. r \in OffChainStorage
  BY DEF OffChainStorage
<1> HIDE DEF r
<1>5. PICK x : x = UpdateValue(w, s, value)
  OBVIOUS
<1>6. GoodWorld(x) /\ SameBooks(w, x) /\ x.sweep = w.sweep
  BY <1>3, <1>4, <1>5, SetOff
<1> QED
  BY <1>5, <1>6, BooksKept

LEMMA TickFollows ==
    ASSUME NEW w, GoodWorld(w)
    PROVE  Follows(w, [w EXCEPT !.now = @ + 1])
<1>1. PICK time \in Nat : time = w.now
  BY WorldFields DEF GoodWorld
<1>2. PICK later \in Nat : later = time + 1
  OBVIOUS
<1> DEFINE x == [w EXCEPT !.now = later]
<1>3. x = [w EXCEPT !.now = @ + 1]
  BY <1>1, <1>2
<1>4. x \in Worlds /\ x.sweep = w.sweep /\ x.stab = w.stab /\ x.now = later
  BY DEF GoodWorld, Worlds
<1> HIDE DEF x
<1>5. \A q \in Stabilizers : Timed(x.stab[q], later)
  <2>1. ASSUME NEW q \in Stabilizers
        PROVE  Timed(x.stab[q], later)
    <3>1. Timed(w.stab[q], time) /\ w.stab[q].spreadDate \in Nat
      BY <1>1, StabFields DEF GoodWorld
    <3> QED
      BY <1>2, <1>4, <3>1 DEF Timed
  <2> QED
    BY <2>1
<1>6. Follows(w, x)
  BY <1>1, <1>2, <1>4, <1>5 DEF Follows, GoodWorld, Gap
<1> QED
  BY <1>3, <1>6

LEMMA OracleKept ==
    ASSUME NEW w, GoodWorld(w), NEW u \in Nat \ {0}, NEW t \in Nat \ {0}
    PROVE  Kept(w, [w EXCEPT !.usdxPrice = u, !.tokenPrice = t])
<1> DEFINE x == [w EXCEPT !.usdxPrice = u, !.tokenPrice = t]
<1>1. x \in Worlds /\ x.sweep = w.sweep /\ x.stab = w.stab /\ x.now = w.now
  BY DEF GoodWorld, Worlds
<1> HIDE DEF x
<1>2. Kept(w, x)
  BY <1>1 DEF Kept, GoodWorld, Gap
<1> QED
  BY <1>2 DEF x

LEMMA TargetPriceKept ==
    ASSUME NEW w, GoodWorld(w), NEW p \in Nat \ {0}
    PROVE  Kept(w, [w EXCEPT !.targetPrice = p])
<1> DEFINE x == [w EXCEPT !.targetPrice = p]
<1>1. x \in Worlds /\ x.sweep = w.sweep /\ x.stab = w.stab /\ x.now = w.now
  BY DEF GoodWorld, Worlds
<1> HIDE DEF x
<1>2. Kept(w, x)
  BY <1>1 DEF Kept, GoodWorld, Gap
<1> QED
  BY <1>2 DEF x

LEMMA CooldownKept ==
    ASSUME NEW w, GoodWorld(w), NEW s \in Stabilizers, NEW wait \in Nat
    PROVE  Kept(w, [w EXCEPT !.claim[s].duration = wait])
<1>1. w \in Worlds /\ w.claim[s] \in Claim
  BY WorldFields DEF GoodWorld
<1>2. PICK r \in Claim : r = [w.claim[s] EXCEPT !.duration = wait]
  BY <1>1 DEF Claim
<1>3. PICK x : x = [w EXCEPT !.claim[s].duration = wait]
  OBVIOUS
<1>4. x = [w EXCEPT !.usdx = w.usdx, !.token = w.token,
                    !.claim = [w.claim EXCEPT ![s] = r]]
  BY <1>1, <1>2, <1>3 DEF Worlds
<1>5. w.usdx \in [Accounts -> Nat] /\ w.token \in [Accounts -> Nat]
  BY <1>1, WorldFields
<1>6. Kept(w, x)
  BY <1>4, <1>5, TradeKept
<1> QED
  BY <1>3, <1>6

-------------------------------------------------------------------------------
(* The steps *)

\* The step ends in w.
Becomes(w) ==
    /\ sweep' = w.sweep /\ targetPrice' = w.targetPrice
    /\ usdx' = w.usdx /\ token' = w.token
    /\ usdxPrice' = w.usdxPrice /\ tokenPrice' = w.tokenPrice
    /\ stab' = w.stab /\ off' = w.off /\ claim' = w.claim /\ now' = w.now

LEMMA BecomesWorld ==
    ASSUME NEW w \in Worlds, Becomes(w)
    PROVE  World' = w
  BY DEF Becomes, World, Worlds

LEMMA Inputs ==
    /\ Configs \subseteq Config /\ Amounts \subseteq Nat
    /\ \A s \in Stabilizers :
          AmountsOf[s] \subseteq Nat /\ SlippagesOf[s] \subseteq 0 .. Precision
    /\ UsdxPrices \subseteq Nat \ {0} /\ TokenPrices \subseteq Nat \ {0}
    /\ TargetPrices \subseteq Nat \ {0} /\ Accrued \subseteq Nat
    /\ AgentValues \subseteq Nat /\ Waits \subseteq Nat /\ Cap \in Nat /\ Junior \in Nat /\ Pool \in Nat
  BY InputAssumption DEF Amounts

LEMMA BorrowerStep ==
    ASSUME NEW s \in Stabilizers, GoodWorld(World), Borrower(s)
    PROVE  \E x : Becomes(x) /\ Follows(World, x)
<1>1. CASE payFee(s)
  <2>1. PICK x \in PayFee(World, s) : Becomes(x)
    BY <1>1 DEF payFee, Do, Becomes
  <2> QED
    BY <2>1, PayFeeKept, KeptFollows
<1>2. CASE propose(s)
  <2>1. Becomes([World EXCEPT !.stab[s].settingsEnabled = FALSE])
    BY <1>2, Zenon DEF propose, Do, Becomes
  <2> QED
    BY <2>1, ProposeKept, KeptFollows
<1>3. ASSUME NEW c \in Configs, configure(s, c)
      PROVE  \E x : Becomes(x) /\ Follows(World, x)
  <2>1. Becomes([World EXCEPT !.stab[s].config = c])
    BY <1>3, Zenon DEF configure, Do, Becomes
  <2> QED
    BY <2>1, Inputs, ConfigFollows
<1>4. ASSUME NEW a \in AmountsOf[s], borrow(s, a)
      PROVE  \E x : Becomes(x) /\ Follows(World, x)
  <2>1. PICK x \in BorrowAndCheck(World, s, a) : Becomes(x)
    BY <1>4 DEF borrow, Do, Becomes
  <2>2. x \in Borrow(World, s, a) /\ a \in Nat
    BY <2>1, Inputs DEF BorrowAndCheck
  <2> QED
    BY <2>1, <2>2, BorrowKept, KeptFollows
<1>5. ASSUME NEW a \in AmountsOf[s], repay(s, a)
      PROVE  \E x : Becomes(x) /\ Follows(World, x)
  <2>1. PICK x \in Repay(World, s, a) : Becomes(x)
    BY <1>5 DEF repay, Do, Becomes
  <2>2. a \in Int
    BY Inputs
  <2> QED
    BY <2>1, <2>2, RepayKept, KeptFollows
<1>6. ASSUME NEW a \in AmountsOf[s], withdraw(s, a)
      PROVE  \E x : Becomes(x) /\ Follows(World, x)
  <2>1. PICK x \in WithdrawSweep(World, s, a) \cup WithdrawUsdx(World, s, a)
                      \cup WithdrawToken(World, s, a) : Becomes(x)
    BY <1>6 DEF withdraw, Do, Becomes
  <2>2. a \in Nat
    BY Inputs
  <2> QED
    BY <2>1, <2>2, WithdrawKept, KeptFollows
<1>7. ASSUME NEW a \in AmountsOf[s], NEW b \in AmountsOf[s], investOffChain(s, a, b)
      PROVE  \E x : Becomes(x) /\ Follows(World, x)
  <2>1. PICK x \in OffChainInvest(World, s, a, b) : Becomes(x)
    BY <1>7 DEF investOffChain, Do, Becomes
  <2>2. a \in Nat /\ b \in Nat
    BY Inputs
  <2> QED
    BY <2>1, <2>2, OffChainInvestKept, KeptFollows
<1>8. ASSUME NEW a \in AmountsOf[s], NEW sl \in SlippagesOf[s],
             invest(s, a, sl) \/ divest(s, a, sl)
                \/ buySweepOnAMM(s, a, sl) \/ sellSweepOnAMM(s, a, sl)
      PROVE  \E x : Becomes(x) /\ Follows(World, x)
  <2>1. PICK x \in Invest(World, s, a, sl) \cup Divest(World, s, a, sl)
                      \cup Buy(World, s, a, sl) \cup Sell(World, s, a, sl) : Becomes(x)
    BY <1>8 DEF invest, divest, buySweepOnAMM, sellSweepOnAMM, Do, Becomes
  <2>2. a \in Nat /\ sl \in 0 .. Precision
    BY Inputs
  <2> QED
    BY <2>1, <2>2, InvestKept, DivestKept, BuyKept, SellKept, KeptFollows
<1>9. ASSUME NEW a \in AmountsOf[s], NEW sl \in SlippagesOf[s], NEW useAMM \in BOOLEAN,
             oneStepInvest(s, a, sl, useAMM)
      PROVE  \E x : Becomes(x) /\ Follows(World, x)
  <2>1. PICK x \in OneStepInvest(World, s, a, sl, useAMM) : Becomes(x)
    BY <1>9 DEF oneStepInvest, Do, Becomes
  <2>2. x \in BorrowAndInvest(World, s, a, sl, useAMM) /\ a \in Nat /\ sl \in 0 .. Precision
    BY <2>1, Inputs DEF OneStepInvest
  <2> QED
    BY <2>1, <2>2, BorrowAndInvestKept, KeptFollows
<1>10. ASSUME NEW a \in AmountsOf[s], NEW sl \in SlippagesOf[s], NEW useAMM \in BOOLEAN,
              oneStepDivest(s, a, sl, useAMM)
       PROVE  \E x : Becomes(x) /\ Follows(World, x)
  <2>1. PICK x \in OneStepDivest(World, s, a, sl, useAMM) : Becomes(x)
    BY <1>10 DEF oneStepDivest, Do, Becomes
  <2>2. a \in Nat /\ sl \in 0 .. Precision
    BY Inputs
  <2> QED
    BY <2>1, <2>2, OneStepDivestKept, KeptFollows
<1>11. ASSUME NEW a \in AmountsOf[s],
              investMint(s, a) \/ divestRedeem(s, a) \/ requestRedeem(s, a)
       PROVE  \E x : Becomes(x) /\ Follows(World, x)
  <2>1. PICK x \in InvestMint(World, s, a) \cup DivestRedeem(World, s, a)
                      \cup EthenaRequest(World, s, a) \cup MapleRequest(World, s, a) :
           Becomes(x)
    BY <1>11 DEF investMint, divestRedeem, requestRedeem, Do, Becomes
  <2>2. a \in Nat
    BY Inputs
  <2> QED
    BY <2>1, <2>2, InvestMintKept, DivestRedeemKept, EthenaRequestKept, MapleRequestKept,
       KeptFollows
<1> QED
  BY <1>1, <1>2, <1>3, <1>4, <1>5, <1>6, <1>7, <1>8, <1>9, <1>10, <1>11 DEF Borrower

LEMMA AnybodyStep ==
    ASSUME NEW s \in Stabilizers, GoodWorld(World), Anybody(s)
    PROVE  \E x : Becomes(x) /\ Follows(World, x)
<1>1. CASE startAuction(s)
  <2>1. PICK x \in StartAuction(World, s) : Becomes(x)
    BY <1>1 DEF startAuction, Do, Becomes
  <2> QED
    BY <2>1, StartAuctionFollows
<1>2. CASE buyAuction(s)
  <2>1. PICK x \in BuyAuction(World, s) : Becomes(x)
    BY <1>2 DEF buyAuction, Do, Becomes
  <2> QED
    BY <2>1, BuyAuctionKept, KeptFollows
<1>3. CASE liquidate(s)
  <2>1. PICK debt \in Int : debt = getDebt(World, s)
    BY FeeNat
  <2>2. PICK x \in Liquidate(World, s, debt) : Becomes(x)
    BY <1>3, <2>1 DEF liquidate, Do, Becomes
  <2> QED
    BY <2>2, LiquidateKept, KeptFollows
<1>4. ASSUME NEW a \in AmountsOf[s], deposit(s, a)
      PROVE  \E x : Becomes(x) /\ Follows(World, x)
  <2>1. PICK x \in SweepTransfer(World, Outside, s, a) \cup UsdxTransfer(World, Outside, s, a) :
           Becomes(x)
    BY <1>4 DEF deposit, Do, Becomes
  <2>2. a \in Nat
    BY Inputs
  <2> QED
    BY <2>1, <2>2, Who, SweepTransferKept, UsdxTransferKept, KeptFollows
<1>5. ASSUME NEW a \in AmountsOf[s], NEW c \in {"sweep", "usdx"}, payback(s, c, a)
      PROVE  \E x : Becomes(x) /\ Follows(World, x)
  <2>1. PICK x \in Payback(World, s, c, a) : Becomes(x)
    BY <1>5 DEF payback, Do, Becomes
  <2>2. a \in Nat
    BY Inputs
  <2> QED
    BY <2>1, <2>2, PaybackKept, KeptFollows
<1>6. ASSUME NEW v \in AgentValues, updateValue(s, v)
      PROVE  \E x : Becomes(x) /\ Follows(World, x)
  <2>1. Becomes(UpdateValue(World, s, v))
    BY <1>6, Zenon DEF updateValue, Do, Becomes
  <2>2. v \in Nat
    BY Inputs
  <2> QED
    BY <2>1, <2>2, UpdateValueKept, KeptFollows
<1> QED
  BY <1>1, <1>2, <1>3, <1>4, <1>5, <1>6 DEF Anybody

LEMMA BalancerStep ==
    ASSUME NEW s \in Stabilizers, GoodWorld(World), Balancer(s)
    PROVE  \E x : Becomes(x) /\ Follows(World, x)
<1>1. CASE cancelCall(s)
  <2>1. Becomes(CancelCall(World, s))
    BY <1>1, Zenon DEF cancelCall, Do, Becomes
  <2> QED
    BY <2>1, CancelCallKept, KeptFollows
<1>2. ASSUME NEW a \in AmountsOf[s], setLoanLimit(s, a)
      PROVE  \E x : Becomes(x) /\ Follows(World, x)
  <2>1. PICK z \in Config : z = World.stab[s].config
    BY StabFields DEF GoodWorld
  <2>2. Becomes([World EXCEPT !.stab[s].config.loanLimit = a])
    BY <1>2, Zenon DEF setLoanLimit, Do, Becomes
  <2> DEFINE c == [z EXCEPT !.loanLimit = a]
  <2>3. [World EXCEPT !.stab[s].config.loanLimit = a] = [World EXCEPT !.stab[s].config = c]
    BY <2>1, Zenon
  <2>4. c \in Config /\ c.callDelay = World.stab[s].config.callDelay
    BY <2>1, Inputs DEF Config
  <2> HIDE DEF c
  <2> QED
    BY <2>2, <2>3, <2>4, ConfigFollows
<1>3. ASSUME NEW a \in AmountsOf[s], NEW sl \in SlippagesOf[s], autoCall(s, a, sl)
      PROVE  \E x : Becomes(x) /\ Follows(World, x)
  <2>1. PICK x \in AutoCall(World, s, a, sl) : Becomes(x)
    BY <1>3 DEF autoCall, Do, Becomes
  <2>2. a \in Nat /\ sl \in 0 .. Precision
    BY Inputs
  <2> QED
    BY <2>1, <2>2, AutoCallKept, KeptFollows
<1>4. ASSUME NEW a \in AmountsOf[s], NEW sl \in SlippagesOf[s], autoInvest(s, a, sl)
      PROVE  \E x : Becomes(x) /\ Follows(World, x)
  <2>1. PICK x \in AutoInvest(World, s, a, sl) : Becomes(x)
    BY <1>4 DEF autoInvest, Do, Becomes
  <2>2. PICK useAMM \in BOOLEAN : useAMM = TRUE
    OBVIOUS
  <2>3. x \in BorrowAndInvest(World, s, a, sl, useAMM) /\ a \in Nat /\ sl \in 0 .. Precision
    BY <2>1, <2>2, Inputs DEF AutoInvest
  <2> QED
    BY <2>1, <2>3, BorrowAndInvestKept, KeptFollows
<1> QED
  BY <1>1, <1>2, <1>3, <1>4 DEF Balancer

LEMMA GovernanceStep ==
    ASSUME GoodWorld(World), Governance
    PROVE  \E x : Becomes(x) /\ Follows(World, x)
<1>1. CASE pauseSweep
  <2>a. PICK u \in SweepCall(World, Pause(sweep) \cup Unpause(sweep)) : Becomes(u)
    BY <1>1, Zenon DEF pauseSweep, Do, Becomes
  <2>1. PICK t \in Pause(sweep) \cup Unpause(sweep) : Becomes([World EXCEPT !.sweep = t])
    BY <2>a, Zenon DEF SweepCall
  <2>2. Good(sweep) /\ UnlistedZero(sweep)
    BY DEF GoodWorld, World
  <2>3. Good(t) /\ t.minters = sweep.minters
    BY <2>1, <2>2, SwitchGood
  <2>4. UnlistedZero(t)
    BY <2>2, <2>3 DEF UnlistedZero
  <2>5. PICK x : x = [World EXCEPT !.sweep = t]
    OBVIOUS
  <2>6. GoodWorld(x) /\ SameBooks(World, x) /\ x.sweep = t
    BY <2>3, <2>4, <2>5, SetSweep
  <2>7. World.sweep = sweep
    BY DEF World
  <2>8. Kept(World, x)
    BY <2>3, <2>6, <2>7, BooksKept
  <2> QED
    BY <2>1, <2>5, <2>8, KeptFollows
<1>2. ASSUME NEW a \in Amounts, sendToken(a)
      PROVE  \E x : Becomes(x) /\ Follows(World, x)
  <2>1. World.sweep.balanceOf = sweep.balanceOf /\ World.sweep.balanceOf \in [Accounts -> Nat]
    BY WorldFields DEF World, GoodWorld
  <2>2. PICK b \in Nat : b = Least(a, sweep.balanceOf[Treasury])
    BY <2>1, Inputs, Who, LeastNat
  <2>3. PICK x \in SweepTransfer(World, Treasury, Outside, b) : Becomes(x)
    BY <1>2, <2>2 DEF sendToken, Do, Becomes
  <2> QED
    BY <2>3, Who, SweepTransferKept, KeptFollows
<1>3. ASSUME NEW p \in TargetPrices, NEW a \in Accrued, NEW d \in Debtors, writeOff(p, d, a)
      PROVE  \E x : Becomes(x) /\ Follows(World, x)
  <2>1. PICK x \in WriteOff(World, p, d, a) : Becomes(x)
    BY <1>3 DEF writeOff, Do, Becomes
  <2>2. WritesOff(World, x)
    BY <1>3, <2>1 DEF writeOff, WritesOff
  <2> QED
    BY <2>1, <2>2, WriteOffFollows
<1>4. ASSUME NEW s \in Stabilizers, addMinter(s) \/ removeMinter(s)
      PROVE  \E x : Becomes(x) /\ Follows(World, x)
  <2>1. World.sweep = sweep
    BY DEF World
  <2>2. PICK cap \in Nat : cap = Cap
    BY Inputs
  <2>3. PICK x \in SweepCall(World, AddMinter(World.sweep, s, cap))
                      \cup SweepCall(World, RemoveMinter(World.sweep, s)) : Becomes(x)
    BY <1>4, <2>1, <2>2 DEF addMinter, removeMinter, Do, Becomes
  <2>4. x \in SweepCall(World, AddMinter(World.sweep, s, cap) \cup RemoveMinter(World.sweep, s)
                                  \cup Pause(World.sweep) \cup Unpause(World.sweep))
    BY <2>3 DEF SweepCall
  <2> QED
    BY <2>3, <2>4, TokenFollows
<1>5. ASSUME NEW s \in Stabilizers, reject(s)
      PROVE  \E x : Becomes(x) /\ Follows(World, x)
  <2>1. PICK yes \in BOOLEAN : yes = TRUE
    OBVIOUS
  <2>2. Becomes([World EXCEPT !.stab[s].settingsEnabled = yes, !.stab[s].paused = yes])
    BY <1>5, <2>1, Zenon DEF reject, Do, Becomes
  <2> QED
    BY <2>2, SwitchesKept, KeptFollows
<1>6. ASSUME NEW s \in Stabilizers, pause(s) \/ unpause(s)
      PROVE  \E x : Becomes(x) /\ Follows(World, x)
  <2>1. PICK halted \in BOOLEAN : Becomes([World EXCEPT !.stab[s].paused = halted])
    BY <1>6, Zenon DEF pause, unpause, Do, Becomes
  <2> QED
    BY <2>1, PauseKept, KeptFollows
<1>7. ASSUME NEW s \in Stabilizers, forceDivest(s)
      PROVE  \E x : Becomes(x) /\ Follows(World, x)
  <2>1. PICK x \in MapleDivest(World, s) : Becomes(x)
    BY <1>7 DEF forceDivest, Do, Becomes
  <2> QED
    BY <2>1, MapleDivestKept, KeptFollows
<1>8. ASSUME NEW s \in Stabilizers, NEW a \in AmountsOf[s], forceRequestRedeem(s, a)
      PROVE  \E x : Becomes(x) /\ Follows(World, x)
  <2>1. PICK x \in PoolRequest(World, s, a) : Becomes(x)
    BY <1>8 DEF forceRequestRedeem, Do, Becomes
  <2>2. a \in Nat
    BY Inputs
  <2> QED
    BY <2>1, <2>2, PoolRequestKept, KeptFollows
<1> QED
  BY <1>1, <1>2, <1>3, <1>4, <1>5, <1>6, <1>7, <1>8 DEF Governance, writesOff

LEMMA EnvironmentStep ==
    ASSUME GoodWorld(World), Environment
    PROVE  \E x : Becomes(x) /\ Follows(World, x)
<1>1. CASE Tick
  <2>1. Becomes([World EXCEPT !.now = @ + 1])
    BY <1>1, Zenon DEF Tick, Do, Becomes
  <2> QED
    BY <2>1, TickFollows
<1>2. ASSUME NEW u \in UsdxPrices, NEW t \in TokenPrices, OracleMoves(u, t)
      PROVE  \E x : Becomes(x) /\ Follows(World, x)
  <2>1. Becomes([World EXCEPT !.usdxPrice = u, !.tokenPrice = t])
    BY <1>2, Zenon DEF OracleMoves, Do, Becomes
  <2>2. u \in Nat \ {0} /\ t \in Nat \ {0}
    BY Inputs
  <2> QED
    BY <2>1, <2>2, OracleKept, KeptFollows
<1>3. ASSUME NEW p \in TargetPrices, TargetPriceMoves(p)
      PROVE  \E x : Becomes(x) /\ Follows(World, x)
  <2>1. Becomes([World EXCEPT !.targetPrice = p])
    BY <1>3, Zenon DEF TargetPriceMoves, Do, Becomes
  <2>2. p \in Nat \ {0}
    BY Inputs
  <2> QED
    BY <2>1, <2>2, TargetPriceKept, KeptFollows
<1>4. ASSUME NEW s \in Stabilizers, NEW d \in Waits, setCooldownDuration(s, d)
      PROVE  \E x : Becomes(x) /\ Follows(World, x)
  <2>1. Becomes([World EXCEPT !.claim[s].duration = d])
    BY <1>4, Zenon DEF setCooldownDuration, Do, Becomes
  <2>2. d \in Nat
    BY Inputs
  <2> QED
    BY <2>1, <2>2, CooldownKept, KeptFollows
<1> QED
  BY <1>1, <1>2, <1>3, <1>4 DEF Environment

\* Whatever happens, the books of the loans follow.
LEMMA StepFollows ==
    ASSUME GoodWorld(World), Next
    PROVE  Follows(World, World')
<1>1. PICK x : Becomes(x) /\ Follows(World, x)
  BY BorrowerStep, AnybodyStep, BalancerStep, GovernanceStep, EnvironmentStep DEF Next
<1>2. x \in Worlds
  BY <1>1 DEF Follows, GoodWorld
<1> QED
  BY <1>1, <1>2, BecomesWorld

\* Time takes the price of an auction down and smaller debts take its floor down.
LEMMA AuctionFalls ==
    ASSUME NEW w, GoodWorld(w), NEW x, GoodWorld(x), NEW s \in Stabilizers,
           w.now =< x.now,
           x.stab[s].startingPrice = w.stab[s].startingPrice,
           x.stab[s].startingTime = w.stab[s].startingTime,
           x.stab[s].config.decreaseFactor = w.stab[s].config.decreaseFactor,
           x.stab[s].config.minLiquidationRatio = w.stab[s].config.minLiquidationRatio,
           w.stab[s].config.minLiquidationRatio =< Precision,
           x.stab[s].sweepBorrowed =< w.stab[s].sweepBorrowed
    PROVE  getAuctionAmount(x, s) =< getAuctionAmount(w, s)
<1>1. /\ w.stab[s].startingPrice \in Nat /\ w.stab[s].startingTime \in Nat
      /\ w.stab[s].config.decreaseFactor \in Nat
      /\ w.stab[s].config.minLiquidationRatio \in Nat
      /\ w.stab[s].sweepBorrowed \in Nat /\ x.stab[s].sweepBorrowed \in Nat
      /\ w.now \in Nat /\ x.now \in Nat
  BY WorldFields, StabFields DEF GoodWorld
<1>2. /\ Precision - w.stab[s].config.minLiquidationRatio \in Nat
      /\ w.now - w.stab[s].startingTime \in Int /\ x.now - w.stab[s].startingTime \in Int
      /\ w.now - w.stab[s].startingTime =< x.now - w.stab[s].startingTime
  BY <1>1, Units
<1>3. PICK price \in Nat, factor \in Nat :
         price = w.stab[s].startingPrice /\ factor = w.stab[s].config.decreaseFactor
  BY <1>1
<1>4. PICK share \in Nat, old \in Nat, new \in Nat :
         /\ share = Precision - w.stab[s].config.minLiquidationRatio
         /\ old = w.stab[s].sweepBorrowed /\ new = x.stab[s].sweepBorrowed
  BY <1>1, <1>2
<1>5. PICK before \in Int, after \in Int :
         /\ before = w.now - w.stab[s].startingTime
         /\ after = x.now - w.stab[s].startingTime
  BY <1>2
<1>6. new =< old /\ before =< after
  BY <1>2, <1>4, <1>5
<1> DEFINE Ratio(time) == (time \div AuctionStep) * factor
           Price(ratio) == (price * (Precision - ratio)) \div Precision
           Floor(debt) == (debt * share) \div Precision
           Amount(ratio, debt) ==
               IF ratio > Precision \/ Price(ratio) < Floor(debt) THEN Floor(debt)
               ELSE Price(ratio)
<1>7. /\ getAuctionAmount(w, s) = Amount(Ratio(before), old)
      /\ getAuctionAmount(x, s) = Amount(Ratio(after), new)
  BY <1>3, <1>4, <1>5 DEF getAuctionAmount, auctionFloor
<1>8. Floor(new) \in Int /\ Floor(old) \in Int /\ Floor(new) =< Floor(old)
  <2>1. share * new \in Int /\ share * old \in Int /\ share * new =< share * old
    BY <1>6, Product
  <2>2. new * share = share * new /\ old * share = share * old
    OBVIOUS
  <2> QED
    BY <2>1, <2>2, Units, Divided
<1>9. PICK r1 \in Int, r2 \in Int :
         r1 = Ratio(before) /\ r2 = Ratio(after) /\ r1 =< r2
  <2>1. PICK n1 \in Int, n2 \in Int :
           /\ n1 = before \div AuctionStep /\ n2 = after \div AuctionStep /\ n1 =< n2
    BY <1>6, Units, Divided
  <2>2. factor * n1 \in Int /\ factor * n2 \in Int /\ factor * n1 =< factor * n2
    BY <2>1, Product
  <2>3. n1 * factor = factor * n1 /\ n2 * factor = factor * n2
    OBVIOUS
  <2> QED
    BY <2>1, <2>2, <2>3
<1>10. Price(r1) \in Int /\ Price(r2) \in Int /\ Price(r2) =< Price(r1)
  <2>1. PICK p \in Int : p = Precision
    BY Units
  <2>2. p - r1 \in Int /\ p - r2 \in Int /\ p - r2 =< p - r1
    BY <1>9
  <2>3. PICK d1 \in Int, d2 \in Int : d1 = Precision - r1 /\ d2 = Precision - r2 /\ d2 =< d1
    BY <2>1, <2>2
  <2>4. price * d1 \in Int /\ price * d2 \in Int /\ price * d2 =< price * d1
    BY <2>3, Product
  <2> QED
    BY <2>3, <2>4, Units, Divided
<1> HIDE DEF Ratio, Price, Floor
<1>11. Amount(r2, new) =< Amount(r1, old)
  BY <1>8, <1>9, <1>10, Units
<1> QED
  BY <1>7, <1>9, <1>11

-------------------------------------------------------------------------------
(* The books of the loans *)

LEMMA InitGood ==
    ASSUME Init
    PROVE  GoodWorld(World) /\ \A s \in Stabilizers : Auctioned(World.stab[s])
<1>1. PICK accepted \in [Stabilizers -> Configs] :
         stab = [s \in Stabilizers |->
                   [sweepBorrowed |-> 0, callTime |-> 0, callAmount |-> 0, spreadDate |-> 0,
                    startingTime |-> 0, startingPrice |-> 0, paused |-> FALSE,
                    settingsEnabled |-> FALSE, config |-> accepted[s]]]
  BY DEF Init
<1>2. stab \in [Stabilizers -> StabilizerStorage]
  BY <1>1, Inputs DEF StabilizerStorage
<1>3. /\ off \in [Stabilizers -> OffChainStorage] /\ now = 1
      /\ targetPrice \in Nat \ {0} /\ usdxPrice \in Nat \ {0} /\ tokenPrice \in Nat \ {0}
  BY Units DEF Init, InitOffChain, OffChainStorage
<1>4. usdx \in [Accounts -> Nat] /\ token \in [Accounts -> Nat]
  BY Inputs DEF Init
<1>5. Good(sweep) /\ UnlistedZero(sweep)
  <2>1. InitBaseSweep \in BaseSweepStorage
    BY DEF InitBaseSweep, BaseSweepStorage, Minter, NoMinter
  <2>2. ListConsistent(InitBaseSweep) /\ UnlistedZero(InitBaseSweep)
    BY DEF ListConsistent, Injective, Entries, InitBaseSweep, NoMinter, UnlistedZero
  <2> QED
    BY <2>1, <2>2 DEF Init, Good
<1>a. claim \in [Stabilizers -> Claim]
  <2>1. PICK waits \in [Stabilizers -> Waits] :
           claim = [s \in Stabilizers |-> [amount |-> 0, end |-> 0, duration |-> waits[s]]]
    BY DEF Init
  <2>2. \A s \in Stabilizers : waits[s] \in Nat
    BY Inputs
  <2> QED
    BY <2>1, <2>2 DEF Claim
<1>6. World \in Worlds
  BY <1>2, <1>3, <1>4, <1>5, <1>a DEF World, Worlds, Good
<1>7. \A s \in Stabilizers : Timed(stab[s], now) /\ Auctioned(stab[s])
  BY <1>1, <1>3 DEF Timed, Auctioned
<1> QED
  BY <1>5, <1>6, <1>7 DEF GoodWorld, World

LEMMA Stutters ==
    ASSUME UNCHANGED vars
    PROVE  World' = World
  BY DEF vars, ledgers, prices, World

LEMMA GoodAlways == Spec => []GoodWorld(World)
<1>1. Init => GoodWorld(World)
  BY InitGood
<1>2. GoodWorld(World) /\ [Next]_vars => GoodWorld(World)'
  <2>1. ASSUME GoodWorld(World), Next
        PROVE  GoodWorld(World)'
    BY <2>1, StepFollows DEF Follows
  <2>2. ASSUME GoodWorld(World), UNCHANGED vars
        PROVE  GoodWorld(World)'
    BY <2>2, Stutters
  <2> QED
    BY <2>1, <2>2
<1> QED
  BY <1>1, <1>2, PTL DEF Spec

\* No transaction of anybody takes a balance, a debt, a call or what a minter has minted
\* below zero, whatever prices, configurations and amounts it meets: every subtraction
\* of Stabilizer.sol that the model makes on integers stays within the uint256 of the code.
THEOREM TypesKept == Spec => []TypeOK
<1>1. GoodWorld(World) => TypeOK
  BY DEF GoodWorld, World, Worlds, TypeOK
<1> QED
  BY <1>1, GoodAlways, PTL

\* A call that is pending has its deadline: setting, booking and cancelling calls and
\* new configurations never leave one without.
THEOREM CallsHaveDeadlines == Spec => []CallHasDeadline
<1>1. GoodWorld(World) => CallHasDeadline
  BY DEF GoodWorld, World, CallHasDeadline, Timed
<1> QED
  BY <1>1, GoodAlways, PTL

\* Debt and minted amount of a stabilizer move together through every transaction but
\* the removal of the minter and a write-off.
THEOREM DebtFollowsMint == Spec => DebtMatchesMint
<1>1. ASSUME GoodWorld(World), GoodWorld(World)', [Next]_vars, NEW s \in Stabilizers
      PROVE  \/ stab'[s].sweepBorrowed - stab[s].sweepBorrowed =
                    sweep'.minters[s].mintedAmount - sweep.minters[s].mintedAmount
             \/ sweep.minters[s].isListed /\ ~sweep'.minters[s].isListed
             \/ writesOff
  <2>1. /\ stab[s].sweepBorrowed \in Nat /\ sweep.minters[s].mintedAmount \in Nat
        /\ stab'[s].sweepBorrowed \in Nat /\ sweep'.minters[s].mintedAmount \in Nat
    <3>1. World \in Worlds /\ World' \in Worlds
      BY <1>1 DEF GoodWorld
    <3>2. /\ World.stab[s].sweepBorrowed \in Nat
          /\ World.sweep.minters[s].mintedAmount \in Nat
      BY <3>1, StabFields
    <3>3. /\ World'.stab[s].sweepBorrowed \in Nat
          /\ World'.sweep.minters[s].mintedAmount \in Nat
      BY <3>1, StabFields
    <3> QED
      BY <3>2, <3>3 DEF World
  <2>2. CASE UNCHANGED vars
    BY <2>1, <2>2 DEF vars, ledgers
  <2>3. CASE Next
    <3>1. Follows(World, World')
      BY <1>1, <2>3, StepFollows
    <3>2. \/ Gap(World', s) = Gap(World, s)
          \/ World.sweep.minters[s].isListed /\ ~World'.sweep.minters[s].isListed
          \/ WritesOff(World, World')
      BY <3>1 DEF Follows
    <3>3. ASSUME WritesOff(World, World')
          PROVE  writesOff
      <4>1. PICK p \in TargetPrices, a \in Accrued, d \in Debtors :
               /\ {current \in TargetPrices : WithinWriteOffLimit(current, p)} # {}
               /\ World' \in WriteOff(World, p, d, a)
        BY <3>3 DEF WritesOff
      <4>2. Do(WriteOff(World, p, d, a))
        BY <4>1 DEF Do, World
      <4> QED
        BY <3>3, <4>1, <4>2 DEF WritesOff, writesOff, writeOff
    <3> QED
      BY <2>1, <3>2, <3>3 DEF Gap, World
  <2> QED
    BY <1>1, <2>2, <2>3
<1>2. GoodWorld(World) /\ GoodWorld(World)' /\ [Next]_vars =>
        [\A s \in Stabilizers :
          \/ stab'[s].sweepBorrowed - stab[s].sweepBorrowed =
                 sweep'.minters[s].mintedAmount - sweep.minters[s].mintedAmount
          \/ sweep.minters[s].isListed /\ ~sweep'.minters[s].isListed
          \/ writesOff]_vars
  BY <1>1
<1> QED
  BY <1>2, GoodAlways, PTL DEF Spec, DebtMatchesMint

\* Whoever takes the assets of a stabilizer pays, whatever the auction's price has come
\* to and whatever it holds, the part of its debt that its configuration protects.
THEOREM LiquidationsPay == Spec => LiquidationPaysFloor
<1>1. ASSUME GoodWorld(World), NEW s \in Stabilizers, buyAuction(s) \/ liquidate(s)
      PROVE  getDebt(World, s) - getDebt(World, s)' >= auctionFloor(World, s)
  <2>1. PICK w : w = World
    OBVIOUS
  <2>2. GoodWorld(w) /\ getDebt(w, s) \in Nat /\ auctionFloor(w, s) <= getDebt(w, s)
        /\ auctionFloor(w, s) \in Int
    BY <1>1, <2>1, FeeNat, FloorIsPart
  <2>3. PICK x \in BuyAuction(w, s) \cup Liquidate(w, s, getDebt(w, s)) : Becomes(x)
    BY <1>1, <2>1, Zenon DEF buyAuction, liquidate, Do, Becomes
  <2>4. GoodWorld(x) /\ getDebt(w, s) - getDebt(x, s) >= auctionFloor(w, s)
    <3>1. CASE x \in BuyAuction(w, s)
      BY <2>2, <3>1, BuyAuctionKept DEF Kept
    <3>2. CASE x \in Liquidate(w, s, getDebt(w, s))
      <4>1. PICK debt \in Nat : debt = getDebt(w, s)
        BY <2>2
      <4>2. x \in Liquidate(w, s, debt)
        BY <3>2, <4>1
      <4>3. Kept(w, x) /\ getDebt(x, s) = getDebt(w, s) - Least(debt, getDebt(w, s))
        BY <2>2, <4>2, LiquidateKept
      <4> QED
        BY <2>2, <4>1, <4>3 DEF Least, Kept
    <3> QED
      BY <2>3, <3>1, <3>2
  <2>5. World' = x
    BY <2>3, <2>4, BecomesWorld DEF GoodWorld
  <2>6. getDebt(World, s)' = getDebt(x, s)
    BY <2>5 DEF getDebt, accruedFee
  <2> QED
    BY <2>1, <2>4, <2>6
<1>2. GoodWorld(World) =>
        [\A s \in Stabilizers :
          (buyAuction(s) \/ liquidate(s)) =>
              getDebt(World, s) - getDebt(World, s)' >= auctionFloor(World, s)]_vars
  BY <1>1
<1> QED
  BY <1>2, GoodAlways, PTL DEF LiquidationPaysFloor

\* With no calls in force and no write-offs, an auction that runs is over a debt: every
\* way to bring the debt to zero ends the auction.
THEOREM AuctionsHaveDebts ==
    ASSUME \A c \in Configs : c.callDelay = 0, "writeOff" \notin GovernanceOps
    PROVE  Spec => []AuctionHasDebt
<1> DEFINE J == \A s \in Stabilizers :
                   World.stab[s].config.callDelay = 0 /\ Auctioned(World.stab[s])
<1>1. Init => GoodWorld(World) /\ J
  <2>1. ASSUME Init
        PROVE  \A s \in Stabilizers : World.stab[s].config.callDelay = 0
    BY <2>1 DEF Init, World
  <2> QED
    BY <2>1, InitGood
<1>2. GoodWorld(World) /\ J /\ [Next]_vars => J'
  <2>1. ASSUME GoodWorld(World), J, Next
        PROVE  J'
    <3>1. Follows(World, World')
      BY <2>1, StepFollows
    <3>2. ASSUME NEW s \in Stabilizers
          PROVE  World'.stab[s].config.callDelay = 0 /\ Auctioned(World'.stab[s])
      BY <2>1, <3>1 DEF Follows, WritesOff
    <3> QED
      BY <3>2
  <2>2. ASSUME J, UNCHANGED vars
        PROVE  J'
    BY <2>2, Stutters
  <2> QED
    BY <2>1, <2>2
<1>3. J => AuctionHasDebt
  BY DEF AuctionHasDebt, Auctioned, World
<1> QED
  BY <1>1, <1>2, <1>3, GoodAlways, PTL DEF Spec

\* The price of an auction only falls while it runs: no transaction of anybody starts it
\* again, sets its clock back or changes the price it started from, and what is bought
\* meanwhile only takes its floor down with the debt.
THEOREM AuctionsFall == Spec => AuctionPriceNeverRises
<1>1. ASSUME GoodWorld(World), GoodWorld(World)', [Next]_vars, NEW s \in Stabilizers,
             stab[s].startingPrice > 0, stab'[s].startingPrice > 0,
             stab'[s].config.decreaseFactor = stab[s].config.decreaseFactor,
             stab'[s].config.minLiquidationRatio = stab[s].config.minLiquidationRatio,
             stab[s].config.minLiquidationRatio =< Precision,
             stab'[s].sweepBorrowed =< stab[s].sweepBorrowed
      PROVE  getAuctionAmount(World, s)' =< getAuctionAmount(World, s)
  <2>1. /\ World.stab = stab /\ World'.stab = stab' /\ World.now = now /\ World'.now = now'
    BY DEF World
  <2>2. now \in Nat
    BY <1>1, <2>1, WorldFields DEF GoodWorld
  <2>3. /\ now =< now' /\ stab'[s].startingPrice = stab[s].startingPrice
        /\ stab'[s].startingTime = stab[s].startingTime
    <3>1. CASE Next
      <4>1. Follows(World, World')
        BY <1>1, <3>1, StepFollows
      <4> QED
        BY <1>1, <2>1, <2>2, <4>1 DEF Follows
    <3>2. CASE UNCHANGED vars
      BY <2>2, <3>2 DEF vars, prices
    <3> QED
      BY <1>1, <3>1, <3>2
  <2>4. PICK w : w = World
    OBVIOUS
  <2>5. PICK x : x = World'
    OBVIOUS
  <2>6. getAuctionAmount(x, s) =< getAuctionAmount(w, s)
    BY <1>1, <2>1, <2>3, <2>4, <2>5, AuctionFalls
  <2>7. getAuctionAmount(World, s)' = getAuctionAmount(x, s)
    BY <2>5 DEF getAuctionAmount, auctionFloor
  <2> QED
    BY <2>4, <2>6, <2>7
<1>2. GoodWorld(World) /\ GoodWorld(World)' /\ [Next]_vars =>
        [\A s \in Stabilizers :
          /\ stab[s].startingPrice > 0 /\ stab'[s].startingPrice > 0
          /\ stab'[s].config.decreaseFactor = stab[s].config.decreaseFactor
          /\ stab'[s].config.minLiquidationRatio = stab[s].config.minLiquidationRatio
          /\ stab[s].config.minLiquidationRatio =< Precision
          /\ stab'[s].sweepBorrowed =< stab[s].sweepBorrowed
          => getAuctionAmount(World, s)' =< getAuctionAmount(World, s)]_vars
  BY <1>1
<1> QED
  BY <1>2, GoodAlways, PTL DEF Spec, AuctionPriceNeverRises

\* At the price a write-off rules no stabilizer owes more in USD than before, and less only
\* by its roundings, whatever the debt and on whichever side of a dollar the prices are; at
\* the price SWEEP then answers it owes more only by what had accrued in its period.
THEOREM WriteOffsKeepValue == Spec => WriteOffKeepsValue
<1> DEFINE Keeps(s, p, a) ==
             LET before == convertToUSD(World, stab[s].sweepBorrowed)
                 ruled == (stab'[s].sweepBorrowed * p) \div (Unit * Scale)
                 after == convertToUSD(World, stab[s].sweepBorrowed)'
             IN  /\ ruled =< before
                 /\ (Unit * Scale) * (before - ruled) =<
                        p * (stab[s].sweepBorrowed \div Precision + 2) + Unit * Scale
                 /\ InterestPrecision * after =< (before + 1) * a
<1>1. ASSUME GoodWorld(World), GoodWorld(World)', NEW p \in TargetPrices, NEW a \in Accrued,
             NEW d \in Debtors, NEW s \in Stabilizers \ {d}, sweep.minters[s].isListed,
             writeOff(p, d, a)
      PROVE  Keeps(s, p, a)
  <2>1. PICK w : w = World
    OBVIOUS
  <2>2. PICK new \in Nat \ {0}, accrued \in Nat : new = p /\ accrued = a
    BY Inputs
  <2>3. PICK b \in Nat, old \in Nat \ {0} : b = stab[s].sweepBorrowed /\ old = targetPrice
    <3>1. World.targetPrice \in Nat \ {0} /\ World.stab[s].sweepBorrowed \in Nat
      BY <1>1, WorldFields, StabFields DEF GoodWorld
    <3> QED
      BY <3>1 DEF World
  <2>4. w.targetPrice = old /\ w.stab[s].sweepBorrowed = b /\ w.sweep.minters[s].isListed
    BY <1>1, <2>1, <2>3 DEF World
  <2>5. PICK x \in WriteOff(w, p, d, a) : Becomes(x)
    BY <1>1, <2>1, Zenon DEF writeOff, Do, Becomes
  <2>6. WritesOff(w, x)
    BY <1>1, <2>5 DEF writeOff, WritesOff
  <2>7. World' = x
    BY <1>1, <2>1, <2>5, <2>6, WriteOffFollows, BecomesWorld DEF Follows, GoodWorld
  <2>8. /\ x.targetPrice = (p * a) \div InterestPrecision
        /\ x.stab[s].sweepBorrowed = WrittenOff(w, s, p)
    BY <1>1, <2>1, <2>4, <2>5, WriteOffIs
  <2>9. PICK c \in Nat : /\ c = (b * ((Precision * old) \div new)) \div Precision
                        /\ c = stab'[s].sweepBorrowed
    <3>1. World'.stab = stab' /\ World'.stab[s].sweepBorrowed \in Nat
      BY <1>1, StabFields DEF World, GoodWorld
    <3> QED
      BY <2>2, <2>4, <2>7, <2>8, <3>1 DEF WrittenOff
  <2>10. PICK unit \in Nat \ {0}, one \in Nat \ {0} : unit = Unit * Scale /\ one = InterestPrecision
    BY Units, MulPos
  <2>11. /\ convertToUSD(World, stab[s].sweepBorrowed) = (b * old) \div unit
         /\ convertToUSD(World, stab[s].sweepBorrowed)' = (c * ((new * accrued) \div one)) \div unit
    BY <2>2, <2>3, <2>7, <2>8, <2>9, <2>10 DEF convertToUSD, World
  <2>12. /\ (c * new) \div unit =< (b * old) \div unit
         /\ unit * ((b * old) \div unit - (c * new) \div unit)
                =< new * (b \div Precision + 2) + unit
    <3>1. Precision \in Nat \ {0}
      BY Units
    <3>2. c \in Int /\ c = (b * ((Precision * old) \div new)) \div Precision
      BY <2>9
    <3> QED
      BY <3>1, <3>2, WrittenOffWorth
  <2>13. one * ((c * ((new * accrued) \div one)) \div unit) =< ((c * new) \div unit + 1) * accrued
    BY AccruedOnce
  <2>14. ((c * new) \div unit + 1) * accrued =< ((b * old) \div unit + 1) * accrued
    <3>1. PICK ruled \in Int, before \in Int :
             ruled = (c * new) \div unit /\ before = (b * old) \div unit
      OBVIOUS
    <3>2. accrued * (ruled + 1) =< accrued * (before + 1)
      BY <2>12, <3>1, Product
    <3> QED
      BY <3>1, <3>2
  <2> QED
    BY <2>2, <2>3, <2>9, <2>10, <2>11, <2>12, <2>13, <2>14
<1>2. GoodWorld(World) /\ GoodWorld(World)' =>
        [\A p \in TargetPrices, a \in Accrued, d \in Debtors :
          sweep.paused /\ writeOff(p, d, a) =>
          \A s \in Stabilizers \ {d} : sweep.minters[s].isListed => Keeps(s, p, a)]_vars
  BY <1>1
<1> QED
  BY <1>2, GoodAlways, PTL DEF Spec, WriteOffKeepsValue

\* Who could lose two of the smallest units of equity is never brought into default by
\* repaying, however the balance, the fee and the debt round.
THEOREM RepayersStayHealthy == Spec => RepayNeverDefaults
<1>1. ASSUME GoodWorld(World), GoodWorld(World)', NEW s \in Stabilizers, NEW a \in Amounts,
             Sound(World, s), repay(s, a)
      PROVE  valueReadable(World, s)' /\ ~isDefaulted(World, s)'
  <2>1. PICK w : w = World
    OBVIOUS
  <2>2. GoodWorld(w) /\ Sound(w, s) /\ a \in Int
    BY <1>1, <2>1, Inputs
  <2>3. PICK x \in Repay(w, s, a) : Becomes(x)
    BY <1>1, <2>1, Zenon DEF repay, Do, Becomes
  <2>4. GoodWorld(x)
    BY <2>2, <2>3, RepayKept DEF Kept
  <2>5. World' = x
    BY <2>3, <2>4, BecomesWorld DEF GoodWorld
  <2>6. valueReadable(x, s) /\ ~isDefaulted(x, s)
    BY <2>2, <2>3, RepayHealthy
  <2>7. /\ valueReadable(World, s)' = valueReadable(x, s)
        /\ isDefaulted(World, s)' = isDefaulted(x, s)
    BY <2>5
  <2> QED
    BY <2>6, <2>7
<1>2. GoodWorld(World) /\ GoodWorld(World)' =>
        [\A s \in Stabilizers, a \in Amounts :
          Sound(World, s) /\ repay(s, a)
          => valueReadable(World, s)' /\ ~isDefaulted(World, s)']_vars
  BY <1>1
<1>3. (\A s \in Stabilizers, a \in Amounts :
          Sound(World, s) /\ repay(s, a)
          => valueReadable(World, s)' /\ ~isDefaulted(World, s)')
      => (\A s \in Stabilizers, a \in Amounts :
            LET value == currentValue(World, s)
                junior == value - convertToUSD(World, stab[s].sweepBorrowed)
            IN  /\ stab[s].config.minEquityRatio >= 0 /\ value >= 0 /\ ~callMissed(World, s)
                /\ (junior - 2) * Precision > value * stab[s].config.minEquityRatio
                /\ repay(s, a)
                => valueReadable(World, s)' /\ ~isDefaulted(World, s)')
  BY Zenon DEF Sound, World
<1> QED
  BY <1>2, <1>3, GoodAlways, PTL DEF Spec, RepayNeverDefaults

\* A vault gives its stabilizer what it is asked for, or all there is, but for the worth
\* of a share and a rounding, whatever a share is worth: a call can count on it.
THEOREM VaultsRaiseWhatIsAsked == Spec => DivestRaisesWhatIsAsked
<1> DEFINE Enough(s, a) ==
        LET raised == usdx'[s] - usdx[s]
        IN  /\ raised =< a
            /\ raised + convertToAssets(World, 1) + 1 >=
                   Least(a, convertToAssets(World, token[s]))
<1>1. ASSUME GoodWorld(World), NEW s \in Stabilizers, NEW a \in AmountsOf[s],
             AssetOf[s] = "ERC4626Asset", divest(s, a, 0)
      PROVE  Enough(s, a)
  <2>1. PICK w : w = World
    OBVIOUS
  <2>2. GoodWorld(w) /\ a \in Nat
    BY <1>1, <2>1, Inputs
  <2>3. PICK x \in DivestWithdraw(w, s, a) : Becomes(x)
    BY <1>1, <2>1, Zenon DEF divest, Do, Becomes, Divest
  <2>4. Raises(x.usdx[s] - w.usdx[s], a, convertToAssets(w, w.token[s]),
               convertToAssets(w, 1))
    BY <2>2, <2>3, WithdrawRaises
  <2>5. w.usdx = usdx /\ w.token = token /\ usdx' = x.usdx
    BY <2>1, <2>3 DEF World, Becomes
  <2> QED
    BY <2>1, <2>4, <2>5 DEF Raises
<1>2. GoodWorld(World) =>
        [\A s \in Stabilizers :
          AssetOf[s] # "ERC4626Asset"
          \/ \A a \in AmountsOf[s] :
                LET raised == usdx'[s] - usdx[s]
                IN  \/ /\ raised =< a
                       /\ raised + convertToAssets(World, 1) + 1 >=
                              Least(a, convertToAssets(World, token[s]))
                    \/ ~divest(s, a, 0)]_vars
  BY <1>1
<1> QED
  BY <1>2, GoodAlways, PTL DEF Spec, DivestRaisesWhatIsAsked

\* Through requests, waits, restarted waits and payments in parts, of pools whose usdx is
\* worth a dollar, nothing of an investment is lost but two units that are rounded away,
\* at any price of a share.
THEOREM RedemptionsLoseNothing == Spec => RedemptionLosesNothing
<1>1. ASSUME GoodWorld(World), NEW s \in Stabilizers, NEW a \in AmountsOf[s],
             AssetOf[s] \in {"EthenaAsset", "MapleAsset"}, usdxPrice = Unit,
             \/ requestRedeem(s, a) \/ divest(s, a, 0)
             \/ forceRequestRedeem(s, a) \/ forceDivest(s)
      PROVE  equity(World, s)' + 2 >= equity(World, s)
  <2>1. PICK w : w = World
    OBVIOUS
  <2>2. GoodWorld(w) /\ a \in Nat /\ w.usdxPrice = Unit /\ 0 \in 0 .. Precision
    BY <1>1, <2>1, Inputs, Units DEF World
  <2>3. ASSUME NEW x, Becomes(x), GoodWorld(x), equity(x, s) + 2 >= equity(w, s)
        PROVE  equity(World, s)' + 2 >= equity(World, s)
    <3>1. World' = x
      BY <2>3, BecomesWorld DEF GoodWorld
    <3> QED
      BY <2>1, <2>3, <3>1
  <2>4. ASSUME NEW x, Becomes(x), x \in EthenaRequest(w, s, a), AssetOf[s] = "EthenaAsset"
        PROVE  equity(World, s)' + 2 >= equity(World, s)
    <3>1. Kept(w, x) /\ Cools(w, x, s)
      BY <2>2, <2>4, EthenaRequestKept
    <3> QED
      BY <2>2, <2>3, <2>4, <3>1, CoolsKeeps DEF Kept
  <2>5. ASSUME NEW x, Becomes(x), x \in EthenaDivest(w, s, a, 0), AssetOf[s] = "EthenaAsset"
        PROVE  equity(World, s)' + 2 >= equity(World, s)
    <3>1. Kept(w, x) /\ Collects(w, x, s, 0)
      BY <2>2, <2>5, EthenaDivestKept
    <3> QED
      BY <2>2, <2>3, <2>5, <3>1, CollectsKeeps DEF Kept
  <2>6. ASSUME NEW x, Becomes(x), AssetOf[s] = "MapleAsset",
               x \in PoolRequest(w, s, a) \cup MapleRequest(w, s, a)
        PROVE  equity(World, s)' + 2 >= equity(World, s)
    <3>1. Kept(w, x) /\ Locks(w, x, s)
      BY <2>2, <2>6, PoolRequestKept, MapleRequestKept
    <3> QED
      BY <2>2, <2>3, <2>6, <3>1, LocksKeeps DEF Kept
  <2>7. ASSUME NEW x, Becomes(x), AssetOf[s] = "MapleAsset", x \in MapleDivest(w, s)
        PROVE  equity(World, s)' + 2 >= equity(World, s)
    <3>1. Kept(w, x) /\ PaysOut(w, x, s)
      BY <2>2, <2>7, MapleDivestKept
    <3> QED
      BY <2>2, <2>3, <2>7, <3>1, PaysOutKeeps DEF Kept
  <2>8. CASE requestRedeem(s, a)
    <3>1. CASE AssetOf[s] = "EthenaAsset"
      <4>1. PICK x \in EthenaRequest(w, s, a) : Becomes(x)
        BY <2>1, <2>8, <3>1, Zenon DEF requestRedeem, Do, Becomes
      <4> QED
        BY <2>4, <3>1, <4>1
    <3>2. CASE AssetOf[s] = "MapleAsset"
      <4>1. PICK x \in MapleRequest(w, s, a) : Becomes(x)
        BY <2>1, <2>8, <3>2, Zenon DEF requestRedeem, Do, Becomes
      <4> QED
        BY <2>6, <3>2, <4>1
    <3> QED
      BY <1>1, <3>1, <3>2
  <2>9. CASE divest(s, a, 0)
    <3>1. PICK x \in Divest(w, s, a, 0) : Becomes(x)
      BY <2>1, <2>9, Zenon DEF divest, Do, Becomes
    <3>2. CASE AssetOf[s] = "EthenaAsset"
      <4>1. x \in EthenaDivest(w, s, a, 0)
        BY <3>1, <3>2 DEF Divest
      <4> QED
        BY <2>5, <3>1, <3>2, <4>1
    <3>3. CASE AssetOf[s] = "MapleAsset"
      <4>1. x \in MapleDivest(w, s)
        BY <3>1, <3>3 DEF Divest
      <4> QED
        BY <2>7, <3>1, <3>3, <4>1
    <3> QED
      BY <1>1, <3>2, <3>3
  <2>10. CASE forceRequestRedeem(s, a)
    <3>1. PICK x \in PoolRequest(w, s, a) : Becomes(x)
      BY <2>1, <2>10, Zenon DEF forceRequestRedeem, Do, Becomes
    <3> QED
      BY <2>6, <2>10, <3>1 DEF forceRequestRedeem
  <2>11. CASE forceDivest(s)
    <3>1. PICK x \in MapleDivest(w, s) : Becomes(x)
      BY <2>1, <2>11, Zenon DEF forceDivest, Do, Becomes
    <3> QED
      BY <2>7, <2>11, <3>1 DEF forceDivest
  <2> QED
    BY <1>1, <2>8, <2>9, <2>10, <2>11
<1>2. GoodWorld(World) =>
        [\A s \in Stabilizers :
          \/ AssetOf[s] \notin {"EthenaAsset", "MapleAsset"} \/ usdxPrice # Unit
          \/ token'[s] = token[s] /\ claim'[s] = claim[s]
          \/ equity(World, s)' + 2 >= equity(World, s)
          \/ \A a \in AmountsOf[s] :
                ~(\/ requestRedeem(s, a) \/ divest(s, a, 0)
                  \/ forceRequestRedeem(s, a) \/ forceDivest(s))]_vars
  BY <1>1
<1> QED
  BY <1>2, GoodAlways, PTL DEF Spec, RedemptionLosesNothing

\* What a step of the borrower or of the balancer may gain s, at the same protocol fee.
GainsLittle(x, s) ==
    /\ GoodWorld(x)
    /\ x.stab[s].config.protocolFee = stab[s].config.protocolFee => Gains(World, x, s, 2)

LEMMA LittleIsLittle ==
    ASSUME NEW s \in Stabilizers, GoodWorld(World), NEW x, GoodWorld(x),
           Gains(World, x, s, 0) \/ Gains(World, x, s, 1) \/ Gains(World, x, s, 2)
    PROVE  GainsLittle(x, s)
<1>1. Gains(World, x, s, 2)
  <2>1. 0 \in Nat /\ 1 \in Nat /\ 2 \in Nat /\ 0 =< 2 /\ 1 =< 2
    OBVIOUS
  <2> QED
    BY <2>1, GainsMore
<1> QED
  BY <1>1 DEF GainsLittle

LEMMA ConfiguredGains ==
    ASSUME NEW s \in Stabilizers, GoodWorld(World), NEW c \in Config,
           NEW x, x = [World EXCEPT !.stab[s].config = c]
    PROVE  GainsLittle(x, s)
<1>1. GoodWorld(x) /\ x.stab[s].config = c
  BY ConfigGood
<1>2. stab = World.stab
  BY DEF World
<1>3. CASE c.protocolFee = World.stab[s].config.protocolFee
  <2>1. Gains(World, x, s, 0)
    BY <1>3, ConfigGains
  <2> QED
    BY <1>1, <2>1, LittleIsLittle
<1> QED
  BY <1>1, <1>2, <1>3 DEF GainsLittle

LEMMA BorrowerGains ==
    ASSUME NEW s \in Stabilizers, GoodWorld(World), Borrower(s)
    PROVE  \E x : Becomes(x) /\ GainsLittle(x, s)
<1>1. CASE payFee(s)
  <2>1. PICK x \in PayFee(World, s) : Becomes(x)
    BY <1>1 DEF payFee, Do, Becomes
  <2>2. GoodWorld(x) /\ Gains(World, x, s, 1)
    BY PayFeeKept DEF Kept
  <2> QED
    BY <2>1, <2>2, LittleIsLittle
<1>2. CASE propose(s)
  <2>1. PICK x : x = [World EXCEPT !.stab[s].settingsEnabled = FALSE]
    OBVIOUS
  <2>2. Becomes(x)
    BY <1>2, <2>1, Zenon DEF propose, Do, Becomes
  <2>3. GoodWorld(x)
    BY <2>1, ProposeKept DEF Kept
  <2>4. Gains(World, x, s, 0)
    BY <2>1, ProposeGains
  <2> QED
    BY <2>2, <2>3, <2>4, LittleIsLittle
<1>3. ASSUME NEW c \in Configs, configure(s, c)
      PROVE  \E x : Becomes(x) /\ GainsLittle(x, s)
  <2>1. PICK x : x = [World EXCEPT !.stab[s].config = c]
    OBVIOUS
  <2>2. Becomes(x)
    BY <1>3, <2>1, Zenon DEF configure, Do, Becomes
  <2> QED
    BY <2>1, <2>2, ConfiguredGains, Inputs
<1>4. ASSUME NEW a \in AmountsOf[s], borrow(s, a)
      PROVE  \E x : Becomes(x) /\ GainsLittle(x, s)
  <2>1. PICK x \in BorrowAndCheck(World, s, a) : Becomes(x)
    BY <1>4 DEF borrow, Do, Becomes
  <2>2. x \in Borrow(World, s, a) /\ a \in Nat
    BY <2>1, Inputs DEF BorrowAndCheck
  <2>3. GoodWorld(x)
    BY <2>2, BorrowKept DEF Kept
  <2>4. Gains(World, x, s, 1)
    BY <2>2, BorrowGains
  <2> QED
    BY <2>1, <2>3, <2>4, LittleIsLittle
<1>5. ASSUME NEW a \in AmountsOf[s], repay(s, a)
      PROVE  \E x : Becomes(x) /\ GainsLittle(x, s)
  <2>1. PICK x \in Repay(World, s, a) : Becomes(x)
    BY <1>5 DEF repay, Do, Becomes
  <2>2. a \in Int
    BY Inputs
  <2>3. GoodWorld(x)
    BY <2>2, RepayKept DEF Kept
  <2>4. Gains(World, x, s, 1)
    BY <2>2, RepayGains
  <2> QED
    BY <2>1, <2>3, <2>4, LittleIsLittle
<1>6. ASSUME NEW a \in AmountsOf[s], withdraw(s, a)
      PROVE  \E x : Becomes(x) /\ GainsLittle(x, s)
  <2>1. PICK x \in WithdrawSweep(World, s, a) \cup WithdrawUsdx(World, s, a)
                      \cup WithdrawToken(World, s, a) : Becomes(x)
    BY <1>6 DEF withdraw, Do, Becomes
  <2>2. a \in Nat
    BY Inputs
  <2>3. GoodWorld(x)
    BY <2>2, WithdrawKept DEF Kept
  <2>4. Gains(World, x, s, 0)
    BY <2>2, WithdrawGains
  <2> QED
    BY <2>1, <2>3, <2>4, LittleIsLittle
<1>7. ASSUME NEW a \in AmountsOf[s], NEW b \in AmountsOf[s], investOffChain(s, a, b)
      PROVE  \E x : Becomes(x) /\ GainsLittle(x, s)
  <2>1. PICK x \in OffChainInvest(World, s, a, b) : Becomes(x)
    BY <1>7 DEF investOffChain, Do, Becomes
  <2>2. a \in Nat /\ b \in Nat /\ AssetOf[s] = "OffChainAsset"
    BY <1>7, Inputs DEF investOffChain
  <2>3. GoodWorld(x) /\ Sends(World, x, s)
    BY <2>2, OffChainInvestKept DEF Kept
  <2>4. Gains(World, x, s, 0)
    BY <2>2, <2>3, SendsGain
  <2> QED
    BY <2>1, <2>3, <2>4, LittleIsLittle
<1>8. ASSUME NEW a \in AmountsOf[s], NEW sl \in SlippagesOf[s],
             invest(s, a, sl) \/ divest(s, a, sl)
                \/ buySweepOnAMM(s, a, sl) \/ sellSweepOnAMM(s, a, sl)
      PROVE  \E x : Becomes(x) /\ GainsLittle(x, s)
  <2>1. PICK x \in Invest(World, s, a, sl) \cup Divest(World, s, a, sl)
                      \cup Buy(World, s, a, sl) \cup Sell(World, s, a, sl) : Becomes(x)
    BY <1>8 DEF invest, divest, buySweepOnAMM, sellSweepOnAMM, Do, Becomes
  <2>2. a \in Nat /\ sl \in 0 .. Precision
    BY Inputs
  <2>3. GoodWorld(x)
    BY <2>2, InvestKept, DivestKept, BuyKept, SellKept DEF Kept
  <2>4. Gains(World, x, s, 0) \/ Gains(World, x, s, 1)
    <3>1. CASE x \in Invest(World, s, a, sl)
      BY <2>2, <3>1, InvestGains
    <3>2. CASE x \in Divest(World, s, a, sl)
      BY <2>2, <3>2, DivestGains
    <3>3. CASE x \in Buy(World, s, a, sl)
      BY <2>2, <2>3, <3>3, BuyKept, BuyGains
    <3>4. CASE x \in Sell(World, s, a, sl)
      BY <2>2, <2>3, <3>4, SellKept, SellGains
    <3> QED
      BY <2>1, <3>1, <3>2, <3>3, <3>4
  <2> QED
    BY <2>1, <2>3, <2>4, LittleIsLittle
<1>9. ASSUME NEW a \in AmountsOf[s], NEW sl \in SlippagesOf[s], NEW useAMM \in BOOLEAN,
             oneStepInvest(s, a, sl, useAMM)
      PROVE  \E x : Becomes(x) /\ GainsLittle(x, s)
  <2>1. PICK x \in OneStepInvest(World, s, a, sl, useAMM) : Becomes(x)
    BY <1>9 DEF oneStepInvest, Do, Becomes
  <2>2. x \in BorrowAndInvest(World, s, a, sl, useAMM) /\ a \in Nat /\ sl \in 0 .. Precision
    BY <2>1, Inputs DEF OneStepInvest
  <2>3. GoodWorld(x) /\ Gains(World, x, s, 1)
    BY <2>2, BorrowAndInvestKept DEF Kept
  <2> QED
    BY <2>1, <2>3, LittleIsLittle
<1>10. ASSUME NEW a \in AmountsOf[s], NEW sl \in SlippagesOf[s], NEW useAMM \in BOOLEAN,
              oneStepDivest(s, a, sl, useAMM)
       PROVE  \E x : Becomes(x) /\ GainsLittle(x, s)
  <2>1. PICK x \in OneStepDivest(World, s, a, sl, useAMM) : Becomes(x)
    BY <1>10 DEF oneStepDivest, Do, Becomes
  <2>2. a \in Nat /\ sl \in 0 .. Precision
    BY Inputs
  <2>3. GoodWorld(x) /\ Gains(World, x, s, 2)
    BY <2>2, OneStepDivestKept DEF Kept
  <2> QED
    BY <2>1, <2>3, LittleIsLittle
<1>11. ASSUME NEW a \in AmountsOf[s],
              investMint(s, a) \/ divestRedeem(s, a) \/ requestRedeem(s, a)
       PROVE  \E x : Becomes(x) /\ GainsLittle(x, s)
  <2>1. a \in Nat
    BY Inputs
  <2>2. CASE investMint(s, a)
    <3>1. PICK x \in InvestMint(World, s, a) : Becomes(x)
      BY <2>2 DEF investMint, Do, Becomes
    <3>2. GoodWorld(x) /\ Buys(World, x, s, 1)
      BY <2>1, InvestMintKept DEF Kept
    <3>3. Gains(World, x, s, 0)
      BY <2>2, <3>2, BuysGain DEF investMint
    <3> QED
      BY <3>1, <3>2, <3>3, LittleIsLittle
  <2>3. CASE divestRedeem(s, a)
    <3>1. PICK x \in DivestRedeem(World, s, a) : Becomes(x)
      BY <2>3 DEF divestRedeem, Do, Becomes
    <3>2. GoodWorld(x) /\ Sells(World, x, s)
      BY <2>1, DivestRedeemKept DEF Kept
    <3>3. Gains(World, x, s, 0)
      BY <2>3, <3>2, SellsGain DEF divestRedeem
    <3> QED
      BY <3>1, <3>2, <3>3, LittleIsLittle
  <2>4. CASE AssetOf[s] = "EthenaAsset" /\ Do(EthenaRequest(World, s, a))
    <3>1. PICK x \in EthenaRequest(World, s, a) : Becomes(x)
      BY <2>4 DEF Do, Becomes
    <3>2. GoodWorld(x) /\ Cools(World, x, s)
      BY <2>1, EthenaRequestKept DEF Kept
    <3>3. Gains(World, x, s, 1)
      BY <2>4, <3>2, CoolsGain
    <3> QED
      BY <3>1, <3>2, <3>3, LittleIsLittle
  <2>5. CASE AssetOf[s] = "MapleAsset" /\ Do(MapleRequest(World, s, a))
    <3>1. PICK x \in MapleRequest(World, s, a) : Becomes(x)
      BY <2>5 DEF Do, Becomes
    <3>2. GoodWorld(x) /\ Locks(World, x, s)
      BY <2>1, MapleRequestKept DEF Kept
    <3>3. Gains(World, x, s, 1)
      BY <2>5, <3>2, LocksGain
    <3> QED
      BY <3>1, <3>2, <3>3, LittleIsLittle
  <2> QED
    BY <1>11, <2>2, <2>3, <2>4, <2>5 DEF requestRedeem
<1> QED
  BY <1>1, <1>2, <1>3, <1>4, <1>5, <1>6, <1>7, <1>8, <1>9, <1>10, <1>11 DEF Borrower

LEMMA BalancerGains ==
    ASSUME NEW s \in Stabilizers, GoodWorld(World), Balancer(s)
    PROVE  \E x : Becomes(x) /\ GainsLittle(x, s)
<1>1. CASE cancelCall(s)
  <2>1. PICK x : x = CancelCall(World, s)
    OBVIOUS
  <2>2. Becomes(x)
    BY <1>1, <2>1, Zenon DEF cancelCall, Do, Becomes
  <2>3. GoodWorld(x) /\ Gains(World, x, s, 0)
    BY <2>1, CancelCallKept DEF Kept
  <2> QED
    BY <2>2, <2>3, LittleIsLittle
<1>2. ASSUME NEW a \in AmountsOf[s], setLoanLimit(s, a)
      PROVE  \E x : Becomes(x) /\ GainsLittle(x, s)
  <2>1. PICK z \in Config : z = World.stab[s].config
    BY StabFields DEF GoodWorld
  <2> DEFINE c == [z EXCEPT !.loanLimit = a]
  <2>2. [World EXCEPT !.stab[s].config.loanLimit = a] = [World EXCEPT !.stab[s].config = c]
    BY <2>1, Zenon
  <2>3. c \in Config
    BY <2>1, Inputs DEF Config
  <2>4. PICK x : x = [World EXCEPT !.stab[s].config.loanLimit = a]
    OBVIOUS
  <2>5. Becomes(x)
    BY <1>2, <2>4, Zenon DEF setLoanLimit, Do, Becomes
  <2> HIDE DEF c
  <2> QED
    BY <2>2, <2>3, <2>4, <2>5, ConfiguredGains
<1>3. ASSUME NEW a \in AmountsOf[s], NEW sl \in SlippagesOf[s], autoCall(s, a, sl)
      PROVE  \E x : Becomes(x) /\ GainsLittle(x, s)
  <2>1. PICK x \in AutoCall(World, s, a, sl) : Becomes(x)
    BY <1>3 DEF autoCall, Do, Becomes
  <2>2. a \in Nat /\ sl \in 0 .. Precision
    BY Inputs
  <2>3. GoodWorld(x) /\ Gains(World, x, s, 2)
    BY <2>2, AutoCallKept DEF Kept
  <2> QED
    BY <2>1, <2>3, LittleIsLittle
<1>4. ASSUME NEW a \in AmountsOf[s], NEW sl \in SlippagesOf[s], autoInvest(s, a, sl)
      PROVE  \E x : Becomes(x) /\ GainsLittle(x, s)
  <2>1. PICK x \in AutoInvest(World, s, a, sl) : Becomes(x)
    BY <1>4 DEF autoInvest, Do, Becomes
  <2>2. PICK useAMM \in BOOLEAN : useAMM = TRUE
    OBVIOUS
  <2>3. x \in BorrowAndInvest(World, s, a, sl, useAMM) /\ a \in Nat /\ sl \in 0 .. Precision
    BY <2>1, <2>2, Inputs DEF AutoInvest
  <2>4. GoodWorld(x) /\ Gains(World, x, s, 1)
    BY <2>3, BorrowAndInvestKept DEF Kept
  <2> QED
    BY <2>1, <2>4, LittleIsLittle
<1> QED
  BY <1>1, <1>2, <1>3, <1>4 DEF Balancer

\* Neither a borrower nor the balancer makes the equity of a stabilizer out of nothing, by
\* any call in any order, of any amounts and slippages and at any prices of shares and of
\* SWEEP: where pools pay no more than the oracle says (Bonus = 0) and a usdx is worth a
\* dollar, a call that leaves the protocol fee alone gains two units at most.
THEOREM EquityIsNotFree == ASSUME Bonus = 0 PROVE Spec => NoFreeEquity
<1>1. ASSUME GoodWorld(World), NEW s \in Stabilizers, usdxPrice = Unit,
             stab'[s].config.protocolFee = stab[s].config.protocolFee,
             Borrower(s) \/ Balancer(s)
      PROVE  equity(World, s)' =< equity(World, s) + 2
  <2>1. PICK x : Becomes(x) /\ GainsLittle(x, s)
    BY <1>1, BorrowerGains, BalancerGains
  <2>2. World' = x
    BY <2>1, BecomesWorld DEF GainsLittle, GoodWorld
  <2>3. Fair(World)
    BY <1>1 DEF Fair, World
  <2>4. x.stab[s].config.protocolFee = stab[s].config.protocolFee
    BY <1>1, <2>1 DEF Becomes
  <2>5. equity(x, s) =< equity(World, s) + 2
    BY <2>1, <2>3, <2>4 DEF GainsLittle, Gains
  <2> QED
    BY <2>2, <2>5
<1>2. GoodWorld(World) =>
        [\A s \in Stabilizers :
          \/ prices' # prices \/ usdxPrice # Unit
          \/ stab'[s].config.protocolFee # stab[s].config.protocolFee
          \/ ~gains(s)
          \/ equity(World, s)' =< equity(World, s) + 2
          \/ ~(Borrower(s) \/ Balancer(s))]_vars
  BY <1>1
<1> QED
  BY <1>2, GoodAlways, PTL DEF Spec, NoFreeEquity

-------------------------------------------------------------------------------
(* What a call asks back of an off-chain asset *)

\* The usdx s is asking its wallet for.
Asked(w, s) == IF w.off[s].redeemMode THEN w.off[s].redeemAmount ELSE 0

\* A request is for the amount asked for, and moves nothing.
LEMMA DivestAsks ==
    ASSUME NEW w, GoodWorld(w), NEW s \in Stabilizers, NEW a \in Nat,
           NEW x \in OffChainDivest(w, s, a)
    PROVE  /\ GoodWorld(x) /\ SameBooks(w, x) /\ x.usdx = w.usdx /\ x.sweep = w.sweep
           /\ Asked(x, s) = a
<1> DEFINE r == [w.off[s] EXCEPT !.redeemMode = TRUE, !.redeemAmount = a]
<1>1. w \in Worlds /\ w.off[s] \in OffChainStorage
  BY WorldFields DEF GoodWorld
<1>2. r \in OffChainStorage /\ r.redeemMode = TRUE /\ r.redeemAmount = a
  BY <1>1 DEF OffChainStorage
<1>3. x = [w EXCEPT !.off[s].redeemMode = TRUE, !.off[s].redeemAmount = a]
  BY DEF OffChainDivest
<1>4. x = [w EXCEPT !.off[s] = r]
  BY <1>1, <1>3 DEF Worlds
<1> HIDE DEF r
<1>5. /\ GoodWorld(x) /\ SameBooks(w, x) /\ x.off[s] = r
      /\ x.usdx = w.usdx /\ x.sweep = w.sweep
  BY <1>2, <1>4, SetOff
<1> QED
  BY <1>2, <1>5 DEF Asked

\* A swap without slippage brings at least what its usdx are worth, at a dollar each.
LEMMA BuyPays ==
    ASSUME NEW w, GoodWorld(w), NEW s \in Stabilizers, NEW a \in Nat, w.usdxPrice = Unit,
           NEW x \in Buy(w, s, a, 0)
    PROVE  /\ SameBooks(w, x) /\ x.off = w.off
           /\ \E out \in Nat :
                 /\ x.sweep.balanceOf[s] = w.sweep.balanceOf[s] + out
                 /\ out >= convertToSWEEP(w, Least(a, w.usdx[s]))
<1> DEFINE paid == Least(a, w.usdx[s])
           fair == convertToSWEEP(w, oracleUsdxToUsd(w, paid))
<1>1. x \in UNION {UNION {SweepTransfer(w1, Outside, s, out) :
                             out \in subBasisPoints(fair, 0) .. fair + Bonus} :
                      w1 \in UsdxTransfer(w, s, Outside, paid)}
  BY Zenon DEF Buy, Then
<1>2. PICK w1 \in UsdxTransfer(w, s, Outside, paid) :
         x \in UNION {SweepTransfer(w1, Outside, s, out) :
                         out \in subBasisPoints(fair, 0) .. fair + Bonus}
  BY <1>1, Zenon
<1>3. PICK out \in subBasisPoints(fair, 0) .. fair + Bonus :
         x \in SweepTransfer(w1, Outside, s, out)
  BY <1>2, Zenon
<1>4. w \in Worlds /\ w.usdx[s] \in Nat
  BY StabFields DEF GoodWorld
<1>5. paid \in Nat
  BY <1>4, LeastNat
<1>a. paid = Least(a, w.usdx[s])
  OBVIOUS
<1> HIDE DEF paid
<1>6. fair \in Nat /\ fair = convertToSWEEP(w, paid)
  BY <1>4, <1>5, AtPar, Conversions
<1> HIDE DEF fair
<1>7. subBasisPoints(fair, 0) = fair
  <2>1. fair * Precision = Precision * fair /\ Precision * fair \in Int
    BY <1>6, Units
  <2>2. /\ fair =< (fair * Precision) \div Precision
        /\ (fair * Precision) \div Precision =< fair
        /\ (fair * Precision) \div Precision \in Int
    BY <1>6, <2>1, Units, Rounded, QuotientAtLeast, QuotientAtMost
  <2>3. Precision - 0 = Precision
    BY Units
  <2> QED
    BY <1>6, <2>2, <2>3 DEF subBasisPoints
<1>8. out \in Nat /\ out >= fair
  BY <1>6, <1>7, Units
<1>9. GoodWorld(w1) /\ SameBooks(w, w1) /\ w1.off = w.off /\ w1.sweep = w.sweep
  BY <1>2, <1>5, Who, UsdxTransferGood
<1>10. /\ SameBooks(w1, x) /\ x.off = w1.off
       /\ x.sweep.balanceOf = Moved(w1.sweep.balanceOf, Outside, s, out)
  BY <1>3, <1>8, <1>9, Who, SweepTransferGood
<1>11. x.sweep.balanceOf[s] = w.sweep.balanceOf[s] + out
  <2>1. PICK g \in [Accounts -> Nat] : g = w.sweep.balanceOf
    BY <1>4, WorldFields
  <2>2. Moved(g, Outside, s, out)[s] = g[s] + out
    BY <1>8, MovedFrom
  <2> QED
    BY <1>9, <1>10, <2>1, <2>2
<1> QED
  BY <1>6, <1>8, <1>9, <1>10, <1>11, <1>a DEF SameBooks

\* What is still missing of an amount of SWEEP when its worth has been spent on a part of
\* it: no more than the rest of its worth, and what one SWEEP is worth, and one.
LEMMA StillMissing ==
    ASSUME NEW out \in Nat, NEW rest \in Nat, NEW paid \in Nat,
           NEW price \in Nat \ {0}, NEW unit \in Nat \ {0},
           out >= (paid * unit) \div price
    PROVE  /\ InUSD(rest, price, unit) \in Nat /\ InUSD(out + rest, price, unit) \in Nat
           /\ InUSD(1, price, unit) \in Nat
           /\ InUSD(rest, price, unit) + paid =<
                 InUSD(out + rest, price, unit) + InUSD(1, price, unit) + 1
<1>1. PICK cost \in Nat : cost = paid * unit
  BY MulNat
<1>2. PICK q \in Int : q = cost \div price /\ cost < price * q + price
  BY <1>1, Rounded
<1>3. out + 1 \in Nat /\ q =< out
  BY <1>1, <1>2
<1>4. price * q \in Int /\ price * out \in Int /\ price * q =< price * out
  BY <1>2, <1>3, Product
<1>5. (out + 1) * price = price * out + price
  OBVIOUS
<1>6. PICK whole \in Int : whole = (out + 1) * price /\ cost < whole
  BY <1>1, <1>2, <1>4, <1>5
<1>7. unit * paid =< whole /\ unit * paid \in Int
  BY <1>1, <1>6
<1>8. paid =< whole \div unit
  BY <1>6, <1>7, QuotientAtLeast
<1>9. paid =< InUSD(out + 1, price, unit)
  BY <1>6, <1>8 DEF InUSD
<1>10. /\ InUSD(out, price, unit) \in Nat /\ InUSD(1, price, unit) \in Nat
       /\ InUSD(out + 1, price, unit) \in Nat
       /\ InUSD(out + 1, price, unit) =< InUSD(out, price, unit) + InUSD(1, price, unit) + 1
  BY 1 \in Nat, Together
<1>11. /\ InUSD(rest, price, unit) \in Nat /\ InUSD(out + rest, price, unit) \in Nat
       /\ InUSD(out, price, unit) + InUSD(rest, price, unit) =< InUSD(out + rest, price, unit)
  BY Together
<1> QED
  BY <1>9, <1>10, <1>11

\* What s lacks of an amount of SWEEP is asked for.
AsksFor(w, x, s, amount) ==
    \/ x.sweep.balanceOf[s] >= amount
    \/ convertToUSD(w, amount - x.sweep.balanceOf[s]) =<
           Asked(x, s) + convertToUSD(w, 1) + 1

LEMMA AskedNat ==
    ASSUME NEW w \in Worlds, NEW s \in Stabilizers
    PROVE  Asked(w, s) \in Nat
<1>1. w.off[s] \in OffChainStorage
  BY WorldFields
<1> QED
  BY <1>1 DEF Asked, OffChainStorage

LEMMA RaiseSweepAsks ==
    ASSUME NEW w, GoodWorld(w), NEW s \in Stabilizers, NEW amount \in Nat,
           AssetOf[s] = "OffChainAsset", w.usdxPrice = Unit,
           NEW x \in RaiseSweep(w, s, amount, 0)
    PROVE  AsksFor(w, x, s, amount)
<1> DEFINE missing == oracleUsdToUsdx(w, convertToUSD(w, amount - w.sweep.balanceOf[s]))
<1>1. PICK before \in Nat, cash \in Nat : before = w.sweep.balanceOf[s] /\ cash = w.usdx[s]
  BY StabFields DEF GoodWorld
<1>2. CASE before >= amount
  BY <1>1, <1>2 DEF RaiseSweep, AsksFor
<1>3. CASE ~(before >= amount)
  <2>1. PICK lack \in Nat : lack = amount - before
    BY <1>3
  <2>2. missing \in Nat /\ missing = convertToUSD(w, lack)
    <3>1. convertToUSD(w, lack) \in Nat
      BY Conversions DEF GoodWorld
    <3>2. oracleUsdToUsdx(w, convertToUSD(w, lack)) = convertToUSD(w, lack)
      BY <3>1, AtPar DEF oracleUsdToUsdx, oracleUsdxToUsd
    <3> QED
      BY <1>1, <2>1, <3>1, <3>2
  <2>3. x \in UNION {IF w1.usdx[s] > 0 THEN Buy(w1, s, missing, 0) ELSE {w1} :
                        w1 \in IF missing > w.usdx[s]
                               THEN Divest(w, s, missing - w.usdx[s], 0) ELSE {w}}
    BY <1>1, <1>3, Zenon DEF RaiseSweep, Then
  <2> HIDE DEF missing
  <2>4. PICK w1 \in IF missing > w.usdx[s]
                    THEN Divest(w, s, missing - w.usdx[s], 0) ELSE {w} :
           x \in IF w1.usdx[s] > 0 THEN Buy(w1, s, missing, 0) ELSE {w1}
    BY <2>3, Zenon
  <2>5. /\ GoodWorld(w1) /\ SameBooks(w, w1) /\ w1.usdx = w.usdx /\ w1.sweep = w.sweep
        /\ Asked(w1, s) \in Nat /\ Asked(w1, s) + Least(missing, cash) >= missing
    <3>1. CASE missing > cash
      <4>1. /\ missing - cash \in Nat
            /\ w1 \in OffChainDivest(w, s, missing - cash)
        <5>1. w1 \in Divest(w, s, missing - cash, 0)
          BY <1>1, <2>4, <3>1
        <5>2. Divest(w, s, missing - cash, 0) = OffChainDivest(w, s, missing - cash)
          BY DEF Divest
        <5> QED
          BY <2>2, <3>1, <5>1, <5>2
      <4>2. PICK ask \in Nat : ask = missing - cash /\ w1 \in OffChainDivest(w, s, ask)
        BY <4>1
      <4>3. /\ GoodWorld(w1) /\ SameBooks(w, w1) /\ w1.usdx = w.usdx /\ w1.sweep = w.sweep
            /\ Asked(w1, s) = ask
        BY <4>2, DivestAsks
      <4> QED
        BY <2>2, <3>1, <4>2, <4>3 DEF Least
    <3>2. CASE ~(missing > cash)
      <4>1. w1 = w /\ Asked(w, s) \in Nat
        BY <1>1, <2>4, <3>2, AskedNat DEF GoodWorld
      <4> QED
        BY <2>2, <3>2, <4>1 DEF Least, SameBooks
    <3> QED
      BY <3>1, <3>2
  <2>6. PICK ask \in Nat, paid \in Nat :
           ask = Asked(w1, s) /\ paid = Least(missing, cash) /\ ask + paid >= missing
    BY <2>2, <2>5, LeastNat
  <2>7. PICK price \in Nat \ {0}, unit \in Nat \ {0} :
           /\ price = w.targetPrice /\ unit = Unit * Scale
           /\ \A n \in Nat : convertToUSD(w, n) = InUSD(n, price, unit)
    BY SweepInUSD
  <2>8. InUSD(1, price, unit) \in Nat /\ convertToUSD(w, 1) = InUSD(1, price, unit)
    BY <2>7, 1 \in Nat, Together
  <2>9. CASE cash > 0
    <3>1. x \in Buy(w1, s, missing, 0) /\ w1.usdxPrice = Unit
      BY <1>1, <2>4, <2>5, <2>9 DEF SameBooks
    <3>2. PICK out \in Nat :
             /\ x.sweep.balanceOf[s] = w1.sweep.balanceOf[s] + out
             /\ out >= convertToSWEEP(w1, Least(missing, w1.usdx[s]))
             /\ x.off = w1.off
      BY <2>2, <2>5, <3>1, BuyPays
    <3>3. x.sweep.balanceOf[s] = before + out /\ Asked(x, s) = ask
      BY <1>1, <2>5, <2>6, <3>2 DEF Asked
    <3>4. out >= (paid * unit) \div price
      <4>1. convertToSWEEP(w1, paid) = (paid * unit) \div price
        <5>1. paid * Unit * Scale = paid * unit
          BY <2>7, Units
        <5> QED
          BY <2>5, <2>7, <5>1 DEF SameBooks, convertToSWEEP
      <4> QED
        BY <1>1, <2>5, <2>6, <3>2, <4>1
    <3>5. CASE before + out >= amount
      BY <3>3, <3>5 DEF AsksFor
    <3>6. CASE ~(before + out >= amount)
      <4>1. PICK rest \in Nat : rest = amount - (before + out) /\ lack = out + rest
        BY <2>1, <3>6
      <4>2. /\ InUSD(rest, price, unit) \in Nat /\ InUSD(out + rest, price, unit) \in Nat
            /\ InUSD(rest, price, unit) + paid =<
                  InUSD(out + rest, price, unit) + InUSD(1, price, unit) + 1
        BY <3>4, StillMissing
      <4>3. /\ missing = InUSD(out + rest, price, unit)
            /\ convertToUSD(w, rest) = InUSD(rest, price, unit)
        BY <2>2, <2>7, <4>1
      <4>4. convertToUSD(w, rest) =< ask + convertToUSD(w, 1) + 1
        BY <2>2, <2>6, <2>8, <4>2, <4>3
      <4> QED
        BY <3>3, <4>1, <4>4 DEF AsksFor
    <3> QED
      BY <3>5, <3>6
  <2>10. CASE ~(cash > 0)
    <3>1. x = w1 /\ paid = 0 /\ x.sweep.balanceOf[s] = before
      <4>1. x = w1
        BY <1>1, <2>4, <2>5, <2>10
      <4> QED
        BY <1>1, <2>2, <2>5, <2>6, <2>10, <4>1 DEF Least
    <3>2. convertToUSD(w, lack) =< ask + convertToUSD(w, 1) + 1
      BY <2>2, <2>6, <2>8, <3>1
    <3> QED
      BY <2>1, <2>6, <3>1, <3>2 DEF AsksFor
  <2> QED
    BY <2>9, <2>10
<1> QED
  BY <1>2, <1>3

\* A call of s names an amount, and moves nothing.
LEMMA SetCallMoves ==
    ASSUME NEW w \in Worlds, NEW s \in Stabilizers, NEW amount
    PROVE  /\ SameHoldings(w, SetCall(w, s, amount)) /\ SetCall(w, s, amount).sweep = w.sweep
           /\ SetCall(w, s, amount).usdxPrice = w.usdxPrice
  BY DEF SetCall, SameHoldings, Worlds

\* What is still called of s when a call is over is asked for.
LEMMA AutoCallAsks ==
    ASSUME NEW w, GoodWorld(w), NEW s \in Stabilizers, NEW a \in Nat,
           AssetOf[s] = "OffChainAsset", w.usdxPrice = Unit,
           w.stab[s].config.callDelay > 0, NEW x \in AutoCall(w, s, a, 0)
    PROVE  convertToUSD(w, x.stab[s].callAmount) =< Asked(x, s) + convertToUSD(w, 1) + 1
<1> DEFINE amount == Least(a, getDebt(w, s))
           called == SetCall(w, s, amount)
<1>1. x \in UNION {IF w1.sweep.balanceOf[s] > 0 /\ amount > 0 THEN Repay(w1, s, amount)
                                                              ELSE {w1} :
                      w1 \in RaiseSweep(called, s, amount, 0)}
  BY Zenon DEF AutoCall, Then
<1>2. PICK w1 \in RaiseSweep(called, s, amount, 0) :
         x \in IF w1.sweep.balanceOf[s] > 0 /\ amount > 0 THEN Repay(w1, s, amount) ELSE {w1}
  BY <1>1, Zenon
<1>3. amount \in Nat /\ getDebt(w, s) \in Nat /\ amount =< getDebt(w, s)
  BY FeeNat, LeastNat
<1> HIDE DEF amount
<1>4. /\ Kept(w, called) /\ Calls(w, called, s, amount)
      /\ called.usdxPrice = Unit /\ called.targetPrice = w.targetPrice
  <2>1. Kept(w, called) /\ Calls(w, called, s, amount)
    BY <1>3, SetCallKept
  <2>2. SameHoldings(w, called) /\ called.usdxPrice = w.usdxPrice
    BY SetCallMoves DEF GoodWorld
  <2> QED
    BY <2>1, <2>2 DEF SameHoldings
<1> HIDE DEF called
<1>5. GoodWorld(called)
  BY <1>4 DEF Kept
<1>6. Kept(called, w1) /\ SameBooks(called, w1)
  <2>1. 0 \in 0 .. Precision
    BY Units
  <2> QED
    BY <1>2, <1>3, <1>5, <2>1, RaiseSweepKept
<1>7. AsksFor(called, w1, s, amount)
  BY <1>2, <1>3, <1>4, <1>5, RaiseSweepAsks
<1>8. \A n : convertToUSD(called, n) = convertToUSD(w, n)
  BY <1>4 DEF convertToUSD
<1>9. PICK after \in Nat : after = w1.sweep.balanceOf[s]
  BY <1>6, StabFields DEF Kept, GoodWorld
<1>10. w1.stab[s].callAmount = amount /\ getDebt(w1, s) = getDebt(w, s)
  BY <1>4, <1>6, DebtSame DEF SameBooks, Calls
<1>11. /\ Asked(x, s) = Asked(w1, s)
       /\ x.stab[s].callAmount = IF amount > after THEN amount - after ELSE 0
  <2>1. CASE after > 0 /\ amount > 0
    <3>1. x \in Repay(w1, s, amount) /\ amount \in Int /\ GoodWorld(w1)
      BY <1>2, <1>3, <1>6, <1>9, <2>1 DEF Kept
    <3>2. /\ Pays(w1, x, s, Payable(w1, s, amount))
          /\ Spends(w1, x, s, Payable(w1, s, amount))
      BY <3>1, RepayKept
    <3>3. Payable(w1, s, amount) = Least(amount, after)
      BY <1>3, <1>9, <1>10 DEF Payable, Least
    <3> QED
      BY <1>3, <1>9, <1>10, <3>2, <3>3 DEF Pays, Spends, SameHoldings, Asked, Least
  <2>2. CASE ~(after > 0 /\ amount > 0)
    BY <1>2, <1>3, <1>9, <1>10, <2>2
  <2> QED
    BY <2>1, <2>2
<1>12. Asked(x, s) \in Nat /\ convertToUSD(w, 1) \in Nat
  <2>1. w \in Worlds /\ w1 \in Worlds
    BY <1>6 DEF Kept, GoodWorld
  <2> QED
    BY <1>11, <2>1, AskedNat, Conversions, 1 \in Nat
<1>13. CASE amount > after
  <2>1. convertToUSD(w, amount - after) =< Asked(w1, s) + convertToUSD(w, 1) + 1
    BY <1>3, <1>7, <1>8, <1>9, <1>13 DEF AsksFor
  <2> QED
    BY <1>11, <1>13, <2>1
<1>14. CASE ~(amount > after)
  <2>1. convertToUSD(w, 0) = 0
    <3>1. PICK unit \in Nat \ {0}, price \in Nat : unit = Unit * Scale /\ price = w.targetPrice
      BY WorldFields, Units, MulPos DEF GoodWorld
    <3>2. (0 * price) \div unit = 0
      OBVIOUS
    <3> QED
      BY <3>1, <3>2 DEF convertToUSD
  <2> QED
    BY <1>11, <1>12, <1>14, <2>1
<1> QED
  BY <1>13, <1>14

\* Whatever was called, asked for, paid back or bought before: what a call of an off-chain
\* asset leaves open is asked for, at any price of SWEEP and with any balance and debt.
THEOREM CallsAskForRest == Spec => CallAsksForRest
<1>1. ASSUME GoodWorld(World), NEW s \in Stabilizers, NEW a \in AmountsOf[s],
             AssetOf[s] = "OffChainAsset", usdxPrice = Unit,
             stab[s].config.callDelay # 0, autoCall(s, a, 0)
      PROVE  convertToUSD(World, stab'[s].callAmount) =<
                 (IF off'[s].redeemMode THEN off'[s].redeemAmount ELSE 0)
                     + convertToUSD(World, 1) + 1
  <2>1. PICK w : w = World
    OBVIOUS
  <2>2. /\ GoodWorld(w) /\ a \in Nat /\ w.usdxPrice = Unit
        /\ w.stab[s].config.callDelay > 0
    <3>1. w.stab = stab /\ w.usdxPrice = usdxPrice
      BY <2>1 DEF World
    <3>2. w.stab[s].config.callDelay \in Nat
      BY <1>1, <2>1, StabFields DEF GoodWorld
    <3> QED
      BY <1>1, <2>1, <3>1, <3>2, Inputs
  <2>3. PICK x \in AutoCall(w, s, a, 0) : Becomes(x)
    BY <1>1, <2>1, Zenon DEF autoCall, Do, Becomes
  <2>4. convertToUSD(w, x.stab[s].callAmount) =< Asked(x, s) + convertToUSD(w, 1) + 1
    BY <1>1, <2>2, <2>3, AutoCallAsks
  <2>5. stab' = x.stab /\ off' = x.off
    BY <2>3 DEF Becomes
  <2> QED
    BY <2>1, <2>4, <2>5 DEF Asked
<1>2. GoodWorld(World) =>
        [\A s \in Stabilizers :
          \/ AssetOf[s] # "OffChainAsset" \/ usdxPrice # Unit
          \/ stab[s].config.callDelay = 0
          \/ convertToUSD(World, stab'[s].callAmount) =<
                 (IF off'[s].redeemMode THEN off'[s].redeemAmount ELSE 0)
                     + convertToUSD(World, 1) + 1
          \/ \A a \in AmountsOf[s] : ~autoCall(s, a, 0)]_vars
  BY <1>1
<1> QED
  BY <1>2, GoodAlways, PTL DEF Spec, CallAsksForRest

===============================================================================

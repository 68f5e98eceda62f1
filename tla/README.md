# Formal models of the Sweepr contracts

TLA+ models of the SWEEP stablecoin, of the contracts that lend it, of the governance
that owns it on every chain, and of the scripts that put it there, with the instances
TLC checks and proofs TLAPS checks. Everything is translated from the Solidity sources
under `contracts/` and the scripts under `scripts/`, `tasks/` and `utils/`; documents and
comments are only used as statements the code can be compared with.

    tlc -workers 2 -config MCSweepOFT.cfg MCSweepOFT      # a run (see "Runs")
    tlapm SweepOFTProofs.tla                              # a proof module

1. [The system](#1-the-system) – inventory
2. [How it is modelled](#2-how-it-is-modelled)
3. [Modules](#3-modules)
4. [Runs](#4-runs) – bounds, fairness
5. [Where code and documents disagree](#5-where-code-and-documents-disagree)
6. [Proofs](#6-proofs)
7. [Not modelled](#7-not-modelled) and [plan](#8-plan)

## 1. The system

SWEEP is an ERC20 token minted by *stabilizers*: contracts, one per borrower, that
borrow SWEEP, hold or invest what it buys, and owe it back. A *balancer* moves the
rate at which the target price of SWEEP grows, and can call loans or make stabilizers
invest. SWEEP exists on several chains, joined by LayerZero messages; the governance
chain sends the rate to the others.

| Component | State it keeps | Operations | Talks to |
|---|---|---|---|
| `Sweep/BaseSweep.sol` | minters (limit, minted amount, listed, enabled), their list, balances, pause, transfer approver | add/remove/set minter, mint, burn, transfer, pause, OFT debit and credit | approver (view), LayerZero path |
| `Sweep/Sweep.sol` | rate, price and start of the current and the next period; addresses | refresh, set rate / price / starts, mint (if the AMM price allows), writeOff | AMM (view), every minter in writeOff |
| `Balancer/Balancer.sol` | period, queue of actions and their amounts, failed messages | refresh, send rate, receive rate, action queue, execute, cancel and reset calls | Sweep, stabilizers, AMM, `Sweepr` (chain list), LayerZero |
| `Stabilizer/Stabilizer.sol` | debt, call (amount, deadline), fee clock, auction (start, price), configuration, pause | borrow, repay, payFee, invest, divest, one-step calls, AMM calls, withdraw, autoCall, autoInvest, auction, liquidate, configure/propose/reject | Sweep (mint, burn, price), AMM, asset hooks, Treasury |
| `Assets/*.sol` | the token or position invested in, sometimes a redemption in progress | the virtual hooks `assetValue`, `_invest`, `_divest`, `liquidate` | outside protocols, Chainlink |
| `Governance/Sweepr.sol`, `TokenDistributor.sol`, `Treasury.sol` | mint cap and chain list; distribution; fees | mint, add chain, buy, send | LayerZero |
| `Sweep/TransferApprover/VestingApprover.sol` | vesting schedules | create schedule, check a transfer | Sweepr |
| `SweeprGovernor.sol`, the timelock | proposals, votes and what voters held at the snapshot; operations with the time they are ready; roles, and the deployer as their admin | propose, vote, queue, execute, cancel; `deploy_7` grants the timelock's roles | SWEEPR's past votes; SWEEP and the sender, which the timelock calls |
| `Governance/omnichain/*` | nonces and trusted remotes, owner; failed messages by nonce | `execute` (send), `_blockingLzReceive`, `retryMessage`, transfers of ownership | LayerZero, timelock, SWEEP |
| `scripts/governance`, `tasks/` | none | encode the calls of a proposal or a payload; connect sender and executor, hand them over | governor, sender, executor |
| `scripts/deploy*`, `scripts/upgrade` | a contract per script | read addresses, print them, ask, deploy, print the address | address books, exchanges' factories |
| `utils/networks/*`, `utils/constantsOld.js` | names and addresses of each network | edited by hand after each script | every script |
| `scripts/sweep/binary_search.js` | a trial amount, its bounds, a round | swap on a fork, look at the price, halve, reset | AMM |
| `AMM/*`, `MarketMaker/*` | market makers are stabilizers with a spread and positions | buy, sell, add and remove liquidity, time-weighted price | outside pools |

What makes it hard, and where:

- **Order of transactions.** Every call is atomic, but any actor may come between two of
  another's: borrower, liquidators, balancer, governance, and "anybody", who may call
  `refreshInterestRate`, `startAuction`, `buyAuction`, `retryMessage`.
- **Two ledgers for one fact.** A loan is `sweepBorrowed` in the stabilizer and
  `mintedAmount` in the token; about ten paths change both.
- **Delivery.** Bridged SWEEP is burnt on one chain and credited on another at a later
  time; the credit may revert, is stored and retried. Rates travel the same way.
- **Time.** Which period is in force, what the fee is, whether a call is missed and what
  an auction costs change without a transaction.
- **Governance over two chains.** A proposal is voted on with SWEEPR that moves and leaves
  for other chains meanwhile; it is queued, delayed and executed by anybody; its payload
  travels, may revert on arrival, is kept and retried after newer ones; and all of that
  while the deployer is still handing ownership over, one transaction at a time, and is
  still the timelock's admin and the executor's owner, who can act without a vote.
- **Bare addresses.** A rollout is some sixty scripts, each passing up to eleven addresses
  by position, and a file in which an operator writes down what each of them printed.
- **Unsigned arithmetic.** Rounded divisions, differences that revert below zero, ratios
  with a sign: the boundary decides whether a stabilizer can be liquidated at all.

What has to hold, per component: the minter list is exact and bridging neither makes nor
loses SWEEP; a paused chain is frozen; a public refresh cannot be used to move the rate
faster than one step a period, nor to make the price jump; a debt and what was minted for
it move together; a call has a deadline until it is paid; an auction's price never rises
and never falls below what the lender is protected for; a write-off keeps the value of
the debts; nothing is executed but what has won its vote and waited, at most once, whole,
on the chain it is for; a contract gets the addresses its constructor means; a pool opens
at a price of one; a search for an amount finds one if there is one. `PROJECT.json` lists, at its line, each hazard behind these.

## 2. How it is modelled

**A contract is a record, a function is an operator** from the storage before the call to
the *set* of storages it can leave: empty if it reverts, one element if it succeeds,
several if something outside (an AMM) decides an amount. A transaction chains such
operators over the whole world it can touch (`Then`, `\E t \in F(x)`), in the order of the
code; if any of them is empty there is no step, which is what a revert is. Every action of
a `Next` is therefore one whole transaction, or one step of the outside: block time,
oracle answers, the relayer.

**Who may call** is not a parameter: a function of governance, multisig, balancer or
borrower is an action only that actor takes. Re-entrancy is guarded in the code and the
tokens have no hooks into callers, so transactions do not nest.

**Numbers** are small naturals with the code's own roundings, all toward zero. A unit
that the code calls 1e6 (`PRECISION`, one dollar, 100% of a rate) is a constant; `Scale`
is how many parts of SWEEP make the smallest part of a dollar (1 where amounts of the two
never meet without a conversion, 2 for the off-chain asset). 256-bit overflow is out of
reach of every amount in question; underflow is a revert and is a guard or a type.

**Scripts** are data where they only pass arguments on: a script is the contract it deploys,
what its constructor takes and the names of the constants it passes, in order. What is
control in them (which address sorts first, which branch a network takes, a loop that
halves) is an action.

**Outside** (marked external in the map): LayerZero's path (in order, at any later time,
once) and its store of failed messages; OpenZeppelin's governor, timelock and votes under
`SweeprGovernor`; the exchanges' pool factories; the ledgers of usdx and of the invested token;
Chainlink answers, which may be any of a set at any time; AMM prices and swaps, which pay
at least the caller's slippage limit or revert; the answers of a transfer approver.

## 3. Modules

| Module | Models | Correspondence |
|---|---|---|
| `TokenBalances` | balances of any token | what a transfer does to them |
| `OneLedger` | what SWEEP over all chains promises | abstract: what each account holds, what is due to it, what each minter answers for; `Whole` in `SweepOFT` instantiates it under the refinement mapping (`held`, `due`, `issued` sum over chains, paths and failed messages) |
| `BaseSweep` | `BaseSweep.sol`, one chain | operators over the record `BaseSweepStorage`; `WithoutMinter` is the swap-and-pop loop of `removeMinter`; `BeforeTokenTransfer` is the hook through which every movement of SWEEP goes |
| `SweepOFT` | several chains of it | `sendFrom` = `_debitFrom` and the message; `lzReceive` = delivery, either `_creditTo` or a stored failed message; `retryMessage` |
| `SweepRate` | the two-period schedule of `Sweep.sol` | operators over the record `Schedule`; views take the block time |
| `BalancerRate` | the rate functions of `Balancer.sol` over it | `refreshInterestRate` by anybody, with any market price; the multisig's five settings and `writeOff`, each switched on by `Overrides` |
| `RateSync` | the rate messages between the balancers of several chains | `BalancerRate` on the governance chain, one more schedule per other chain; `refreshAndSend` is the whole transaction of `_sendNewInterestRate`; `lzReceive` = `_nonblockingLzReceive` or a stored failed message; `retryMessage`; `setBalancer` of a chain, which decides whether its SWEEP accepts this balancer; `setOnRemote` and `setStartsOnRemote` = what the chain's own multisig, governance or other balancer does to its schedule |
| `StabilizerWorld` | what the contracts of a stabilizer work on | the record of all storages a transaction can touch (a *world*: token, usdx, invested token, prices, stabilizers, claims on other protocols, time), conversions, transfers |
| `ERC20Asset`, `OffChainAsset` | the asset contracts | operators on a world for their overrides of `assetValue`, `_invest`, `_divest`; for the off-chain asset also `payback` and `updateValue` |
| `ERC4626Asset` | shares of a vault | the same, by usdx (`InvestDeposit`, `DivestWithdraw`) and by shares (`InvestMint`, `DivestRedeem`); `Leave` is what the vault pays and burns |
| `EthenaAsset`, `MapleAsset` | assets that pay back later | the same, and `requestRedeem`; `claim` of a world is what the protocol keeps of a request: what was asked back, when it can be collected and how long such waits are |
| `StabilizerCore` | `Stabilizer.sol` | operators on a world; a virtual function is decided by `AssetOf`, the contract of the stabilizer |
| `StabilizerSystem` | stabilizers and everybody who acts on them | the state, the transactions of borrower, anybody, balancer and governance, the moves of the world outside, and the properties |
| `BalancerQueue` | the queue of orders of `Balancer.sol` over the stabilizers of `StabilizerSystem` | `execute` folds one turn of its loop (`ExecuteOne`) over the queue, on sets of worlds: an order that reverts leaves none, so the whole transaction is no step |
| `SweepCalls` | what governance calls on a SWEEP contract | operators from a storage (owner, minters, pause, approvals) to the set of storages it may leave |
| `GovernanceScripts` | `scripts/governance/bravo`, `tasks/payloads` | what each encodes, as calls; ethers refuses six of the nine bravo scripts, which is an ASSUME that TLC evaluates |
| `Governor` | `SweeprGovernor.sol`, the timelock, `deploy_5`, `deploy_7`, votes | an action per function; `state` is the governor's view; SWEEPR moves between voters and to other chains; `admin` and `own` are the deployer's powers over the timelock, `grantOwn`, `scheduleAsOwner`, `executeAsOwner` and the two renouncements their use and their end |
| `OmnichainGovernance` | `OmnichainProposalSender.sol`, `OmnichainGovernanceExecutor.sol`, the tasks that connect and hand them over | `send`, `lzReceive` (all calls of the message, or a stored failure), `retryMessage`, the transfers of ownership; a second path from a contract of the deployer's own, which the executor's owner may trust instead |
| `GovernedSweep` | what all of it promises | abstract: a set of mandates, each carried out at most once, whole, by the chain's governor; everything else is a call of somebody with the rights they have |
| `GovernanceSystem` | governor, timelock, sender, executor and both SWEEPs together | `executeProposal` is the timelock's call to SWEEP or to the sender; `Governed` instantiates `GovernedSweep` under the refinement mapping |
| `NetworkConstants` | `utils/networks/*.js`, `utils/address.js`, `utils/constantsOld.js` | a set per network of the names that have a value there |
| `Constructors` | the constructors of all deployed contracts | a sequence per contract: what each parameter means |
| `DeployScripts` | every script that deploys | a definition per file, with its name |
| `Deployment` | the rollout of a network | `run` a script (with what it reads from the book at that time), the operator's `record`, a third party's pool |
| `BinarySearch` | `scripts/sweep/binary_search.js` | one action per turn of the loop (`Attempt`), and its three ends |
| `Sums` | sums over a finite set | used by `SweepOFT` and `Governor`; the folds of the community modules |
| `MC*` | the instances for TLC | sets and records a `.cfg` cannot hold; `MCOperations` runs `Deployment` or `BinarySearch` in a behaviour |
| `BaseSweepProofs`, `SweepOFTProofs`, `StabilizerProofs`, `BalancerQueueProofs`, `RateSyncProofs`, `NumberTheorems`, `GovernanceProofs`, `OperationsProofs` | the proofs | see section 6 |

`StabilizerSystem` composes the stabilizers with the token (`BaseSweep`, so that minting limits,
pause and removal of minters are the real ones), with `Balancer.sol`'s `setLoanLimit`,
`cancelCall`, `autoCall`, `autoInvest` and with `Sweep.sol`'s `writeOff`. What
`targetPrice()` answers there is a value the environment moves; its dynamics are those of
`BalancerRate`.

Operators marked *Mutant* are not part of the model. Each is a plausible bug of the
definition below it; with it in place the property named in `PROJECT.json` fails, which
shows that the property depends on the code.

## 4. Runs

| Run (cfg) | Question | Instance |
|---|---|---|
| `MCSweepOFT` | minter list, conservation over chains, delivery; the refinement `ImplementsOneLedger` | 2 chains, 2 accounts, minters on one chain, amount 1, limit 2, at most 2 SWEEP, two messages from the chain with the minters, so that one waits behind another, and one back; 55 304 states |
| `MCRateSync` | the public refresh and the multisig's settings beside it; the rate sent to another chain | day of 2 ticks, 6 ticks, periods of 2 and 3 ticks, price 100, market below and above the band, steps of 60% a day, so that two of them eat more than the price; one other chain, 2 messages on the path; three scenarios (below); 1 285 623 states |
| `MCBalancerQueue` | orders, calls and their accounting | 1 stabilizer, queue of 2, amounts 2 and 4, call delay 1, a fee that accrues each tick, token prices 3 and 4; 142 340 states |
| `MCERC20Asset` | auctions, liquidation, repayment; calls with a deadline, write-off, removal of the minter, reject, pause, treasury | 2 stabilizers of which one acts: `s1` with slippage 20%, one token price below and one at the initial; `s2` with call delay 1; 3 ticks, target prices 3 to 5, a fee of a quarter a day, a write-off with no interest accrued or with half as much again, amount 4, 3 usdx and 3 tokens outside; 68 700 states |
| `MCOffChainAsset` | what a call asks back of an off-chain asset, between loans, paybacks and valuations | 1 stabilizer, two SWEEP to the smallest part of a dollar, loans and amounts of 6, target prices 4 and 5, 2 ticks, valuation 1, investments up to 4; 136 406 states |
| `MCRedemption` | shares of a vault between loans, calls and moving prices: paid at once, after a cooldown, in windows and in parts | 3 stabilizers of which one acts: `v` a vault asset, a share worth half a usdx to one and a half, amounts 1 and 4; `e` an Ethena asset, cooldown 0 or 1, switched at any time, a share that only gains, 3 ticks, which is a request, a second one or a wait, and a collection; `m` a Maple asset, windows 1 apart, a pool short of usdx, calls with a delay of 1, so that governance can force a redemption; the share of `e` and `m` worth one usdx or four; 37 269 states |
| `MCGovernance` | votes, delays, hand-over, messages that fail; the refinement `ImplementsGovernedSweep` | 2 voters with 2 and 1 SWEEPR, quorum 40%, every delay 1, 2 proposals, 2 messages on a path, one other chain, 5 dockets (below); 299 248 states |
| `MCOperations` | the rollout of a network in any order of the scripts; the search for an amount to swap | all eleven networks, both orders of the addresses, a third party that opens a pool at 100 instead of 1; pools of up to 17 SWEEP, 4 rounds, funds none, half or all; 383 236 states |
| `MCERC20AssetCall`, `…Insolvent`, `MCOffChainAssetPayback`, `MCRedemptionLiquidation` | the disagreements of section 5 | each stops at its counterexample |

What the properties say:

- `MinterListConsistent`: through swap-and-pop removals and re-adds, `minterAddresses` is
  exactly the listed minters, each once. `writeOff` and `resetCalls` walk it.
- `BackingChangesOnlyByRemoval`: SWEEP on all chains, on the way and in failed messages,
  less what minters account for, changes only when a minter is removed, by what it had
  minted. (Removing a minter forgets its `mintedAmount`; this is what the code does.)
- `ImplementsOneLedger`: the chains together are the abstract `OneLedger`. What is sent to an
  account on another chain is due to that account from then on and arrives there once,
  however late, refused, stored or retried; what an account holds falls by nothing but a
  transfer or its own burning as a minter, and SWEEP comes from minters only, who answer for it.
- `PathDrains`: a chain that cannot credit a message, because it is paused or refuses it, does
  not block the one behind it; every message of a path is delivered or stored in the end.
  (That no path moves a balance on a paused chain is proved: `PausedFrozen`.)
- `OneStepPerPeriod`, `PriceFollowsRate`: however often and whenever the public refresh is
  called, the planned rate is at most a step from the current one, and the target price
  moves in the direction of the rate and by at most a day's worth of it, also across the
  boundary of two periods, where it was computed in seconds and is read in days.
- `PeriodOrder`, `TypeOK`: no order of settings brings the starts out of order, no rate
  eats more than the price.
- `MissedUntilMultisig`: if nobody refreshes for a whole period, the public refresh is
  disabled, and only a start or period set by the multisig brings it back.
- `ChainsAgree`: a chain that applied every message in the period it was sent in agrees
  with the governance chain on rate, price and start of the period in force, whenever
  nothing is under way, although each chain rolls its periods over at another time and
  computes its price by itself, as long as no chain sets anything alone. `OnlyRefusedPlansReturn`:
  a retry brings back an older plan only if that message came before its start and was refused
  because the chain had another balancer, because its rate had eaten the chain's price by that
  start, or because the chain's own multisig had moved its starts beyond it, so that the refresh
  underflows (`Sweep.sol:260`); one that came too late stays too late. (So after a `setBalancer`
  to and fro, or a price or starts set by hand and set back, anybody can restore an older plan.)
- `AmountsQueued`, `OrderedOnce`: no amount survives its order, and a stabilizer queued
  twice gets one order. `CallAccountedFor`: after a call, what it asked for was repaid or
  is the amount still called, whatever was called, repaid or accrued before.
- `AuctionHasDebt`, `AuctionPriceNeverRises`, `LiquidationPaysFloor`: whatever ends a
  debt ends its auction; the price of a running auction on unchanged terms only falls; who takes the assets
  reduces the debt by the protected part. `AuctionHasDebt` speaks of configurations
  without calls: with them, section 5's first item keeps an auction open over no debt.
- `RepayNeverDefaults`: repaying from one's own SWEEP, fee included, never turns a
  stabilizer that is healthy by two of the smallest units of a dollar into a defaulted one.
  Without that margin it can: balance and debt are converted apart, and each may round
  away a unit of equity (with four units to a dollar, SWEEP at 1.25, assets worth 4 units,
  4 units of SWEEP and a debt of 7, repaying one takes the equity from one unit to none).
- `DebtMatchesMint`: debt and minted amount move together, in every call, except by
  write-off and removal. `CallHasDeadline`: a pending call has one, whatever calls,
  repayments, cancellations and configurations follow. `WriteOffKeepsValue`: at the new
  price what a called stabilizer owes in USD never grows and loses no more than the roundings,
  of which that of the ratio of the prices grows with the debt. The period and its rate go on,
  so that SWEEP answers the new price with the interest accrued since the period began, which
  was in the old price already: what is owed at the price answered is more by that interest, and
  no more (the test writes off on the first day, when it is nothing).

- `NoFreeEquity`: at unmoved prices, with usdx at a dollar, nothing a borrower or the balancer
  does makes a stabilizer richer, with pools that pay no more than the oracle price: loans,
  swaps, calls, redemptions and repayments move value between books, but for two units of rounding. (A
  new `protocolFee` does change what is owed: `getFee` prices the days gone by with it.)
  `CallAsksForRest`: what a call of an off-chain asset leaves unpaid is under request from
  the wallet when the call is over, whatever had been requested before, where swaps are exact
  and a usdx is worth a dollar (a swap that loses some of its value leaves more called than was
  asked back), but for the worth of one SWEEP and a unit, which in this run is one unit.

- `RedemptionLosesNothing`: through requests, restarted cooldowns, cooldowns switched off,
  payments in part and forced redemptions nothing of an investment is lost on the way (two
  units of rounding apart, with usdx at a dollar), with
  swaps at their slippage limit left out; with `NoFreeEquity` on the other side nothing is
  paid twice. What is claimed counts here also where the contract does not count it.
- `DivestRaisesWhatIsAsked`: a vault asset gives a call the usdx it asks for, never more,
  and less only by the rounding of a share or when it has no more.

- `TallyRight`: however SWEEPR moves between holders and chains while a vote is open, a
  tally is what its voters held at the snapshot, each once. `NothingHasty`: what the
  governor executed has won its vote, with a quorum, and has waited, unless the deployer had
  scheduled its operation itself, for which the delay may run during the vote. `VotedOnly`: once
  everything is handed over, owner and minters of SWEEP on either chain change only by an
  executed proposal for that chain, also when its message failed and was retried, and the
  deployer can undo none of it. `HandedOver` says what everything is: the timelock owns SWEEP and
  the sender, the executor owns SWEEP on its chain and itself and trusts the sender, the deployer
  has renounced the admin role that `deploy_5` leaves it (line 22) and whatever roles it took,
  and no message of its own is on the sender's path or stored. *No script renounces that role*,
  nor does one check the rest: after the scripts alone the deployer can still grant itself
  PROPOSER and EXECUTOR and act without a vote, so the property holds only once somebody
  ends this by hand.
- `ImplementsGovernedSweep`: the whole of it, on every path, is the abstract
  `GovernedSweep`: a mandate is decided once and carried out at most once, with all its
  calls or none, by the governor of its chain; what the deployer does through the timelock or from its own contract
  counts as a mandate too. `PathDrains` (of this run): a payload that
  reverts does not block those behind it, once the executor is its own and trusts the sender.
- `ArgsFit`: no contract is deployed with two of its addresses exchanged, another token's
  price feed or another exchange's helper, in whichever order the scripts were run and
  whichever file they found. `NeverStuck`: no network waits for an address that only a
  script can make which itself waits for one. (Scripts that throw
  on every network are outside it: it is about addresses still to be made.)
- `PoolsPricedAtOne`, `RateOnSweep`: whichever address sorts first, and whoever opened the
  pool, a pool printed without a warning trades one SWEEP for one usdx, and in pools with
  rate providers it is SWEEP that has one. The PancakeSwap pool outside BSC is excepted,
  see section 7.
- `BracketKept`, `FoundIsRight`, `GivesUpRightly`: rounding never halves the answer away,
  what is printed brings the price into the band, and when the loop gives up there was no
  such amount inside the bounds, provided the rounds suffice to halve the pool away.

**History variables** serve properties only and no guard reads them: `applied`, `inStep`,
`ownStarts`, `refused` in `RateSync`, `ownOps` in `Governor`, `overridden` in `BalancerRate`, the fields `sentAt` and `replaced` of its messages, `issued` in
`BalancerQueue`.

**Bounds.** `MaxTime`, `MaxNonce`, `MaxSent`, `MaxBound`, `MaxQueue`, `MaxValue`, `MaxClaim`, `MaxSupply`, `MintChains`, `Bonus`, `Accrued` and the sets of
amounts, prices and slippages are the only ones, each named where it is declared. Times
cover more than a day and a period boundary, a fee, a deadline and the whole fall of an
auction price (two steps to its floor). For `s1` a swap may pay any amount from 20%
below the oracle price up to it; elsewhere slippage and
`Bonus` are 0, and a worse price reaches a stabilizer through the oracles, which move
between any two calls. One stabilizer is enough for its own
properties, as stabilizers meet only in the token, whose list `MCSweepOFT` checks with two
minters, and a queue meets them only one after the other.
The minimum equity ratio is 10% throughout and loans go up to 4 (8 off
chain), one dollar being 4; with vaults up to 2, one dollar being 2.

Three instances hold several *scenarios*, so that what is about different parts does not
multiply; a behaviour stays in the one its initial state chose. In `MCERC20Asset` and
`MCRedemption` the ACTION_CONSTRAINT `MCScenarios` says which steps of `Next` it takes, in
`MCRateSync` the next-state relation of `MCSpec` does. In `MCERC20Asset` and `MCRedemption` one stabilizer acts and the
others, without a loan limit, rest: nothing is left out that could reach the active one
but through the token. `s1` stays minter, configured and unpaused, at a target price of a
dollar or more (liquidations, auctions); `s2` is called and governed in a market that
stands still, where only a write-off moves the target price. In `MCRateSync` Sweepr lists
no other chain ("alone": every setting of the multisig, rates that only fall), or one: in
"two chains" the governance chain refreshes and of its settings beside the messages takes
those that leave rates and starts alone, and `updateInterestRate` with its message; in "own
settings" the other chain's multisig sets a rate or a price first and its starts at any time.

In `MCGovernance` a behaviour has one *docket*, what its two proposals are: one vote at
home; `pause` and `unpause`, cancelled or not; two payloads of one and of two calls across
chains; and one for each chain, "retained", in which the deployer is still admin and owner of
the executor and uses both. `Focus` keeps from each what another is there to show (a poll with
any votes while SWEEPR moves; a hand-over in any order with one voter, by a deployer that
has renounced; and, with the grants, the sender and SWEEP at home settled first and one message to
a path, roles the deployer takes and gives up, operations it schedules and executes, and a
contract of its own that the executor trusts). `GovernanceProofs` proves
its four safety properties and the refinement of the whole of `GovernanceSystem`, without
dockets, focus or bounds. Four rounds halve 16 away, so that 17 is the first pool where they
do not suffice, as 15 do for 32 768.

**Fairness** is assumed of messages only: `FairSpec` of `SweepOFT` lets the relayer keep delivering
(weak fairness of `lzReceive` on every path). Delivering is never disabled for good by the
contracts because a credit that reverts is caught. The same holds of the path from
`OmnichainProposalSender` to its executor, once that owns itself and trusts the sender; an
owner may stop trusting it before (`FairSpec` of `GovernanceSystem`). Nothing is assumed of people: nobody has to vote,
queue, execute, refresh or retry.

**Deadlock** is checked where the system cannot stop (`SweepOFT`). The other instances end
in states where block time has reached its bound and nothing is left to do, hence
`CHECK_DEADLOCK FALSE` there.

## 5. Where code and documents disagree

1. *A paid stabilizer defaults.* `autoCall` takes the amount of a call from the debt with
   its fee; `payFee` pays the fee but leaves `callAmount`; the repayment of the rest then
   leaves a call of the size of the fee, with its deadline. When that passes, the
   stabilizer is in default with a debt of zero (`PaidMeansNotCalled`,
   `MCERC20AssetCall`). The comment on `configure` says it is defaulted "if the debt is
   not paid in that period".
2. *Default cannot be asked.* `currentValue` is an unsigned difference. Once the accrued fee
   is worth more than everything held, it reverts, and with it `isDefaulted`,
   `startAuction`, `liquidate`, until somebody pays the fee or gives the contract assets
   (`DefaultAlwaysReadable`, `MCERC20AssetInsolvent`).
3. *Paying back in SWEEP.* `OffChainAsset.payback` converts an amount of SWEEP to USD and
   then moves *that number* of SWEEP, while it books the number out of the investment. With
   18 and 6 decimals what arrives is next to nothing, and it closes a redeem request
   (`PaybackArrives`, `MCOffChainAssetPayback`). The comment says "The amount of usdx to
   payback"; the test of it (which is skipped) looks at the request only.
4. *A liquidation leaves what cools down.* Shares in Ethena's cooldown, or locked for Maple's
   next window, are in no balance `_liquidate` reads: "Gives all the assets to the
   liquidator" hands over the rest, and the stabilizer, its debt paid by the liquidator,
   collects them afterwards (`LiquidatorGetsAll`, `MCRedemptionLiquidation`).

## 6. Proofs

TLC checks the instances above; these hold for every value of the constants that satisfies
the named ASSUMEs (amounts, prices and precisions are naturals, the latter not zero;
`TLC` evaluates them in every run).

| Theorem | Says |
|---|---|
| `SweepOFTProofs!TypeCorrect` | `Spec => []TypeOK`: any chains, accounts, amounts; no balance or minted amount below zero, messages well formed |
| `SweepOFTProofs!MinterListCorrect` | `Spec => []MinterListConsistent` |
| `SweepOFTProofs!PausedFrozen` | `Spec => PausedChainFrozen` |
| `SweepOFTProofs!BackingCorrect` | `Spec => BackingChangesOnlyByRemoval`, for finitely many chains and accounts, any messages and failures |
| `SweepOFTProofs!OneLedgerRefined` | `Spec => ImplementsOneLedger`, for finitely many chains and accounts, any messages, failures and retries |
| `StabilizerProofs!TypesKept`, `CallsHaveDeadlines` | `Spec => []` of `TypeOK` and `CallHasDeadline`: any stabilizers, of all five kinds of asset, configurations, amounts, prices and waits |
| `StabilizerProofs!DebtFollowsMint` | `Spec => DebtMatchesMint` |
| `StabilizerProofs!LiquidationsPay` | `Spec => LiquidationPaysFloor`, whatever the auction's price has come to, what is called and what the fee is |
| `StabilizerProofs!AuctionsFall` | `Spec => AuctionPriceNeverRises`, roundings included, whoever buys, repays, calls, moves prices or configures meanwhile |
| `StabilizerProofs!RepayersStayHealthy` | `Spec => RepayNeverDefaults`, however balance, fee and debt round |
| `StabilizerProofs!WriteOffsKeepValue` | `Spec => WriteOffKeepsValue`, for prices on either side of a dollar and any interest accrued |
| `StabilizerProofs!AuctionsHaveDebts` | `Spec => []AuctionHasDebt`, where every configuration has `callDelay` 0 and nothing is written off |
| `StabilizerProofs!VaultsRaiseWhatIsAsked` | `Spec => DivestRaisesWhatIsAsked`, for every price of a share |
| `StabilizerProofs!RedemptionsLoseNothing` | `Spec => RedemptionLosesNothing`, with all four roundings of a redemption |
| `StabilizerProofs!EquityIsNotFree` | `Bonus = 0` proves `Spec => NoFreeEquity`: every call of a borrower and of the balancer, of any of the five kinds of asset |
| `StabilizerProofs!CallsAskForRest` | `Spec => CallAsksForRest`, for every balance, debt and price of SWEEP, and whatever was asked for before |
| `BalancerQueueProofs!QueueTypeCorrect` | `QueueSpec => []QueueTypeOK`: an execution of any number of orders is as safe as its single transactions |
| `BalancerQueueProofs!AmountsCorrect`, `OrdersCorrect` | `QueueSpec => []` of `AmountsQueued` and `OrderedOnce` |
| `BalancerQueueProofs!CallsCorrect` | `QueueSpec => CallAccountedFor`, for a queue of any length |
| `RateSyncProofs!TypeCorrect`, `PeriodsOrdered`, `OneStep` | `Spec => []` of `TypeOK`, `PeriodOrder`, `OneStepPerPeriod` |
| `RateSyncProofs!MissedStays` | `Spec => MissedUntilMultisig` |
| `RateSyncProofs!PriceMovesByDays` | `Spec => PriceFollowsRate`, for every length of a day, precision and rate, roundings included |
| `RateSyncProofs!SyncImplementsBalancer` | `SyncSpec => Spec`: with its messages, the balancer of the governance chain implements the one of `BalancerRate` |
| `RateSyncProofs!SyncTypeCorrect` | `SyncSpec => []` of the types of `RateSync` and of the order of the periods on every chain |
| `RateSyncProofs!RetriesCorrect` | `SyncSpec => OnlyRefusedPlansReturn`, for any chains, messages and retries, and whatever a chain sets itself |
| `RateSyncProofs!AgreeCorrect` | `SyncSpec => []ChainsAgree`, for any number of messages under way at once |
| `GovernanceProofs!GovernanceTypeOK`, `GovernanceNothingHasty`, `GovernanceTallyRight` | `Spec => []` of the three, for any voters, proposals, payloads, delays and quorum |
| `GovernanceProofs!GovernanceVotedOnly` | `Spec => VotedOnly`, whatever the deployer did with its roles and its own contract before |
| `GovernanceProofs!GovernanceRefines` | `Spec => ImplementsGovernedSweep` |
| `OperationsProofs!RolloutTypeCorrect` | `Spec => []TypeOK` of `Deployment`: a book that holds addresses under names, and records of what was deployed |
| `OperationsProofs!PoolPricesCorrect` | `Spec => []PoolsPricedAtOne`, for every order of scripts and every price a third party opened the pool at |
| `OperationsProofs!RatesCorrect` | `Spec => []RateOnSweep` |
| `OperationsProofs!SearchKeepsBracket`, `SearchFindsRight` | `SearchSpec => []BracketKept`, `[]FoundIsRight`, for a pool of any size |
| `OperationsProofs!SearchGivesUpRightly` | `SearchSpec => []GivesUpRightly`, for a pool of any size and any number of rounds |

*Token.* The inductive invariant is `TypeOK /\ MinterListConsistent` (`IInv`). Neither half
stands alone: that the swapped list is a sequence of accounts needs the removed minter to
be in it, and that it still lists everybody once needs the flags of the others untouched.
`BaseSweepProofs` first proves, of any list without repetitions, what appending a new
entry and swap-removing one leave (`Entries`, `Injective`), then of every function of the
contract that it keeps a storage `Good`; `SweepOFTProofs` lifts these to actions, one step
per action, and adds channels and failed messages. `PausedFrozen` needs only the types:
in each action that moves a balance the hook's guard contradicts the pause.
`BackingCorrect` is about sums. Each function of the contract has a lemma that says by how much it
moves the sum of the balances and that of the minted amounts, and each action moves the sums
of one chain, of the messages under way and of the failed ones by amounts that cancel
(`SumMove`), but for `removeMinter`. The invariant it needs (`Books`) is that the messages of a
path have numbers of their own and that a minter that is not listed has nothing minted on
its account, so that no amount is counted twice or comes back.
`OneLedgerRefined` needs the same invariant, and the sums account by account: `LedgerEntries`
says what each entry of `held`, `due` and `issued` is a sum of, `HeldOnChange`, `DueChange` and
`IssuedChange` what it becomes when one summand changes. A message is one element of one
path (`PathSendTo`, `PathDeliverTo`) and then one failed message, all due to the same
account, until its credit is the step `Arrive` (`CreditStep`); a delivery that reverts is no step
of the ledger. That nobody sends or burns more than the ledger has is `LedgerAtLeast`: a part
of a sum of naturals is no more than the sum (`SumAtLeast`).

*Rate.* `IInv` is `TypeOK /\ PeriodOrder /\ OneStepPerPeriod`. `RollFacts` and
`RefreshFacts` state what the roll-over and a successful refresh leave: the current rate
is the one in force, the planned rate the one asked for, and the planned start is not
before the current one nor before now. One step per period follows since the public
refresh asks for the rate in force plus or minus one step. The target price stays a
natural because a refresh whose rate has eaten the price reverts. `PriceMovesByDays` adds `PlannedPrice`: the
price of the next period is what the current rate makes of the current price until then.
A price is read after whole days and planned to the second, so that each step of time is
one of three: within a day nothing, a day more (`DayByDay`), or the end of a period, between
the last whole day and the next (`AtTheEnd`); a refresh whose period starts now is the last
of these too. `PriceMoves` carries a change of the rate of growth over to the price with the
rounding of both. `MissedStays` needs
only the last conjunct of `RefreshFacts`: a plan computed from a missed period starts in
the past.

*Stabilizers.* A function of the code is an operator from a world to the worlds it can
leave, so the argument is about worlds, not about variables. `GoodWorld` is the inductive
invariant: the types, the token's storage `Good`, nothing minted by a minter that is not
listed, a deadline for every pending call and no fee clock in the future; `TypeOK` alone is
not kept, since a fee over a negative time or a minter listed again with an old amount
would break it. `Kept(w, x)` says that a call that leaves `x` also keeps every `Gap` (debt
less minted amount), every configuration and every auction's debt, price and clock. Each function has its
lemma, and since `Kept` is transitive (`KeptTwice`) a compound function such as `AutoCall`,
`BorrowAndInvest` or `Liquidate` follows from the ones it calls. `RepayKept` is where the
work is: a payment no less than the fee and no more than the debt is booked before fee and
burn, and `StopAuction` drops the auction unless the stabilizer is still in default, which
with `callDelay` 0 means a debt is left. `Follows` is what is left of `Kept` when
governance acts: `removeMinter` and `writeOff` part debt and minted amount, `configure`
changes `callDelay`; `StepFollows` collects all actions.

`LiquidationsPay` follows a liquidation through its parts. With enough SWEEP to pay the part
that is protected, `RepayKept` gives what is left of the debt (`Pays`), a call that is booked
first takes only what is still owed (`FloorIsPart`), and the swap of the assets moves no
debt (`SameBooks`). `AuctionsFall` needs of every step that an auction keeps its starting
price and its clock while it runs: `Kept` and `Follows` say so, `StartAuctionFollows` because
the code starts none where one runs. That time then takes the price down and a smaller debt the
floor is `AuctionFalls`, by the monotony of products and rounded quotients (`Product`,
`Divided` of `NumberTheorems`). `WriteOffsKeepValue` multiplies its four roundings out
(`WrittenOffWorth`) for a minter that is on the list the write-off walks, which is `Good` of
the token (`WriteOffIs`). `RepayersStayHealthy` needs what a payment spends, and of whom
(`Spends`, with `RepayKept`): the balance falls by all of it, the debt by what is not the
fee, and no asset moves. What that costs in dollars is two units of equity at most
(`PaymentCost`, from `QuotientOfSum`), and a smaller value with as much equity less two has
still the ratio it must have (`RatioLeft`).

`VaultsRaiseWhatIsAsked` is about buying as many shares as an amount buys and selling them
again (`RoundTrip`). For `RedemptionsLoseNothing` the lemma of each function also says what it
does to shares, usdx and claim (`Redeems`): shares become a claim of what they are worth
(`Cools`), claim and shares are paid out (`Collects`), shares become a claim of themselves
(`Locks`), a part of that is paid out (`PaysOut`). SWEEP and debt stay (`RedeemedEquity`), so
only what is invested counts, and of it no more than two units are lost when a sum is
converted in two parts (`SharesLeft`, `CooledDown`).

`EquityIsNotFree` goes the other way. `Gains(w, x, s, n)` says that the equity of `s` grows by
`n` at most, and gains of steps in a row add up (`GainsTwice`), so a compound call gains what
its parts do: nothing where shares or SWEEP are bought for no less, or sold for no more, than
they are worth (`BoughtFair`, `SoldFair`, `TradesGain`), one unit where a sum in SWEEP enters
balance and debt, which round apart (`LendsGain`), one where a claim is rounded together
(`CooledUp`). No call has more than two such places. The theorem assumes `Bonus = 0`, that a
pool pays no more than the oracle price: what it pays beyond that is the borrower's gain, and
is meant to be. No such assumption is made for the other theorems.

`CallsAskForRest` follows a call through its parts. The request is for what the wallet must
add to the usdx there are (`DivestAsks`), the swap brings at least what these are worth
(`BuyPays`), and when so much of the worth of an amount is spent on a part of it, the rest is
worth no more than the remainder, one SWEEP and one unit (`StillMissing`). That a request which is
not needed leaves the earlier one in place can only add to what is asked for.

*Queue.* An execution is a fold over the queue on sets of worlds, and what a fold leaves of
every queue is induction over data. `Turns` unfolds it instead as a function on the sets of
turns: each is left by its last turn from the set without it. That there is one is shown
by the sizes of the sets (`TurnsExist`), and what is true of it by a smallest set of turns
it would fail for (`TurnsAfter`), with `NoSmallest` of `NumberTheorems`. `After` is what is true:
the world is `GoodWorld`, an amount is there or ordered, and of a stabilizer that was called
what was paid off and is still called is what was asked, which the orders of others do not
touch (`OrderKept`). `QueueInv` adds the queue: an amount that is not zero belongs to a
stabilizer in it, which `reset` and `execute` empty together.

*Messages.* Every step of `RateSync` is a step of `BalancerRate` or leaves its variables
alone (`SyncImplementsBalancer`), so the theorems on the governance chain carry over. For
the other chains the invariant adds the order of their periods: that a refresh keeps a
schedule a schedule (`RefreshFacts`) needs it, since the start it computes with is that of
a plan that arrived in a message.
`RetryInv` relates history and messages: those under way are the last ones sent, in order,
and all that were applied or stored came before them (`Numbered`); a stored one was refused
by the chain as it was, or is stale for ever, its start past or its rate out of range, which
no later time, schedule or balancer undoes (`StoredForReason`); and the current period of
every chain whose starts nobody moved by hand has begun (`RemoteBegun`), so that a plan in time cannot underflow there (`RefusedOrStale`). `AgreeInv` says that a chain in step is a past of the
governance chain: there is a row of schedules from the one it has to the one of the
governance chain, one refresh for each message under way (`Past`). Delivering the first
message takes the first step of that row, because a refresh at another time of the same
period leaves the same schedule (`SameRefresh`).

*Governance.* `GovernorInv` says of every proposal what its operation in the timelock may be
(`Ripe`): scheduled only by the governor, after a won vote, or by the deployer; ready only
`minDelay` after that; done only then; executed by the governor only after a vote it won, which
cannot change any more once it is over. `SystemInv` adds the messages: on each path nonces are
distinct and no higher than the last one sent, the failed ones have been delivered, and what a
message carries is the mandate of an operation that is done, or the deployer's.
From these follow `NothingHasty` and the refinement, in which a proposal is *pending* from when
its operation is scheduled until the timelock has performed it, and what it sent across chains from then until
it has been carried out; `Distinct` is what makes "at most once" hold across retries.
`GovernanceVotedOnly` uses that after the hand-over no role comes back to the deployer
(`RolesStay`) and that its state stays (`HandedOverStays`): an operation is then executed by the
governor alone (`ExecuteWon`), no delivery comes from another path, what is stored and carried out
is of an executed proposal, and a call by somebody who is neither owner nor governor changes
neither owner nor minters (`CallOfNobody`).

*Sums.* `TallyRight` is about sums over any number of voters. The library's induction
theorems cannot be instantiated here, so `NumberTheorems` goes another way: the recursion of
a sum is unfolded as a function on the subsets of its domain (`Adds`), and were some
subset a counterexample, one of least size would be (`NoSmallest`, by `LeastNatural`),
from which a smaller one can be built. `PowerSums` then gives that moving SWEEPR keeps
the sum.

*Search.* The invariant is `BracketKept` with what the bounds are: amounts already tried on
one side of the band, or the ends. `Halving` is the one fact of arithmetic. `GivesUpRightly`
adds `NarrowInv`: each round halves what is left between the bounds (`HalfWidth`), so that
after the last one nothing is left of a pool no larger than two to the number of rounds. That
`PowerOfTwo` is the power is again shown by a least round it would fail for (`DoublesExists`).

*Rollout.* What a pool is priced with was read from a file when its script started, and the
file changes while scripts run. `RolloutInv` says therefore of three moments what is true of
the values: the file holds under every name an address of what the name means (`BookRight`),
a script under way has read such an address or none (`Started`), and what it prints without a warning is
what it makes of such values, none of them undefined (`Printed`). Each step hands one on to
the next (`StartKeeps`, `ConfirmKeeps`, `RecordKeeps`). With the fields of a script's
arguments known, `PoolPrice` compares the decimals of the two tokens in either order of their
addresses, and a pool that somebody else opened at another price is the one that is warned
about, whatever the price.

Only model-checked: the two `PathDrains` (liveness is beyond the prover), and
`ArgsFit` and `NeverStuck` of the rollout. These two are about tables (the scripts, the constructors, the
names of eleven networks), not about amounts: TLC enumerates every network, order of addresses and order of
scripts, so that its check is exhaustive.

## 7. Not modelled

- `setFastMultisig`, proxies and initialisers, ownership transfer outside governance: single
  assignments by one owner. `setSweepr`, `changeBorrower`, `setAMM`: addresses that no
  modelled guard reads. `setArbSpread`, `setStepValue`: the spread and the step are constants.
- A timelock admin that takes the governor's roles away again, operations of the deployer that
  are none of the proposals', and LayerZero's configuration of the executor
  (`forceResumeReceive`, `setConfig`); clocks of the chains that differ, and the 256-bit overflow
  of an absurd rate a chain sets itself.
- Oracles that are stale, time out or have a sequencer down: they revert, which is no step.
- The vendored mathematics (`Libraries/Balancer`, `Libraries/TraderJoe`, `RMath`): 256-bit
  fixed-point logarithms and invariants, beyond TLC's integers and SMT.
- AMM adapters, market makers and most asset adapters (`GDAIAsset`, which waits for the epochs
  of a vault, among them): thin calls into protocols whose code is not in the repository. What stabilizers rely on is in `Buy`, `Sell`, `Invest`, `Divest`.
- `VestingApprover`, `TokenDistributor`, `Sweepr` beyond its votes: the approver's answers
  are arbitrary in `SweepOFT`, the chain list is fixed in `RateSync`.
- `scripts/stabilizer/interact.js`, `interact_aave.js`, `scripts/sweep/interact.js`: they
  drive a fork through functions that the contracts of this commit do not have; a model of
  them would be one of another system. `refresh_interest_rate.js` is one call, which
  `BalancerRate` has. `tasks/payloads/decodePayload.js` prints. The tasks that set the
  trusted remotes of tokens and balancers and send tokens do once what `SweepOFT` and
  `RateSync` take as given.
- `Mocks`, the tests, and of `utils/helper_functions.js` what serves tests only.

Met on the way, without a document that says otherwise:

- `Stabilizer.getFee` counts whole days since `spreadDate`, which every `payFee`, `borrow` and
  `repay` sets to now: parts of a day are not charged.
- `EthenaAsset.assetValue` does not count what cools down (line 56), so that asking for one's
  money lowers the equity ratio, and a healthy stabilizer can be liquidated for it; with
  item 4 of section 5 the liquidator then gets nothing of it.
- `MapleAsset._getSharesAmount` (line 90) takes the larger of what is asked for and the
  balance: a request for a part locks all shares, one for more reverts in the pool.
- `ERC4626Asset._divestRedeem` (lines 185-186) passes to `redeem`, which takes shares, what
  the shares are worth.
- `EthenaAsset._invest` compares the USDe it buys, with 18 decimals, with a least amount in the
  6 decimals of usdx: the slippage limit of an investment never bites.
- `autoCall` of an Ethena or Maple stabilizer without usdx reverts until something it asked
  for can be collected: neither amount nor deadline of the call are set.
- `MapleAsset.assetValue` adds the usdx that locked shares are worth to USD, where the free
  ones are valued at the oracle price; `ERC4626Asset.investMint` approves what the shares
  are worth rounded down, which a vault that rounds up refuses unless it divides evenly.
- `create_pancake_pool.js` prices its pool for two tokens of 18 decimals, as on BSC; on
  Arbitrum, where its names have values too, usdt has 6.
- `pancake_liquidity_helper.js`, `pancake_amm.js` and `pancake_market_maker.js` throw: they read
  variables nobody declares or pass fewer arguments than the constructor takes.
  `balancer_weighted_pool_lib.js` throws after it has deployed, before it prints the address
  that `aura.js` needs.
- Six of the nine bravo scripts call functions SWEEP no longer has, or with another number
  of arguments, and throw.
- `OmnichainProposalSender` says that what could not be sent is stored; the code reverts, so
  that the timelock's operation stays ready and can be executed again.
- `deploy_7_governor.js` gives the timelock's CANCELLER role to the deployer alone: the
  governor's `cancel` of a queued proposal reverts, and an operation that is not executed
  stays executable for ever.
- The executor can be handed to itself before its trusted remote is set, after which nobody
  can set it.
- `writeOff` sets both prices and leaves start and rate of the period: `targetPrice()` answers the
  new price with the interest since the start on it, and so on any day but the first another one
  than governance named.
- No script ends the admin role of the deployer over the timelock (`deploy_5_timelock.js:22`).
- `Sweepr` compares its mint cap with the supply of its own chain, which falls when SWEEPR
  leaves it.
- `binary_search.js` asks the AMM for a trial swap with a minimum of zero, which the AMMs of
  this commit refuse, and mints at a price at which SWEEP refuses: every search throws.

## 8. Plan

Built, in order: token and its bridge; rate schedule and balancer; stabilizer with the
ERC20 asset; first proofs; the rate between chains, with a refinement; the queue of orders;
the off-chain asset; the rollout of a network and the search; governance over two chains,
with its abstract specification and the proof that it is implemented; sums; the proofs
about the stabilizers' books; vaults and assets that pay back later; the proofs of the rollout;
the one ledger that the chains of SWEEP implement.
What could follow, most important first:

1. `GDAIAsset`, with the epochs of its vault, and the synchronous adapters, as further arms
   of the virtual functions in `StabilizerCore`.
2. `VestingApprover` (reference definition of the locked amount over bounded inputs),
   `TokenDistributor`, the chain list of `Sweepr`, `Treasury.sendEther`.
3. `MarketMaker` and the Uniswap V3 position.

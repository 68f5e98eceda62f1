------------------------------ MODULE Deployment ------------------------------
\* Bringing SWEEP to a network with the scripts: an operator runs one script at
\* a time, which reads its arguments from the address book, prints them, asks,
\* deploys and prints an address; the operator then writes that address into the
\* network's file, where the next script reads it. Meanwhile anybody may create
\* and price a pool of an open exchange.
EXTENDS DeployScripts, Integers, Sequences, FiniteSets

CONSTANTS
    Nets,           \* the networks rolled out, each behaviour one of them
    MarketPrices    \* powers of ten at which a third party may open a pool

ASSUME DeploymentAssumption ==
    /\ Nets \subseteq Networks
    /\ MarketPrices \subseteq Int

VARIABLES
    net,            \* process.env.NETWORK
    sweepFirst,     \* SWEEP's address sorts before usdx's
    book,           \* the names of the network's file that a script fills
    terminal,       \* what the operator's terminal shows
    market          \* the price each open pool has been opened at, if it has

vars == <<net, sweepFirst, book, terminal, market>>

\* A value is known by what it is and what it was made from.
Value(is, args) == [is |-> is, args |-> args]
Nothing == Value("nothing", <<>>)
FactoryOf == [UniswapPool |-> "uniswap.factory", PancakePool |-> "pancake.factory"]
OpenPools == DOMAIN FactoryOf

\* Mutant: the AMM that rates SWEEP in the Balancer pool is made after that pool.
RecordedAsCircle == [
    sweep |-> "tokens.sweep", rates_oracle |-> "deployments.rates_oracle",
    trader_joe_quoter |-> "deployments.trader_joe_quoter",
    balancer_amm |-> "deployments.balancer_pool",
    uniswap_liquidity_helper |-> "deployments.liquidity_helper",
    baseswap_liquidity_helper |-> "deployments.liquidity_helper",
    pancake_liquidity_helper |-> "deployments.liquidity_helper",
    create_uniswap_pool |-> "deployments.uniswap_pool",
    create_pancake_pool |-> "deployments.pancake_pool",
    create_balancer_pool |-> "deployments.balancer_amm",
    create_curve_pool |-> "deployments.curve_pool"]

\* The name under which the operator records what a script deployed, for the
\* names another script reads.
RecordedAs == [
    sweep |-> "tokens.sweep", rates_oracle |-> "deployments.rates_oracle",
    trader_joe_quoter |-> "deployments.trader_joe_quoter",
    balancer_amm |-> "deployments.balancer_amm",
    uniswap_liquidity_helper |-> "deployments.liquidity_helper",
    baseswap_liquidity_helper |-> "deployments.liquidity_helper",
    pancake_liquidity_helper |-> "deployments.liquidity_helper",
    create_uniswap_pool |-> "deployments.uniswap_pool",
    create_pancake_pool |-> "deployments.pancake_pool",
    create_balancer_pool |-> "deployments.balancer_pool",
    create_curve_pool |-> "deployments.curve_pool"]

Made == {RecordedAs[s] : s \in DOMAIN RecordedAs}
MadeByHand == {"deployments.trader_joe_pool", "deployments.baseswap_pool"}
Keys == Made \cup MadeByHand

\* What a script reads for the name; Nothing is JavaScript's undefined.
Resolve(name) ==
    IF name \in Keys THEN book[name]
    ELSE IF HasValue(net, name) THEN Value(name, <<>>) ELSE Nothing

\* ethers refuses a missing argument and an address that is undefined.
Throws(s, args) ==
    \/ Len(args) # Len(scripts[s].takes)
    \/ \E i \in DOMAIN args : args[i] = Nothing

\* The scripts that do not ask before they deploy.
Unattended ==
    {"upgrade", "uniswap", "deploy_12_compV3Asset", "deploy_13_off_chain_asset",
     "deploy_14_weth_asset", "deploy_18_glp_asset", "deploy_19_omnichain_proposal_sender",
     "deploy_21_token_distributor", "deploy_22_backed_asset", "deploy_23_gDai_asset",
     "deploy_25_ets_asset", "deploy_26_vesting_approver", "deploy_29_backed_IB01_asset"}

-------------------------------------------------------------------------------
(* The pools. A price stands for its power of ten: sqrtPriceX96 is 2^96 * 10^n. *)

\* Mutants: the ratio of the two amounts, not its square root; the token sorted
\* first keeps the price of the other order.
getPriceAndDataNotRooted(swp, token) ==
    IF sweepFirst
    THEN [token0 |-> swp, token1 |-> token, sqrtPrice |-> -12]
    ELSE [token0 |-> token, token1 |-> swp, sqrtPrice |-> 12]
getPriceAndDataOnePrice(swp, token) ==
    IF sweepFirst
    THEN [token0 |-> swp, token1 |-> token, sqrtPrice |-> 6]
    ELSE [token0 |-> token, token1 |-> swp, sqrtPrice |-> 6]

getPriceAndData(swp, token) ==
    IF sweepFirst
    THEN [token0 |-> swp, token1 |-> token, sqrtPrice |-> -6]
    ELSE [token0 |-> token, token1 |-> swp, sqrtPrice |-> 6]

\* createAndInitializePoolIfNecessary leaves an open pool's price alone; the
\* script warns when the pool's price is not the one it asked for.
OpenPool(pool, data) ==
    LET slot0 == IF market[pool] = {} THEN data.sqrtPrice
                 ELSE CHOOSE p \in market[pool] : TRUE
    IN  [is |-> pool, args |-> <<data.token0, data.token1>>, sqrtPrice |-> slot0,
         warned |-> slot0 # data.sqrtPrice]

uniswapPool(a) == OpenPool("UniswapPool", getPriceAndData(a[1], a[2]))

\* Takes the order of the tokens from getPriceAndData, not its price.
pancakePool(a) ==
    OpenPool("PancakePool", [getPriceAndData(a[1], a[2]) EXCEPT !.sqrtPrice = 0])

\* Mutant: sorts the tokens and leaves the providers where they are.
balancerPoolTokensOnly(a) ==
    IF sweepFirst THEN [is |-> "BalancerPool", args |-> <<a[1], a[2]>>,
                        providers |-> <<a[3], Nothing>>]
    ELSE [is |-> "BalancerPool", args |-> <<a[2], a[1]>>, providers |-> <<a[3], Nothing>>]

\* sortTokensAndProviders; Nothing is the zero address, no rate provider.
balancerPool(a) ==
    IF sweepFirst THEN [is |-> "BalancerPool", args |-> <<a[1], a[2]>>,
                        providers |-> <<a[3], Nothing>>]
    ELSE [is |-> "BalancerPool", args |-> <<a[2], a[1]>>, providers |-> <<Nothing, a[3]>>]

curvePool(a) ==
    [is |-> "CurvePool", args |-> <<a[2], a[1]>>, providers |-> <<Nothing, a[3]>>]

Outcome(s, a) ==
    CASE s = "create_uniswap_pool"  -> uniswapPool(a)
      [] s = "create_pancake_pool"  -> pancakePool(a)
      [] s = "create_balancer_pool" -> balancerPool(a)
      [] s = "create_curve_pool"    -> curvePool(a)
      [] OTHER -> Value(scripts[s].contract, a)

-------------------------------------------------------------------------------
Idle == [script |-> "none", stage |-> "idle", args |-> <<>>, out |-> Nothing]

Init ==
    /\ net \in Nets
    /\ sweepFirst \in BOOLEAN
    /\ book = [k \in Keys |-> Nothing]
    /\ terminal = Idle
    /\ market = [p \in OpenPools |-> {}]

\* npx hardhat run <script>: every argument is read before the question.
Start(s) ==
    /\ terminal = Idle
    /\ terminal' = [script |-> s, stage |-> "asks", out |-> Nothing,
                    args |-> [i \in DOMAIN scripts[s].args |-> Resolve(scripts[s].args[i])]]
    /\ UNCHANGED <<net, sweepFirst, book, market>>

\* Any answer but y ends the script.
Decline(s) ==
    /\ terminal.script = s /\ terminal.stage = "asks" /\ s \notin Unattended
    /\ terminal' = Idle
    /\ UNCHANGED <<net, sweepFirst, book, market>>

\* y: the script deploys and prints the address, or throws and has deployed nothing.
Confirm(s) ==
    /\ terminal.script = s /\ terminal.stage = "asks"
    /\ IF Throws(s, terminal.args)
       THEN terminal' = Idle /\ UNCHANGED market
       ELSE LET out == Outcome(s, terminal.args) IN
            /\ terminal' = [terminal EXCEPT !.stage = "prints", !.out = out]
            /\ market' = IF out.is \in OpenPools
                         THEN [market EXCEPT ![out.is] = {out.sqrtPrice}] ELSE market
    /\ UNCHANGED <<net, sweepFirst, book>>

\* The operator copies the printed address into the network's file.
Record(s) ==
    /\ terminal.script = s /\ terminal.stage = "prints" /\ s \in DOMAIN RecordedAs
    /\ book' = [book EXCEPT ![RecordedAs[s]] = terminal.out]
    /\ terminal' = Idle
    /\ UNCHANGED <<net, sweepFirst, market>>

\* ... or closes the terminal without doing so.
Close(s) ==
    /\ terminal.script = s /\ terminal.stage = "prints"
    /\ terminal' = Idle
    /\ UNCHANGED <<net, sweepFirst, book, market>>

\* A pool no script creates is written into the file by hand, at any time.
RecordByHand(k) ==
    /\ k \in MadeByHand \cap constants[net]
    /\ book["tokens.sweep"] # Nothing /\ book[k] = Nothing
    /\ book' = [book EXCEPT ![k] = Value(k, <<>>)]
    /\ UNCHANGED <<net, sweepFirst, terminal, market>>

\* Anybody may open the pool of two tokens that exist, at a price of their own.
OpenByOther(p) ==
    /\ book["tokens.sweep"] # Nothing /\ market[p] = {}
    /\ FactoryOf[p] \in constants[net]
    /\ \E n \in MarketPrices : market' = [market EXCEPT ![p] = {n}]
    /\ UNCHANGED <<net, sweepFirst, book, terminal>>

Next ==
    \/ \E s \in DOMAIN scripts : Start(s) \/ Decline(s) \/ Confirm(s) \/ Record(s) \/ Close(s)
    \/ \E k \in MadeByHand : RecordByHand(k)
    \/ \E p \in OpenPools : OpenByOther(p)

Spec == Init /\ [][Next]_vars

-------------------------------------------------------------------------------
(* Properties *)

TypeOK ==
    /\ net \in Nets /\ sweepFirst \in BOOLEAN
    /\ DOMAIN book = Keys
    /\ terminal.stage \in {"idle", "asks", "prints"}
    /\ terminal.script \in DOMAIN scripts \cup {"none"}
    /\ \A p \in OpenPools : market[p] \subseteq {-6, 0, 6} \cup MarketPrices

\* The constants and contracts that may stand for a parameter of each meaning.
Stands == [
    sweep |-> {"SweepCoin", "sweep"}, sweepr |-> {"sweepr"}, treasury |-> {"treasury"},
    usdx |-> {"tokens.usdc", "tokens.usdt", "tokens.wxdai", "usdc", "usdc_e"},
    usdc_e |-> {"tokens.usdc_e"}, multisig |-> {"wallets.multisig"},
    borrower |-> {"wallets.multisig", "wallets.borrower", "borrower", "multisig", "0x5104..."},
    wallet |-> {"wallet"}, agent |-> {"agent"}, name |-> {"name"},
    frequency |-> {"86400"}, stepValue |-> {"70000"}, isGovernance |-> {"is governance chain"},
    endpoint |-> {"layerZero.endpoint", "LZ_ENDPOINTS"},
    sequencer |-> {"chainlink.sequencer"},
    oracleUsdx |-> {"chainlink.usdc_usd", "chainlink.usdt_usd", "chainlink.xdai_usd",
                    "oracle_usdc_usd"},
    oracleDai |-> {"chainlink.dai_usd", "oracle_dai_usd"},
    oracleFrax |-> {"chainlink.frax_usd"}, oracleWeth |-> {"oracle_weth_usd"},
    oracleBacked |-> {"oracle_backed_usd"}, oracleBackedIB01 |-> {"oracle_backedIB01_usd"},
    liquidityHelper |-> {"LiquidityHelper", "liquidity_helper"},
    pancakeHelper |-> {"PancakeLiquidityHelper"}, joeQuoter |-> {"JoeQuoter"},
    ratesOracle |-> {"RatesOracle"}, balancerAMM |-> {"BalancerAMM"},
    positionManager |-> {"uniswap.positions_manager", "baseswap.positions_manager"},
    uniswapPositions |-> {"uniswap.positions_manager"},
    baseswapPositions |-> {"baseswap.positions_manager"},
    pancakePositions |-> {"pancake.positions_manager"},
    uniswapFactory |-> {"uniswap.factory"}, pancakeFactory |-> {"pancake.factory"},
    balancerFactory |-> {"balancer.factory"}, curveFactory |-> {"curve.factory"},
    uniswapRouter |-> {"uniswap.router"}, baseswapRouter |-> {"baseswap.router"},
    pancakeRouter |-> {"pancake.router"}, traderJoeRouter |-> {"trader_joe.router"},
    uniswapPool |-> {"UniswapPool"}, pancakePool |-> {"PancakePool"},
    baseswapPool |-> {"deployments.baseswap_pool"},
    traderJoePool |-> {"deployments.trader_joe_pool"},
    balancerPool |-> {"BalancerPool"}, curvePool |-> {"CurvePool"},
    balancer4Pool |-> {"protocols.balancer.bpt_4pool"},
    balancerGauge |-> {"protocols.balancer.gauge_4pool"},
    aaveUsdx |-> {"protocols.aave.usdc"}, aavePool |-> {"protocols.aave.pool"},
    agaveToken |-> {"tokens.agwxdai"}, agavePool |-> {"protocols.agave.pool"},
    auraDepositor |-> {"protocols.aura.rewardPoolDepositWapper"},
    auraShares |-> {"protocols.aura.baseRewardPool4626"},
    auraPool |-> {"protocols.aura.balancerPool"},
    weightedPoolLib |-> {"protocols.aura.weighted_pool_library"},
    backed |-> {"backed"}, backedMinter |-> {"backed_mint"}, backedRedeemer |-> {"backed_redeem"},
    backedIB01 |-> {"backedIB01"}, compoundUsdc |-> {"comp_cusdc"}, weth |-> {"weth"},
    wethPool |-> {"protocols.uniswap.weth_usdc"}, dai |-> {"tokens.dai"}, sDai |-> {},
    makerPsm |-> {"protocols.dss_psm", "dss_psm"}, usde |-> {"tokens.usde"},
    stakedUsde |-> {"tokens.susde"}, usdePool |-> {"curve.pool_usde"}, ets |-> {"ets"},
    etsExchanger |-> {"ets_exchanger"}, gDai |-> {"gDai"}, glpRouter |-> {"glp_reward_router"},
    maplePool |-> {"protocols.maple.usdcPool"},
    mapleWithdrawals |-> {"protocols.maple.withdrawalManager"},
    frax |-> {"tokens.frax"}, sFrax |-> {"tokens.sfrax"},
    fraxPool |-> {"protocols.balancer.frax_usdc"},
    usdPlus |-> {"protocols.overnight.usd_plus"},
    overnightExchange |-> {"protocols.overnight.exchange"},
    yearnVault |-> {"protocols.yearn.vault"}, yearnStake |-> {"protocols.yearn.stake"},
    yakStrategy |-> {"yield_yak.usdc_startegy"}]

\* The price feed of each usdx.
Feed == ("tokens.usdc" :> "chainlink.usdc_usd") @@ ("tokens.usdt" :> "chainlink.usdt_usd") @@
        ("tokens.wxdai" :> "chainlink.xdai_usd") @@ ("usdc" :> "oracle_usdc_usd") @@
        ("usdc_e" :> "oracle_usdc_usd")

Deployed(s) == terminal.script = s /\ terminal.stage = "prints"

\* The arguments the deployed contract got for a parameter of the given meaning.
Given(s, meaning) ==
    {terminal.args[i].is : i \in {j \in DOMAIN terminal.args : scripts[s].takes[j] = meaning}}

\* The liquidity helper of an AMM was made for the position manager of the AMM's own
\* exchange, on a network where only one exchange has a helper to deploy: one name
\* of the book serves them all.
positionManagers == [uniswap_amm |-> "uniswap.positions_manager",
                     baseswap_amm |-> "baseswap.positions_manager"]
HelperOfOwnDex(s) ==
    s \in DOMAIN positionManagers /\ Cardinality({positionManagers[a] :
            a \in DOMAIN positionManagers} \cap constants[net]) = 1
        => \A i \in DOMAIN terminal.args : scripts[s].takes[i] = "liquidityHelper" =>
            terminal.args[i].args[1].is = positionManagers[s]

\* No contract is deployed with two of its addresses exchanged: each argument
\* is of the kind its place asks for, and the price feed is the feed of the usdx
\* it is given with. The compiler sees only addresses; the scripts have no test.
ArgsFit ==
    \A s \in DOMAIN scripts : Deployed(s) =>
        /\ \A i \in DOMAIN terminal.args :
            terminal.args[i].is \in Stands[scripts[s].takes[i]]
        /\ \A u \in Given(s, "usdx"), o \in Given(s, "oracleUsdx") : o = Feed[u]
        /\ HelperOfOwnDex(s)

\* scripts/sweep/sqrt_price_x96.js: the power of ten of the square root of one
\* whole token1 per whole token0 (BSC's stablecoins have 18 decimals).
Decimals(v) == IF v.is = "SweepCoin" \/ net = "bsc" THEN 18 ELSE 6
sqrtPriceX96(token0, token1) == (Decimals(token1) - Decimals(token0)) \div 2

\* A pool the script printed without a warning trades one SWEEP for one usdx,
\* whichever address sorts first and whoever opened it, except the PancakeSwap
\* pool, whose price is written for 18 decimals, where usdt has 6.
PoolsPricedAtOne ==
    \A s \in {"create_uniswap_pool", "create_pancake_pool"} :
        Deployed(s) /\ ~ terminal.out.warned
            /\ ~ (s = "create_pancake_pool" /\ net # "bsc")
        => terminal.out.sqrtPrice = sqrtPriceX96(terminal.out.args[1], terminal.out.args[2])

\* In a pool with rate providers, SWEEP and only SWEEP is valued by one.
RateOnSweep ==
    \A s \in {"create_balancer_pool", "create_curve_pool"} : Deployed(s) =>
        \A i \in 1..2 :
            terminal.out.args[i].is = "SweepCoin" <=> terminal.out.providers[i] # Nothing

\* Makeable: a script that can run on the network makes it, or a hand writes it.
Runnable(s) ==
    /\ Len(scripts[s].args) = Len(scripts[s].takes)
    /\ \A i \in DOMAIN scripts[s].args :
        scripts[s].args[i] \in Keys \/ HasValue(net, scripts[s].args[i])
Makeable(k) ==
    \/ k \in MadeByHand \cap constants[net]
    \/ \E s \in DOMAIN RecordedAs : RecordedAs[s] = k /\ Runnable(s)

\* The order the scripts need has no circle: on every network, as long as a
\* script whose other constants are there lacks an address another script makes,
\* some script that makes a missing address can run, or a hand can write it.
Pending ==
    {s \in DOMAIN RecordedAs :
        /\ book[RecordedAs[s]] = Nothing
        /\ ~ Throws(s, [i \in DOMAIN scripts[s].args |-> Resolve(scripts[s].args[i])])}
NeverStuck ==
    \/ Pending # {}
    \/ \A s \in DOMAIN scripts :
        LET needs == {scripts[s].args[i] : i \in DOMAIN scripts[s].args} \cap Keys
        IN  Runnable(s) /\ (\A k \in needs : Makeable(k)) =>
                \A k \in needs \ MadeByHand : book[k] # Nothing
===============================================================================

---------------------------- MODULE DeployScripts -----------------------------
\* The deployment scripts, one definition each, named for its file: the contract
\* it deploys, what that contract's constructor takes, and the arguments the
\* script passes in order, each by the name of the constant it was read from.
\* Only the branches for a live network (NETWORK_TYPE other than 0).
EXTENDS Constructors, NetworkConstants

Script(contract, takes, args) == [contract |-> contract, takes |-> takes, args |-> args]

\* ---------------------------------------------------------------- the protocol
sweep == Script("SweepCoin", SweepCoin,
    <<"layerZero.endpoint", "wallets.multisig", "70000">>)
balancer == Script("Balancer", Balancer, <<"tokens.sweep", "layerZero.endpoint">>)
treasury == Script("Treasury", Treasury, <<"tokens.sweep">>)
sweeper == Script("SweeprCoin", SweeprCoin, <<"is governance chain", "layerZero.endpoint">>)
omnichain_governance_executor == Script("OmnichainGovernanceExecutor",
    OmnichainGovernanceExecutor, <<"layerZero.endpoint">>)
deploy_19_omnichain_proposal_sender == Script("OmnichainProposalSender",
    OmnichainProposalSender, <<"LZ_ENDPOINTS">>)
deploy_21_token_distributor == Script("TokenDistributor", TokenDistributor,
    <<"sweepr", "treasury">>)
deploy_26_vesting_approver == Script("VestingApprover", VestingApprover, <<"sweepr">>)
upgrade == Script("SweepCoin implementation", <<>>, <<>>)

\* ------------------------------------------------------------- helpers and AMMs
rates_oracle == Script("RatesOracle", RatesOracle, <<"tokens.sweep">>)
trader_joe_quoter == Script("JoeQuoter", <<>>, <<>>)
balancer_weighted_pool_lib == Script("WeightedPoolLib", <<>>, <<>>)
uniswap_liquidity_helper == Script("LiquidityHelper", LiquidityHelper,
    <<"uniswap.positions_manager">>)
baseswap_liquidity_helper == Script("LiquidityHelper", LiquidityHelper,
    <<"baseswap.positions_manager">>)
\* Reads a variable nobody declares.
pancake_liquidity_helper == Script("PancakeLiquidityHelper", PancakeLiquidityHelper,
    <<"nftpm">>)

balancer_amm == Script("BalancerAMM", BalancerAMM,
    <<"tokens.sweep", "tokens.usdc", "chainlink.sequencer", "chainlink.usdc_usd", "86400">>)
curve_amm == Script("CurveAMM", CurveAMM,
    <<"tokens.sweep", "tokens.usdc", "chainlink.sequencer", "chainlink.usdc_usd", "86400">>)
\* Mutant: the price feed where the pool belongs, and the pool where the feed does.
uniswap_ammPoolAndFeedExchanged == Script("UniswapAMM", UniswapAMM,
    <<"tokens.sweep", "tokens.usdc", "chainlink.sequencer", "chainlink.usdc_usd",
      "deployments.uniswap_pool", "86400", "deployments.liquidity_helper", "uniswap.router">>)

uniswap_amm == Script("UniswapAMM", UniswapAMM,
    <<"tokens.sweep", "tokens.usdc", "chainlink.sequencer", "deployments.uniswap_pool",
      "chainlink.usdc_usd", "86400", "deployments.liquidity_helper", "uniswap.router">>)
baseswap_amm == Script("BaseswapAMM", BaseswapAMM,
    <<"tokens.sweep", "tokens.usdc", "chainlink.sequencer", "deployments.baseswap_pool",
      "chainlink.usdc_usd", "86400", "deployments.liquidity_helper", "baseswap.router">>)
\* The router is printed and not passed.
pancake_amm == Script("PancakeAMM", PancakeAMM,
    <<"tokens.sweep", "tokens.usdt", "chainlink.sequencer", "deployments.pancake_pool",
      "chainlink.usdt_usd", "86400", "deployments.liquidity_helper">>)
trader_joe_amm == Script("TraderJoeAMM", TraderJoeAMM,
    <<"tokens.sweep", "tokens.usdc", "chainlink.sequencer", "chainlink.usdc_usd", "86400",
      "trader_joe.router", "deployments.trader_joe_pool", "deployments.trader_joe_quoter">>)

\* --------------------------------------------------------- the market makers
balancer_market_maker == Script("BalancerMarketMaker", BalancerMarketMaker,
    <<"name", "tokens.sweep", "tokens.usdc", "chainlink.usdc_usd",
      "deployments.balancer_pool", "wallets.multisig">>)
baseswap_market_maker == Script("BaseswapMarketMaker", BaseswapMarketMaker,
    <<"name", "tokens.sweep", "tokens.usdc", "chainlink.usdc_usd",
      "baseswap.positions_manager", "wallets.multisig">>)
curve_market_maker == Script("CurveMarketMaker", CurveMarketMaker,
    <<"name", "tokens.sweep", "tokens.usdc", "chainlink.usdc_usd",
      "deployments.curve_pool", "wallets.multisig">>)
\* The position manager is not passed.
pancake_market_maker == Script("PancakeMarketMaker", PancakeMarketMaker,
    <<"name", "tokens.sweep", "tokens.usdt", "chainlink.usdt_usd", "wallets.multisig">>)
trader_joe_market_maker == Script("TraderJoeMarketMaker", TraderJoeMarketMaker,
    <<"name", "tokens.sweep", "tokens.usdc", "chainlink.usdc_usd",
      "deployments.trader_joe_pool", "trader_joe.router", "wallets.multisig">>)
uniswap_market_maker == Script("UniswapMarketMaker", UniswapMarketMaker,
    <<"name", "tokens.sweep", "tokens.usdc", "chainlink.usdc_usd",
      "uniswap.positions_manager", "wallets.multisig">>)

\* -------------------------------------------------------------------- the assets
aave == Script("AaveAsset", AaveAsset,
    <<"name", "tokens.sweep", "tokens.usdc", "tokens.usdc_e", "protocols.balancer.bpt_4pool",
      "protocols.aave.usdc", "protocols.aave.pool", "chainlink.usdc_usd", "wallets.borrower">>)
agave == Script("AgaveAsset", AgaveAsset,
    <<"name", "tokens.sweep", "tokens.wxdai", "tokens.agwxdai", "protocols.agave.pool",
      "chainlink.xdai_usd", "wallets.multisig">>)
apollo == Script("ApolloAsset", ApolloAsset,
    <<"name", "tokens.sweep", "tokens.usdt", "chainlink.usdt_usd", "wallets.borrower">>)
aura == Script("AuraAsset", AuraAsset,
    <<"name", "tokens.sweep", "tokens.usdc", "protocols.aura.rewardPoolDepositWapper",
      "protocols.aura.baseRewardPool4626", "protocols.aura.balancerPool",
      "protocols.aura.weighted_pool_library", "chainlink.usdc_usd", "wallets.multisig">>)
balancer_4pool == Script("Balancer4PoolAsset", Balancer4PoolAsset,
    <<"name", "tokens.sweep", "tokens.usdc", "protocols.balancer.bpt_4pool",
      "protocols.balancer.gauge_4pool", "chainlink.usdc_usd", "wallets.multisig">>)
dai_dsr == Script("DsrAsset", DsrAsset,
    <<"name", "tokens.sweep", "tokens.usdc", "tokens.dai", "protocols.dsr_manager",
      "protocols.dss_psm", "chainlink.usdc_usd", "chainlink.dai_usd", "wallets.multisig">>)
ethena == Script("EthenaAsset", EthenaAsset,
    <<"name", "tokens.sweep", "tokens.usdc", "tokens.usde", "tokens.susde",
      "chainlink.usdc_usd", "curve.pool_usde", "wallets.multisig">>)
frax == Script("SFraxAsset", SFraxAsset,
    <<"name", "tokens.sweep", "tokens.usdc", "tokens.frax", "tokens.sfrax",
      "chainlink.usdc_usd", "chainlink.frax_usd", "wallets.multisig",
      "protocols.balancer.frax_usdc">>)
maple == Script("MapleAsset", MapleAsset,
    <<"name", "tokens.sweep", "tokens.usdc", "protocols.maple.usdcPool",
      "chainlink.usdc_usd", "protocols.maple.withdrawalManager", "0x5104...">>)
silo == Script("SiloAsset", SiloAsset,
    <<"name", "tokens.sweep", "tokens.usdc", "tokens.usdc_e", "chainlink.usdc_usd",
      "wallets.borrower", "protocols.balancer.bpt_4pool">>)
uniswap == Script("UniV3Asset", UniV3Asset,
    <<"name", "sweep", "usdc", "liquidity_helper", "oracle_usdc_usd", "multisig">>)
usd_plus == Script("USDPlusAsset", USDPlusAsset,
    <<"name", "tokens.sweep", "tokens.usdc", "protocols.overnight.usd_plus",
      "tokens.usdc_e", "protocols.overnight.exchange", "chainlink.usdc_usd",
      "wallets.multisig", "protocols.balancer.bpt_4pool">>)
yearn_v2 == Script("YearnV2Asset", YearnV2Asset,
    <<"name", "tokens.sweep", "tokens.usdc", "tokens.dai", "protocols.yearn.vault",
      "protocols.yearn.stake", "chainlink.usdc_usd", "wallets.multisig", "uniswap.router">>)
yearn_v3 == Script("YearnV3Asset", YearnV3Asset,
    <<"name", "tokens.sweep", "tokens.usdc", "tokens.usdc_e", "protocols.yearn.vault",
      "chainlink.usdc_usd", "wallets.multisig", "uniswap.router">>)
yield_yak == Script("YieldYakAsset", YieldYakAsset,
    <<"name", "tokens.sweep", "tokens.usdc", "chainlink.usdc_usd",
      "yield_yak.usdc_startegy", "wallets.multisig">>)

\* ------------------------------------- the assets deployed from the older book
deploy_12_compV3Asset == Script("CompV3Asset", CompV3Asset,
    <<"name", "sweep", "usdc_e", "comp_cusdc", "oracle_usdc_usd", "borrower">>)
deploy_13_off_chain_asset == Script("OffChainAsset", OffChainAsset,
    <<"name", "sweep", "usdc", "wallet", "agent", "oracle_usdc_usd", "borrower">>)
deploy_14_weth_asset == Script("ERC20Asset", ERC20Asset,
    <<"name", "sweep", "usdc", "weth", "oracle_usdc_usd", "oracle_weth_usd", "borrower",
      "protocols.uniswap.weth_usdc">>)
deploy_18_glp_asset == Script("GlpAsset", GlpAsset,
    <<"name", "sweep", "usdc", "glp_reward_router", "oracle_usdc_usd", "oracle_weth_usd",
      "borrower">>)
deploy_22_backed_asset == Script("BackedAsset", BackedAsset,
    <<"name", "sweep", "usdc", "backed", "backed_mint", "backed_redeem",
      "oracle_usdc_usd", "oracle_backed_usd", "borrower">>)
deploy_23_gDai_asset == Script("GDAIAsset", GDAIAsset,
    <<"name", "sweep", "usdc", "gDai", "dss_psm", "oracle_usdc_usd", "oracle_dai_usd",
      "borrower">>)
deploy_25_ets_asset == Script("ETSAsset", ETSAsset,
    <<"name", "sweep", "usdc_e", "ets", "ets_exchanger", "oracle_usdc_usd", "borrower">>)
deploy_29_backed_IB01_asset == Script("EmptyAsset", EmptyAsset,
    <<"name", "sweep", "usdc", "backedIB01", "oracle_usdc_usd", "oracle_backedIB01_usd",
      "borrower">>)

\* ------------------------------- the pools, created by an exchange's own factory
create_uniswap_pool == Script("UniswapPool",
    <<"sweep", "usdx", "uniswapFactory", "uniswapPositions">>,
    <<"tokens.sweep", "tokens.usdc", "uniswap.factory", "uniswap.positions_manager">>)
create_pancake_pool == Script("PancakePool",
    <<"sweep", "usdx", "pancakeFactory", "pancakePositions">>,
    <<"tokens.sweep", "tokens.usdt", "pancake.factory", "pancake.positions_manager">>)
create_balancer_pool == Script("BalancerPool",
    <<"sweep", "usdx", "balancerAMM", "balancerFactory">>,
    <<"tokens.sweep", "tokens.usdc", "deployments.balancer_amm", "balancer.factory">>)
create_curve_pool == Script("CurvePool",
    <<"sweep", "usdx", "ratesOracle", "curveFactory">>,
    <<"tokens.sweep", "tokens.usdc", "deployments.rates_oracle", "curve.factory">>)

\* The scripts by name, as the command line names their files.
scripts == [
    sweep |-> sweep, balancer |-> balancer, treasury |-> treasury, sweeper |-> sweeper,
    omnichain_governance_executor |-> omnichain_governance_executor,
    deploy_19_omnichain_proposal_sender |-> deploy_19_omnichain_proposal_sender,
    deploy_21_token_distributor |-> deploy_21_token_distributor,
    deploy_26_vesting_approver |-> deploy_26_vesting_approver, upgrade |-> upgrade,
    rates_oracle |-> rates_oracle, trader_joe_quoter |-> trader_joe_quoter,
    balancer_weighted_pool_lib |-> balancer_weighted_pool_lib,
    uniswap_liquidity_helper |-> uniswap_liquidity_helper,
    baseswap_liquidity_helper |-> baseswap_liquidity_helper,
    pancake_liquidity_helper |-> pancake_liquidity_helper, balancer_amm |-> balancer_amm,
    curve_amm |-> curve_amm, uniswap_amm |-> uniswap_amm, baseswap_amm |-> baseswap_amm,
    pancake_amm |-> pancake_amm, trader_joe_amm |-> trader_joe_amm,
    balancer_market_maker |-> balancer_market_maker,
    baseswap_market_maker |-> baseswap_market_maker, curve_market_maker |-> curve_market_maker,
    pancake_market_maker |-> pancake_market_maker,
    trader_joe_market_maker |-> trader_joe_market_maker,
    uniswap_market_maker |-> uniswap_market_maker, aave |-> aave, agave |-> agave,
    apollo |-> apollo, aura |-> aura, balancer_4pool |-> balancer_4pool, dai_dsr |-> dai_dsr,
    ethena |-> ethena, frax |-> frax, maple |-> maple, silo |-> silo, uniswap |-> uniswap,
    usd_plus |-> usd_plus, yearn_v2 |-> yearn_v2, yearn_v3 |-> yearn_v3,
    yield_yak |-> yield_yak, deploy_12_compV3Asset |-> deploy_12_compV3Asset,
    deploy_13_off_chain_asset |-> deploy_13_off_chain_asset,
    deploy_14_weth_asset |-> deploy_14_weth_asset, deploy_18_glp_asset |-> deploy_18_glp_asset,
    deploy_22_backed_asset |-> deploy_22_backed_asset,
    deploy_23_gDai_asset |-> deploy_23_gDai_asset, deploy_25_ets_asset |-> deploy_25_ets_asset,
    deploy_29_backed_IB01_asset |-> deploy_29_backed_IB01_asset,
    create_uniswap_pool |-> create_uniswap_pool, create_pancake_pool |-> create_pancake_pool,
    create_balancer_pool |-> create_balancer_pool, create_curve_pool |-> create_curve_pool]

===============================================================================

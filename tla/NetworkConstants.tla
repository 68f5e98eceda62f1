--------------------------- MODULE NetworkConstants ---------------------------
\* The address book the scripts read. utils/networks/<network>.js gives one
\* network's constants; each set below holds the names, of those a script reads,
\* to which the file gives a value: a name left out, and a name whose value is
\* the empty string, is undefined. utils/address.js is the older book, with its
\* values by chain id in utils/constantsOld.js; its names carry no dot.
EXTENDS TLC

mainnet == {
    "balancer.factory", "chainlink.dai_usd", "chainlink.frax_usd", "chainlink.sequencer",
    "chainlink.usdc_usd", "curve.factory", "curve.pool_usde", "deployments.balancer",
    "deployments.balancer_amm", "deployments.balancer_pool", "deployments.curve_pool",
    "deployments.liquidity_helper", "layerZero.endpoint", "protocols.maple.usdcPool",
    "protocols.maple.withdrawalManager", "tokens.dai", "tokens.frax", "tokens.sfrax",
    "tokens.susde", "tokens.sweep", "tokens.usdc", "tokens.usde", "tokens.usdt", "uniswap.factory",
    "uniswap.observationCardinality", "uniswap.positions_manager", "uniswap.router",
    "wallets.borrower", "wallets.multisig"}

arbitrum == {
    "balancer.factory", "chainlink.dai_usd", "chainlink.sequencer", "chainlink.usdc_usd",
    "curve.factory", "deployments.balancer", "deployments.balancer_amm",
    "deployments.balancer_pool", "deployments.curve_pool", "deployments.liquidity_helper",
    "deployments.rates_oracle", "deployments.uniswap_pool", "layerZero.endpoint", "pancake.factory",
    "pancake.observationCardinality", "pancake.positions_manager", "pancake.router",
    "protocols.aave.pool", "protocols.aave.usdc", "protocols.balancer.bpt_4pool",
    "protocols.balancer.gauge_4pool", "protocols.overnight.usd_plus", "tokens.dai", "tokens.sweep",
    "tokens.usdc", "tokens.usdc_e", "tokens.usdt", "uniswap.factory",
    "uniswap.observationCardinality", "uniswap.positions_manager", "uniswap.router",
    "wallets.borrower", "wallets.multisig"}

optimism == {
    "balancer.factory", "chainlink.sequencer", "chainlink.usdc_usd", "deployments.balancer",
    "deployments.balancer_amm", "deployments.balancer_pool", "deployments.liquidity_helper",
    "deployments.uniswap_pool", "layerZero.endpoint", "protocols.balancer.bpt_4pool",
    "protocols.overnight.exchange", "protocols.overnight.usd_plus", "protocols.yearn.stake",
    "protocols.yearn.vault", "tokens.dai", "tokens.sweep", "tokens.usdc", "tokens.usdc_e",
    "uniswap.factory", "uniswap.observationCardinality", "uniswap.positions_manager",
    "uniswap.router", "wallets.borrower", "wallets.multisig"}

base == {
    "balancer.factory", "baseswap.positions_manager", "baseswap.router", "chainlink.sequencer",
    "chainlink.usdc_usd", "deployments.balancer", "deployments.balancer_amm",
    "deployments.balancer_pool", "deployments.baseswap_pool", "deployments.liquidity_helper",
    "layerZero.endpoint", "protocols.aura.balancerPool", "protocols.aura.baseRewardPool4626",
    "protocols.aura.rewardPoolDepositWapper", "protocols.balancer.bpt_4pool",
    "protocols.maple.usdcPool", "protocols.maple.withdrawalManager", "protocols.overnight.exchange",
    "protocols.overnight.usd_plus", "tokens.sweep", "tokens.usdc", "tokens.usdc_e",
    "uniswap.factory", "uniswap.observationCardinality", "uniswap.positions_manager",
    "wallets.borrower", "wallets.multisig"}

bsc == {
    "chainlink.sequencer", "chainlink.usdc_usd", "chainlink.usdt_usd", "deployments.balancer",
    "deployments.liquidity_helper", "deployments.pancake_pool", "layerZero.endpoint",
    "pancake.factory", "pancake.observationCardinality", "pancake.positions_manager",
    "pancake.router", "tokens.sweep", "tokens.usdc", "tokens.usdt", "wallets.borrower",
    "wallets.multisig"}

polygon == {
    "balancer.factory", "chainlink.sequencer", "chainlink.usdc_usd", "deployments.balancer",
    "deployments.balancer_amm", "deployments.balancer_pool", "deployments.curve_pool",
    "deployments.liquidity_helper", "deployments.uniswap_pool", "layerZero.endpoint",
    "protocols.yearn.vault", "tokens.sweep", "tokens.usdc", "tokens.usdc_e", "uniswap.factory",
    "uniswap.positions_manager", "uniswap.router", "wallets.borrower", "wallets.multisig"}

avalanche == {
    "balancer.factory", "chainlink.sequencer", "chainlink.usdc_usd", "deployments.balancer",
    "deployments.balancer_amm", "deployments.balancer_pool", "deployments.trader_joe_pool",
    "deployments.trader_joe_quoter", "layerZero.endpoint", "tokens.sweep", "tokens.usdc",
    "trader_joe.router", "wallets.borrower", "wallets.multisig", "yield_yak.usdc_startegy"}

gnosis == {
    "balancer.factory", "chainlink.sequencer", "chainlink.xdai_usd", "layerZero.endpoint",
    "protocols.agave.pool", "tokens.agwxdai", "tokens.usdc", "tokens.wxdai", "wallets.multisig"}

goerli == {
    "chainlink.dai_usd", "chainlink.sequencer", "chainlink.usdc_usd", "deployments.balancer",
    "deployments.liquidity_helper", "layerZero.endpoint", "tokens.sweep", "tokens.usdc",
    "tokens.usdt", "uniswap.factory", "uniswap.positions_manager", "uniswap.router",
    "wallets.borrower", "wallets.multisig"}

arbitrum_goerli == {
    "chainlink.sequencer", "chainlink.usdc_usd", "deployments.balancer",
    "deployments.liquidity_helper", "layerZero.endpoint", "tokens.sweep", "tokens.usdc",
    "uniswap.factory", "uniswap.positions_manager", "uniswap.router", "wallets.borrower",
    "wallets.multisig"}

example == {"tokens.sweep"}

\* utils/constants.js requires the file of the network named by the environment.
constants == [
    mainnet |-> mainnet, arbitrum |-> arbitrum, optimism |-> optimism, base |-> base,
    bsc |-> bsc, polygon |-> polygon, avalanche |-> avalanche, gnosis |-> gnosis,
    goerli |-> goerli, arbitrum_goerli |-> arbitrum_goerli, example |-> example]

Networks == DOMAIN constants

Mainnets == {"mainnet", "arbitrum", "optimism"}

\* The older book: for each name the networks it has a value on.
wallets == [
    owner    |-> Mainnets \cup {"base", "goerli", "arbitrum_goerli"},
    borrower |-> Mainnets \cup {"goerli", "arbitrum_goerli"},
    wallet   |-> Mainnets \cup {"goerli", "arbitrum_goerli"},
    agent    |-> Mainnets \cup {"goerli", "arbitrum_goerli"},
    treasury |-> Mainnets \cup {"base", "goerli"},
    multisig |-> Mainnets \cup {"base"}]

tokens == [
    sweep      |-> Mainnets \cup {"base", "goerli", "arbitrum_goerli"},
    sweepr     |-> Mainnets \cup {"base", "goerli", "arbitrum_goerli"},
    usdc       |-> Mainnets \cup {"base", "goerli", "arbitrum_goerli"},
    usdc_e     |-> {"arbitrum", "base", "optimism"},
    comp_cusdc |-> {"mainnet", "arbitrum", "goerli"},
    weth       |-> {"mainnet", "arbitrum", "goerli"},
    backed     |-> {"mainnet", "goerli"},
    backedIB01 |-> {"mainnet"},
    gDai       |-> {"arbitrum"},
    ets        |-> {"arbitrum"}]

libraries == [
    liquidity_helper  |-> Mainnets \cup {"base", "goerli", "arbitrum_goerli"},
    glp_reward_router |-> {"arbitrum"},
    backed_mint       |-> {"goerli"},
    backed_redeem     |-> {"goerli"},
    dss_psm           |-> {"mainnet"},
    ets_exchanger     |-> {"arbitrum"}]

chainlinkOracle == [
    usdc_usd       |-> Mainnets \cup {"base", "goerli", "arbitrum_goerli"},
    weth_usd       |-> {"mainnet", "arbitrum", "goerli"},
    dai_usd        |-> {"mainnet", "arbitrum", "goerli"},
    backed_usd     |-> {"mainnet", "goerli"},
    backedIB01_usd |-> {"mainnet"}]

protocol == [
    timelock   |-> {"arbitrum", "goerli", "arbitrum_goerli"},
    governance |-> {"arbitrum", "goerli"}]

\* No name is in two of its parts.
addresses ==
    {wallets, tokens, libraries, protocol,
     [oracle_usdc_usd       |-> chainlinkOracle.usdc_usd,
      oracle_weth_usd       |-> chainlinkOracle.weth_usd,
      oracle_dai_usd        |-> chainlinkOracle.dai_usd,
      oracle_backed_usd     |-> chainlinkOracle.backed_usd,
      oracle_backedIB01_usd |-> chainlinkOracle.backedIB01_usd]}

\* utils/layerzero/layerzeroEndpoints.json, keyed by network.
LZ_ENDPOINTS == Networks \ {"gnosis", "example"}

\* Values written in a script itself.
Literals == {"name", "86400", "70000", "is governance chain", "0x5104..."}

\* What the name has on the network is an address or a number, not undefined.
HasValue(net, name) ==
    \/ name \in Literals \cup constants[net]
    \/ \E part \in addresses : name \in DOMAIN part /\ net \in part[name]
    \/ name = "LZ_ENDPOINTS" /\ net \in LZ_ENDPOINTS
===============================================================================

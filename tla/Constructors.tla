----------------------------- MODULE Constructors -----------------------------
\* What the constructor (the initializer, of SWEEP's proxy) of each contract the
\* scripts deploy takes, in order: the parameter's meaning, one name for the
\* same meaning in all contracts. All of them but the names and the numbers are
\* addresses to the compiler, which cannot tell one from another.

BalancerAMM == <<"sweep", "usdx", "sequencer", "oracleUsdx", "frequency">>
BaseswapAMM == <<"sweep", "usdx", "sequencer", "baseswapPool", "oracleUsdx", "frequency",
                 "liquidityHelper", "baseswapRouter">>
CurveAMM == <<"sweep", "usdx", "sequencer", "oracleUsdx", "frequency">>
PancakeAMM == <<"sweep", "usdx", "sequencer", "pancakePool", "oracleUsdx", "frequency",
                "pancakeHelper", "pancakeRouter">>
TraderJoeAMM == <<"sweep", "usdx", "sequencer", "oracleUsdx", "frequency",
                  "traderJoeRouter", "traderJoePool", "joeQuoter">>
UniswapAMM == <<"sweep", "usdx", "sequencer", "uniswapPool", "oracleUsdx", "frequency",
                "liquidityHelper", "uniswapRouter">>

AaveAsset == <<"name", "sweep", "usdx", "usdc_e", "balancer4Pool", "aaveUsdx", "aavePool",
               "oracleUsdx", "borrower">>
AgaveAsset == <<"name", "sweep", "usdx", "agaveToken", "agavePool", "oracleUsdx", "borrower">>
ApolloAsset == <<"name", "sweep", "usdx", "oracleUsdx", "borrower">>
AuraAsset == <<"name", "sweep", "usdx", "auraDepositor", "auraShares", "auraPool",
               "weightedPoolLib", "oracleUsdx", "borrower">>
Balancer4PoolAsset == <<"name", "sweep", "usdx", "balancer4Pool", "balancerGauge",
                        "oracleUsdx", "borrower">>
BackedAsset == <<"name", "sweep", "usdx", "backed", "backedMinter", "backedRedeemer",
                 "oracleUsdx", "oracleBacked", "borrower">>
CompV3Asset == <<"name", "sweep", "usdx", "compoundUsdc", "oracleUsdx", "borrower">>
DsrAsset == <<"name", "sweep", "usdx", "dai", "sDai", "makerPsm", "oracleUsdx", "oracleDai",
              "borrower">>
EmptyAsset == <<"name", "sweep", "usdx", "backedIB01", "oracleUsdx", "oracleBackedIB01",
                "borrower">>
ERC20Asset == <<"name", "sweep", "usdx", "weth", "oracleUsdx", "oracleWeth", "borrower",
                "wethPool">>
EthenaAsset == <<"name", "sweep", "usdx", "usde", "stakedUsde", "oracleUsdx", "usdePool",
                 "borrower">>
ETSAsset == <<"name", "sweep", "usdx", "ets", "etsExchanger", "oracleUsdx", "borrower">>
GDAIAsset == <<"name", "sweep", "usdx", "gDai", "makerPsm", "oracleUsdx", "oracleDai",
               "borrower">>
GlpAsset == <<"name", "sweep", "usdx", "glpRouter", "oracleUsdx", "oracleWeth", "borrower">>
MapleAsset == <<"name", "sweep", "usdx", "maplePool", "oracleUsdx", "mapleWithdrawals",
                "borrower">>
OffChainAsset == <<"name", "sweep", "usdx", "wallet", "agent", "oracleUsdx", "borrower">>
SFraxAsset == <<"name", "sweep", "usdx", "frax", "sFrax", "oracleUsdx", "oracleFrax",
                "borrower", "fraxPool">>
SiloAsset == <<"name", "sweep", "usdx", "usdc_e", "oracleUsdx", "borrower", "balancer4Pool">>
UniV3Asset == <<"name", "sweep", "usdx", "liquidityHelper", "oracleUsdx", "borrower">>
USDPlusAsset == <<"name", "sweep", "usdx", "usdPlus", "usdc_e", "overnightExchange",
                  "oracleUsdx", "borrower", "balancer4Pool">>
YearnV2Asset == <<"name", "sweep", "usdx", "dai", "yearnVault", "yearnStake", "oracleUsdx",
                  "borrower", "uniswapRouter">>
YearnV3Asset == <<"name", "sweep", "usdx", "usdc_e", "yearnVault", "oracleUsdx", "borrower",
                  "uniswapRouter">>
YieldYakAsset == <<"name", "sweep", "usdx", "oracleUsdx", "yakStrategy", "borrower">>

BalancerMarketMaker == <<"name", "sweep", "usdx", "oracleUsdx", "balancerPool", "borrower">>
BaseswapMarketMaker == <<"name", "sweep", "usdx", "oracleUsdx", "baseswapPositions",
                         "borrower">>
CurveMarketMaker == <<"name", "sweep", "usdx", "oracleUsdx", "curvePool", "borrower">>
PancakeMarketMaker == <<"name", "sweep", "usdx", "oracleUsdx", "pancakePositions",
                        "borrower">>
TraderJoeMarketMaker == <<"name", "sweep", "usdx", "oracleUsdx", "traderJoePool",
                          "traderJoeRouter", "borrower">>
UniswapMarketMaker == <<"name", "sweep", "usdx", "oracleUsdx", "uniswapPositions",
                        "borrower">>

OmnichainGovernanceExecutor == <<"endpoint">>
OmnichainProposalSender == <<"endpoint">>
SweeprCoin == <<"isGovernance", "endpoint">>
TokenDistributor == <<"sweepr", "treasury">>
VestingApprover == <<"sweepr">>
Treasury == <<"sweep">>
Balancer == <<"sweep", "endpoint">>
SweepCoin == <<"endpoint", "multisig", "stepValue">>

RatesOracle == <<"sweep">>
LiquidityHelper == <<"positionManager">>
PancakeLiquidityHelper == <<"pancakePositions">>
===============================================================================

--------------------------- MODULE GovernanceScripts ---------------------------
\* What the scripts of scripts/governance/bravo and the tasks of tasks/payloads
\* encode: the calls of a proposal to SweeprGovernor and of a message to an
\* OmnichainGovernanceExecutor.
EXTENDS SweepCalls, NetworkConstants

\* The functions of SweepCoin by name, with the number of their arguments. ethers'
\* encodeFunctionData throws on any other name or number.
SweepABI == [addMinter |-> 2, pause |-> 0, unpause |-> 0, setInterestRate |-> 2]

Bravo(function, args) == [function |-> function, args |-> args]

accept_ownership == Bravo("acceptOwnership", <<>>)
add_minter == Bravo("addMinter", <<"asset_aave", "100000">>)
begin_period == Bravo("startNewPeriod", <<>>)
pause_sweep == Bravo("pause", <<>>)
set_interest == Bravo("setInterestRate", <<"10000">>)
unpause_sweep == Bravo("unpause", <<>>)

\* queue, execute and cancel are written for the first proposal only.
queue_proposal == Bravo("acceptOwnership", <<>>)
execute_proposal == Bravo("acceptOwnership", <<>>)
cancel_proposal == Bravo("acceptOwnership", <<>>)

Encodes(script) ==
    /\ script.function \in DOMAIN SweepABI
    /\ Len(script.args) = SweepABI[script.function]

\* Of the nine scripts three reach the governor, those that propose to add a
\* minter, to pause and to unpause; the others are of older SweepCoins and throw.
ASSUME LiveScripts ==
    {s \in {accept_ownership, add_minter, begin_period, pause_sweep, set_interest,
            unpause_sweep, queue_proposal, execute_proposal, cancel_proposal} :
        Encodes(s)} = {add_minter, pause_sweep, unpause_sweep}

-------------------------------------------------------------------------------
(* A mandate: the calls, and the SWEEP they are for. *)

Home(calls) == [to |-> "home", calls |-> calls]
Remote(calls) == [to |-> "remote", calls |-> calls]

proposalOf(script) ==
    Home(<<[fn |-> script.function,
            arg |-> IF script.args = <<>> THEN "none" ELSE script.args[1]]>>)

payloadAddMinter(minterAddress) ==
    Remote(<<[fn |-> "addMinter", arg |-> minterAddress]>>)

payloadTransferOwnership(newOwnerAddress) ==
    Remote(<<[fn |-> "transferOwnership", arg |-> newOwnerAddress]>>)

payloadApprove(spenderAddress) ==
    Remote(<<[fn |-> "approve", arg |-> spenderAddress]>>)

\* The older book, by contract type: the networks it has the contract on. A task
\* throws for any other network, also for those only the newer book knows.
getDeployedAddress == [
    sweep    |-> tokens.sweep,
    sweepr   |-> tokens.sweepr,
    sender   |-> {"arbitrum", "goerli"},
    executor |-> {"mainnet", "optimism", "base", "arbitrum_goerli"}]

\* The networks to which the tasks can bring a proposal, and of which they can
\* hand the executor to itself.
Reachable == getDeployedAddress["sweep"] \cap getDeployedAddress["executor"]
===============================================================================

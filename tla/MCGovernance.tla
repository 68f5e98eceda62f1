------------------------------ MODULE MCGovernance -----------------------------
\* Two voters, two proposals drawn from the scripts' and the tasks', one other chain.
EXTENDS GovernanceSystem

CONSTANTS v1, v2

MCVoters == {v1, v2}
MCPower == (v1 :> 2) @@ (v2 :> 1)
MCAccounts == {"owner", "multisig", "timelock", "executor"}
MCMinters == {"asset_aave"}
MCProposals == {"p1", "p2"}
MCOrigins == MCProposals \cup {"owner"}

Docket(m, n) == ("p1" :> m) @@ ("p2" :> n)
AddAndLeave ==
    Remote(payloadTransferOwnership("multisig").calls \o payloadAddMinter("asset_aave").calls)

\* One vote; two proposals at home; proposals across chains, one or both; one for each
\* chain.
Poll == Docket(proposalOf(add_minter), proposalOf(add_minter))
AtHome == Docket(proposalOf(pause_sweep), proposalOf(unpause_sweep))
Across ==
    {Docket(payloadApprove("multisig"), proposalOf(add_minter)),
     Docket(AddAndLeave, payloadAddMinter("asset_aave"))}
Retained == Docket(proposalOf(add_minter), payloadAddMinter("asset_aave"))
MCDockets == {Poll, AtHome, Retained} \cup Across
MCMandates == UNION {{d["p1"], d["p2"]} : d \in MCDockets}

\* The SWEEP contracts are handed over, to each chain's governor; the multisig may
\* pause the one at home.
MCHomeCalls == {[fn |-> "transferOwnership", arg |-> "timelock"], [fn |-> "pause", arg |-> "none"]}
MCRemoteCalls == {[fn |-> "transferOwnership", arg |-> "executor"]}

\* What a docket is there to show. A poll: any votes, SWEEPR on the move. At home:
\* two proposals the larger voter may pass, cancelled or not. Across chains: any
\* order of hand-over, sending, failing and retrying, by a deployer that has given up
\* being admin. Retained: one that has not yet, and uses its roles and its own contract.
Granted == granted = 3 \/ granted' # granted
Renounced ==
    /\ Granted
    /\ granted = 3 => ~admin'
    /\ (~admin /\ home.owner = "owner") => home'.owner = "timelock"

\* First the deployer makes the grants, hands over SWEEP at home and the sender, and a
\* proposal is made; then come a vote it wins, SWEEP's hand-over abroad and what the
\* deployer does as the timelock's admin and with the executor, and it gives that up.
Settled ==
    /\ granted = 3 /\ senderTrusts /\ senderOwner = "timelock" /\ proposal["p1"].created
    /\ home.owner = "timelock"
Prepared ==
    IF Settled THEN (admin => own \subseteq own') /\ (now' = 4 => state("p1")' = "succeeded")
    ELSE UNCHANGED <<now, admin, own, operations, executorVars, messages, remote>>
OneEach == UNCHANGED proposal["p2"] /\ \A f \in Paths : sent'[f] <= 1
NoOwn == own' = {} /\ executorTrusts' # "other" /\ sent'["other"] = 0

OnlyV1Votes ==
    /\ UNCHANGED <<power, abroad>>
    /\ \A p \in Proposals : proposal'[p].ballot[v2] = "none"
                            /\ proposal'[p].ballot[v1] \in {"none", "for"}
NoCancel ==
    /\ \A p \in Proposals : ~proposal'[p].canceled /\ timestamps'[p] >= timestamps[p]
    /\ home'.paused = FALSE

Focus ==
    \/ /\ docket = Poll /\ UNCHANGED <<omnichainVars, proposal["p2"], admin, own>>
       /\ Granted /\ home'.paused = FALSE
    \/ docket = AtHome /\ UNCHANGED <<omnichainVars, admin, own>> /\ OnlyV1Votes
    \/ docket \in Across /\ Renounced /\ NoOwn /\ OnlyV1Votes /\ NoCancel
    \/ docket = Retained /\ Prepared /\ OnlyV1Votes /\ NoCancel /\ OneEach

MCNext == Next /\ Focus
MCSpec == Init /\ [][MCNext]_vars /\ Fairness
===============================================================================

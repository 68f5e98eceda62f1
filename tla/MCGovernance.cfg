\* The clock stops at MaxTime.
SPECIFICATION MCSpec
CONSTANTS
    v1 = v1
    v2 = v2
    Voters <- MCVoters
    InitialPower <- MCPower
    Proposals <- MCProposals
    Origins <- MCOrigins
    Accounts <- MCAccounts
    Minters <- MCMinters
    Mandates <- MCMandates
    Dockets <- MCDockets
    HomeCalls <- MCHomeCalls
    RemoteCalls <- MCRemoteCalls
    RemoteNet = "optimism"
    votingDelay = 1
    votingPeriod = 1
    proposalThreshold = 1
    votesQuorum = 40
    minDelay = 1
    MaxTime = 5
    MaxSent = 2
INVARIANTS TypeOK TallyRight NothingHasty
PROPERTIES VotedOnly PathDrains ImplementsGovernedSweep
CHECK_DEADLOCK FALSE

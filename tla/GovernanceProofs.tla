---------------------------- MODULE GovernanceProofs ---------------------------
\* Governance of SWEEP on two chains, for every set of voters, proposals and
\* mandates, all delays and quorums: the tally is right, nothing is executed in
\* haste, nothing but a vote changes what governance owns, and the whole implements
\* GovernedSweep.
EXTENDS GovernanceSystem, NumberTheorems

ProposalRecord ==
    [created : BOOLEAN, snapshot : Nat, deadline : Nat, held : [Voters -> Nat],
     ballot : [Voters -> {"none", "for", "against", "abstain"}],
     for : Nat, against : Nat, abstain : Nat,
     queued : BOOLEAN, executed : BOOLEAN, canceled : BOOLEAN]

GovernorTypeOK ==
    /\ now \in Nat \ {0}
    /\ power \in [Voters -> Nat] /\ abroad \in [Voters -> Nat]
    /\ proposal \in [Proposals -> ProposalRecord]
    /\ timestamps \in [Proposals -> Nat] /\ done \subseteq Proposals /\ ownOps \subseteq Proposals

Won(p) ==
    /\ proposal[p].created /\ proposal[p].deadline < now
    /\ voteSucceeded(proposal[p]) /\ quorumReached(proposal[p])

\* A queued proposal has won its vote, and its operation is not ready before
\* minDelay after the vote, unless the deployer scheduled it; what is done was ready;
\* an executed proposal has won its vote and is done.
Ripe(p) ==
    /\ proposal[p].created => proposal[p].snapshot <= proposal[p].deadline
    /\ timestamps[p] # 0 => proposal[p].queued \/ p \in ownOps
    /\ proposal[p].queued \/ proposal[p].executed => Won(p)
    /\ proposal[p].queued /\ timestamps[p] # 0 /\ p \notin ownOps =>
          proposal[p].deadline + minDelay < timestamps[p]
    /\ p \in done => timestamps[p] # 0 /\ timestamps[p] <= now
    /\ proposal[p].executed => p \in done

AllRipe == \A p \in Proposals : Ripe(p)

GovernorInv == GovernorTypeOK /\ AllRipe

-------------------------------------------------------------------------------
LEMMA GovernorInitInv == GovernorInit => GovernorInv
  <1>1. SUFFICES ASSUME GovernorInit PROVE GovernorInv
    OBVIOUS
  <1>2. NoPower \in [Voters -> Nat]
    BY DEF NoPower
  <1>3. NoProposal \in ProposalRecord
    BY <1>2 DEF NoProposal, ProposalRecord
  <1>4. GovernorTypeOK
    BY <1>1, <1>2, <1>3, GovernorAssumption DEF GovernorInit, GovernorTypeOK
  <1>5. AllRipe
    BY <1>1 DEF GovernorInit, AllRipe, Ripe, NoProposal
  <1>q. QED
    BY <1>4, <1>5 DEF GovernorInv

\* A step that leaves the proposals, the clock and the timelock alone.
LEMMA GovernorRests ==
    ASSUME GovernorInv, UNCHANGED <<now, proposal, operations>>,
           power' \in [Voters -> Nat], abroad' \in [Voters -> Nat]
    PROVE  GovernorInv'
  BY DEF GovernorInv, GovernorTypeOK, AllRipe, Ripe, Won, voteSucceeded, quorumReached, operations

\* A step that changes one proposal and its operation, and leaves the rest alone.
LEMMA OneProposal ==
    ASSUME GovernorInv, NEW p \in Proposals, NEW q \in ProposalRecord, NEW t \in Nat,
           proposal' = [proposal EXCEPT ![p] = q], timestamps' = [timestamps EXCEPT ![p] = t],
           done' \in {done, done \cup {p}}, ownOps' \in {ownOps, ownOps \cup {p}},
           UNCHANGED <<now, power, abroad>>, Ripe(p)'
    PROVE  GovernorInv'
  <1>1. GovernorTypeOK'
    BY DEF GovernorInv, GovernorTypeOK
  <1>2. ASSUME NEW r \in Proposals PROVE Ripe(r)'
    <2>1. CASE r = p
      BY <2>1
    <2>2. CASE r # p
      <3>1. /\ proposal'[r] = proposal[r] /\ timestamps'[r] = timestamps[r] /\ now' = now
            /\ r \in done' <=> r \in done
            /\ r \in ownOps' <=> r \in ownOps
        BY <2>2 DEF GovernorInv, GovernorTypeOK
      <3>2. Ripe(r)
        BY DEF GovernorInv, AllRipe
      <3>q. QED
        BY <3>1, <3>2 DEF Ripe, Won, voteSucceeded, quorumReached
    <2>q. QED
      BY <2>1, <2>2
  <1>q. QED
    BY <1>1, <1>2 DEF GovernorInv, AllRipe

\* The clock: a snapshot is filled in before its vote opens, never after.
LEMMA TickInv ==
    ASSUME GovernorInv, Tick
    PROVE  GovernorInv'
  <1>0. GovernorTypeOK /\ AllRipe
    BY DEF GovernorInv
  <1>1. /\ now' = now + 1 /\ UNCHANGED <<power, abroad, timestamps, done, ownOps>>
        /\ proposal' = [p \in Proposals |->
              IF proposal[p].created /\ proposal[p].snapshot = now
              THEN [proposal[p] EXCEPT !.held = power] ELSE proposal[p]]
    BY DEF Tick, operations
  <1>2. proposal' \in [Proposals -> ProposalRecord]
    <2>1. \A p \in Proposals : proposal[p] \in ProposalRecord
                              /\ [proposal[p] EXCEPT !.held = power] \in ProposalRecord
      BY <1>0 DEF GovernorTypeOK, ProposalRecord
    <2>q. QED
      BY <1>1, <2>1
  <1>3. GovernorTypeOK'
    BY <1>0, <1>1, <1>2 DEF GovernorTypeOK
  <1>4. ASSUME NEW p \in Proposals PROVE Ripe(p)'
    <2>0. /\ Ripe(p) /\ now \in Nat /\ timestamps[p] \in Nat /\ minDelay \in Nat
          /\ proposal[p] \in ProposalRecord
      BY <1>0, GovernorAssumption DEF AllRipe, GovernorTypeOK
    <2>1. CASE proposal[p].created /\ proposal[p].snapshot = now
      <3>1. proposal'[p] = [proposal[p] EXCEPT !.held = power]
        BY <1>1, <2>1
      <3>2. ~proposal[p].queued /\ ~proposal[p].executed
        BY <2>0, <2>1 DEF Ripe, Won, ProposalRecord
      <3>q. QED
        BY <1>1, <2>0, <3>1, <3>2 DEF Ripe, ProposalRecord
    <2>2. CASE ~(proposal[p].created /\ proposal[p].snapshot = now)
      <3>1. proposal'[p] = proposal[p]
        BY <1>1, <2>2
      <3>2. quorumReached(proposal[p])' = quorumReached(proposal[p])
            /\ voteSucceeded(proposal[p])' = voteSucceeded(proposal[p])
        BY <3>1 DEF quorumReached, voteSucceeded
      <3>3. Won(p) => Won(p)'
        BY <1>1, <2>0, <3>1, <3>2 DEF Won, ProposalRecord
      <3>q. QED
        BY <1>1, <2>0, <3>1, <3>3 DEF Ripe, ProposalRecord
    <2>q. QED
      BY <2>1, <2>2
  <1>q. QED
    BY <1>3, <1>4 DEF GovernorInv, AllRipe

\* What the states of a proposal say of it.
LEMMA StateSays ==
    ASSUME GovernorInv, NEW p \in Proposals
    PROVE  LET q == proposal[p] IN
           /\ state(p) = "unknown" => ~q.created /\ ~q.queued
           /\ state(p) = "active" => q.created /\ now <= q.deadline
           /\ state(p) = "succeeded" => /\ q.created /\ ~q.executed /\ q.deadline < now
                                       /\ voteSucceeded(q) /\ quorumReached(q) /\ ~q.queued
           /\ state(p) = "queued" => q.queued /\ ~q.executed
           /\ state(p) = "unknown" => ~q.executed
           /\ state(p) = "active" => ~q.executed
  BY DEF state, GovernorInv, GovernorTypeOK, ProposalRecord, AllRipe, Ripe, Won

\* The updates the actions make leave a proposal's record well typed.
LEMMA RecordUpdates ==
    ASSUME NEW r \in ProposalRecord, NEW m \in Nat, NEW n \in Nat, NEW k \in Nat,
           NEW v \in Voters, NEW s \in {"for", "against", "abstain"}
    PROVE  /\ [r EXCEPT !.created = TRUE, !.snapshot = m, !.deadline = n] \in ProposalRecord
           /\ [r EXCEPT !.ballot[v] = s, !.for = m, !.against = n, !.abstain = k]
                  \in ProposalRecord
  BY DEF ProposalRecord

LEMMA FlagUpdates ==
    ASSUME NEW r \in ProposalRecord
    PROVE  /\ [r EXCEPT !.queued = TRUE] \in ProposalRecord
           /\ [r EXCEPT !.executed = TRUE] \in ProposalRecord
           /\ [r EXCEPT !.canceled = TRUE] \in ProposalRecord
  BY DEF ProposalRecord

\* Proposing opens no vote that is over.
LEMMA ProposeInv ==
    ASSUME GovernorInv, NEW p \in Proposals, NEW v \in Voters, propose(p, v)
    PROVE  GovernorInv'
  <1> DEFINE q == [proposal[p] EXCEPT !.created = TRUE, !.snapshot = now + votingDelay,
                                      !.deadline = now + votingDelay + votingPeriod]
  <1>0. /\ proposal[p] \in ProposalRecord /\ Ripe(p) /\ timestamps[p] \in Nat /\ now \in Nat
        /\ votingDelay \in Nat /\ votingPeriod \in Nat /\ GovernorTypeOK
    BY GovernorAssumption DEF GovernorInv, GovernorTypeOK, AllRipe
  <1>1. ~proposal[p].created /\ ~proposal[p].queued /\ ~proposal[p].executed
    BY StateSays DEF propose
  <1>2. /\ proposal' = [proposal EXCEPT ![p] = q]
        /\ UNCHANGED <<now, power, abroad, timestamps, done, ownOps>>
    BY <1>0 DEF propose, GovernorTypeOK, operations
  <1>3. q \in ProposalRecord
    <2>1. now + votingDelay \in Nat /\ now + votingDelay + votingPeriod \in Nat
      BY <1>0
    <2>q. QED
      BY <1>0, <2>1, RecordUpdates
  <1>4. proposal'[p] = q /\ q.created /\ q.snapshot = now + votingDelay
        /\ q.deadline = now + votingDelay + votingPeriod
        /\ q.queued = proposal[p].queued /\ q.executed = proposal[p].executed
    BY <1>0, <1>2 DEF GovernorTypeOK, ProposalRecord
  <1>5. Ripe(p)'
    BY <1>0, <1>1, <1>2, <1>4 DEF Ripe
  <1>6. timestamps' = [timestamps EXCEPT ![p] = timestamps[p]]
    BY <1>0, <1>2 DEF GovernorTypeOK
  <1>q. QED
    BY <1>0, <1>2, <1>3, <1>5, <1>6, OneProposal

\* Only an open vote counts ballots, and nothing in an open vote is queued.
LEMMA CastVoteInv ==
    ASSUME GovernorInv, NEW p \in Proposals, NEW v \in Voters,
           NEW support \in {"for", "against", "abstain"}, castVote(p, v, support)
    PROVE  GovernorInv'
  <1> DEFINE w == proposal[p].held[v]
             for == IF support = "for" THEN proposal[p].for + w ELSE proposal[p].for
             against == IF support = "against" THEN proposal[p].against + w
                        ELSE proposal[p].against
             abstain == IF support = "abstain" THEN proposal[p].abstain + w
                        ELSE proposal[p].abstain
             q == [proposal[p] EXCEPT !.ballot[v] = support, !.for = for,
                                      !.against = against, !.abstain = abstain]
  <1>0. /\ proposal[p] \in ProposalRecord /\ Ripe(p) /\ timestamps[p] \in Nat /\ now \in Nat
        /\ GovernorTypeOK
    BY DEF GovernorInv, GovernorTypeOK, AllRipe
  <1>1. proposal[p].created /\ now <= proposal[p].deadline
    BY StateSays DEF castVote
  <1>2. /\ proposal' = [proposal EXCEPT ![p] = q]
        /\ UNCHANGED <<now, power, abroad, timestamps, done, ownOps>>
    BY <1>0 DEF castVote, GovernorTypeOK, ProposalRecord, operations
  <1>3. w \in Nat
    BY <1>0 DEF ProposalRecord
  <1>4. q \in ProposalRecord
    <2>1. for \in Nat /\ against \in Nat /\ abstain \in Nat
      BY <1>0, <1>3 DEF ProposalRecord
    <2>q. QED
      BY <1>0, <2>1, RecordUpdates
  <1>5. proposal'[p] = q /\ q.created = proposal[p].created /\ q.snapshot = proposal[p].snapshot
        /\ q.deadline = proposal[p].deadline
        /\ q.queued = proposal[p].queued /\ q.executed = proposal[p].executed
    BY <1>0, <1>2 DEF GovernorTypeOK, ProposalRecord
  <1>6. Ripe(p)'
    <2>1. ~proposal[p].queued /\ ~proposal[p].executed
      BY <1>0, <1>1 DEF Ripe, Won, ProposalRecord
    <2>q. QED
      BY <1>0, <1>1, <1>2, <1>5, <2>1 DEF Ripe
  <1>7. timestamps' = [timestamps EXCEPT ![p] = timestamps[p]]
    BY <1>0, <1>2 DEF GovernorTypeOK
  <1>q. QED
    BY <1>0, <1>2, <1>4, <1>6, <1>7, OneProposal

\* Queueing: the vote is over and won, and the operation is ready minDelay from now.
LEMMA QueueInv ==
    ASSUME GovernorInv, NEW p \in Proposals, queue(p)
    PROVE  GovernorInv'
  <1> DEFINE q == [proposal[p] EXCEPT !.queued = TRUE]
  <1>0. /\ proposal[p] \in ProposalRecord /\ Ripe(p) /\ GovernorTypeOK
        /\ now \in Nat \ {0} /\ minDelay \in Nat /\ now + minDelay \in Nat \ {0}
    BY GovernorAssumption DEF GovernorInv, GovernorTypeOK, AllRipe
  <1>1. /\ proposal[p].created /\ ~proposal[p].executed /\ proposal[p].deadline < now
        /\ voteSucceeded(proposal[p]) /\ quorumReached(proposal[p])
    BY StateSays DEF queue
  <1>2. /\ proposal' = [proposal EXCEPT ![p] = q]
        /\ timestamps' = [timestamps EXCEPT ![p] = now + minDelay]
        /\ UNCHANGED <<now, power, abroad, done, ownOps>> /\ timestamps[p] = 0
    BY <1>0 DEF queue, GovernorTypeOK
  <1>3. q \in ProposalRecord
    BY <1>0, FlagUpdates
  <1>4. /\ proposal'[p] = q /\ timestamps'[p] = now + minDelay
        /\ q.created = proposal[p].created /\ q.snapshot = proposal[p].snapshot
        /\ q.deadline = proposal[p].deadline /\ q.executed = proposal[p].executed
        /\ q.queued = TRUE
    BY <1>0, <1>2 DEF GovernorTypeOK, ProposalRecord
  <1>5. voteSucceeded(q) /\ quorumReached(q)
    BY <1>0, <1>1 DEF voteSucceeded, quorumReached, ProposalRecord
  <1>6. Ripe(p)'
    <2>1. voteSucceeded(proposal[p])' /\ quorumReached(proposal[p])'
      BY <1>4, <1>5 DEF voteSucceeded, quorumReached
    <2>2. proposal[p].deadline \in Nat
      BY <1>0 DEF ProposalRecord
    <2>3. proposal[p].deadline + minDelay < now + minDelay
      BY <2>2, <1>0, <1>1
    <2>4. Won(p)'
      BY <1>1, <1>2, <1>4, <2>1 DEF Won
    <2>5. p \notin done
      BY <1>0, <1>2 DEF Ripe
    <2>q. QED
      BY <1>0, <1>1, <1>2, <1>4, <2>3, <2>4, <2>5 DEF Ripe
  <1>q. QED
    BY <1>0, <1>2, <1>3, <1>6, OneProposal

\* Scheduled by the deployer: what it scheduled is known for it.
LEMMA ScheduleAsOwnerInv ==
    ASSUME GovernorInv, NEW p \in Proposals, scheduleAsOwner(p)
    PROVE  GovernorInv'
  <1>0. /\ proposal[p] \in ProposalRecord /\ Ripe(p) /\ GovernorTypeOK
        /\ now \in Nat \ {0} /\ minDelay \in Nat /\ now + minDelay \in Nat \ {0}
    BY GovernorAssumption DEF GovernorInv, GovernorTypeOK, AllRipe
  <1>1. /\ timestamps' = [timestamps EXCEPT ![p] = now + minDelay] /\ timestamps[p] = 0
        /\ UNCHANGED <<now, power, abroad, proposal, done>> /\ ownOps' = ownOps \cup {p}
    BY DEF scheduleAsOwner
  <1>2. /\ proposal' = [proposal EXCEPT ![p] = proposal[p]] /\ timestamps'[p] = now + minDelay
        /\ p \notin done
    BY <1>0, <1>1 DEF GovernorTypeOK, Ripe
  <1>3. Won(p)' = Won(p)
    BY <1>1 DEF Won, voteSucceeded, quorumReached
  <1>4. Ripe(p)'
    BY <1>0, <1>1, <1>2, <1>3 DEF Ripe
  <1>q. QED
    BY <1>0, <1>1, <1>2, <1>4, OneProposal

\* The deployer executes what is ready: the proposal itself stays as it is.
LEMMA ExecuteAsOwnerInv ==
    ASSUME GovernorInv, NEW p \in Proposals, executeAsOwner(p)
    PROVE  GovernorInv'
  <1>0. /\ proposal[p] \in ProposalRecord /\ Ripe(p) /\ GovernorTypeOK /\ timestamps[p] \in Nat
    BY DEF GovernorInv, GovernorTypeOK, AllRipe
  <1>1. /\ timestamps[p] # 0 /\ timestamps[p] <= now /\ done' = done \cup {p}
        /\ UNCHANGED <<now, power, abroad, proposal, timestamps, ownOps>>
    BY DEF executeAsOwner, perform
  <1>2. /\ proposal' = [proposal EXCEPT ![p] = proposal[p]]
        /\ timestamps' = [timestamps EXCEPT ![p] = timestamps[p]]
    BY <1>0, <1>1 DEF GovernorTypeOK
  <1>3. Won(p)' = Won(p)
    BY <1>1 DEF Won, voteSucceeded, quorumReached
  <1>4. Ripe(p)'
    BY <1>0, <1>1, <1>3 DEF Ripe
  <1>q. QED
    BY <1>0, <1>1, <1>2, <1>4, OneProposal

\* The timelock executes what is ready.
LEMMA ExecuteInv ==
    ASSUME GovernorInv, NEW p \in Proposals, execute(p)
    PROVE  GovernorInv'
  <1> DEFINE q == [proposal[p] EXCEPT !.executed = TRUE]
  <1>0. /\ proposal[p] \in ProposalRecord /\ Ripe(p) /\ GovernorTypeOK /\ timestamps[p] \in Nat
    BY DEF GovernorInv, GovernorTypeOK, AllRipe
  <1>1. timestamps[p] # 0 /\ timestamps[p] <= now /\ done' = done \cup {p}
    BY DEF execute, perform
  <1>2. /\ proposal' = [proposal EXCEPT ![p] = q]
        /\ UNCHANGED <<now, power, abroad, timestamps, ownOps>>
    BY DEF execute, perform
  <1>3. q \in ProposalRecord
    BY <1>0, FlagUpdates
  <1>4. /\ proposal'[p] = q /\ timestamps'[p] = timestamps[p]
        /\ q.created = proposal[p].created /\ q.snapshot = proposal[p].snapshot
        /\ q.deadline = proposal[p].deadline /\ q.queued = proposal[p].queued
    BY <1>0, <1>2 DEF GovernorTypeOK, ProposalRecord
  <1>5. /\ voteSucceeded(q) = voteSucceeded(proposal[p])
        /\ quorumReached(q) = quorumReached(proposal[p])
    BY <1>0 DEF voteSucceeded, quorumReached, ProposalRecord
  <1>6. Ripe(p)'
    <2>1. /\ voteSucceeded(proposal[p])' = voteSucceeded(proposal[p])
          /\ quorumReached(proposal[p])' = quorumReached(proposal[p])
      BY <1>4, <1>5 DEF voteSucceeded, quorumReached
    <2>2. Won(p)
      BY <1>0, StateSays DEF execute, Ripe, Won
    <2>3. Won(p)'
      BY <1>2, <1>4, <2>1, <2>2 DEF Won
    <2>q. QED
      BY <1>0, <1>1, <1>2, <1>4, <2>3 DEF Ripe
  <1>7. timestamps' = [timestamps EXCEPT ![p] = timestamps[p]]
    BY <1>0, <1>2 DEF GovernorTypeOK
  <1>q. QED
    BY <1>0, <1>1, <1>2, <1>3, <1>6, <1>7, OneProposal

\* Cancelling, by the governor or in the timelock.
LEMMA CancelInv ==
    ASSUME GovernorInv, NEW p \in Proposals, cancel(p) \/ cancelInTimelock(p)
    PROVE  GovernorInv'
  <1> DEFINE q == [proposal[p] EXCEPT !.canceled = TRUE]
  <1>0. /\ proposal[p] \in ProposalRecord /\ Ripe(p) /\ GovernorTypeOK /\ timestamps[p] \in Nat
    BY DEF GovernorInv, GovernorTypeOK, AllRipe
  <1>1. CASE cancel(p)
    <2>2. /\ proposal' = [proposal EXCEPT ![p] = q]
          /\ UNCHANGED <<now, power, abroad, timestamps, done, ownOps>>
      BY <1>1 DEF cancel, operations
    <2>3. q \in ProposalRecord
      BY <1>0, FlagUpdates
    <2>4. /\ proposal'[p] = q /\ timestamps'[p] = timestamps[p]
          /\ q.created = proposal[p].created /\ q.snapshot = proposal[p].snapshot
          /\ q.deadline = proposal[p].deadline /\ q.queued = proposal[p].queued
          /\ q.executed = proposal[p].executed
      BY <1>0, <2>2 DEF GovernorTypeOK, ProposalRecord
    <2>5. /\ voteSucceeded(q) = voteSucceeded(proposal[p])
          /\ quorumReached(q) = quorumReached(proposal[p])
      BY <1>0 DEF voteSucceeded, quorumReached, ProposalRecord
    <2>6. /\ voteSucceeded(proposal[p])' = voteSucceeded(proposal[p])
          /\ quorumReached(proposal[p])' = quorumReached(proposal[p])
      BY <2>4, <2>5 DEF voteSucceeded, quorumReached
    <2>7. Ripe(p)'
      BY <1>0, <2>2, <2>4, <2>6 DEF Ripe, Won
    <2>8. timestamps' = [timestamps EXCEPT ![p] = timestamps[p]]
      BY <1>0, <2>2 DEF GovernorTypeOK
    <2>q. QED
      BY <1>0, <2>2, <2>3, <2>7, <2>8, OneProposal
  <1>2. CASE cancelInTimelock(p)
    <2>2. /\ timestamps' = [timestamps EXCEPT ![p] = 0] /\ p \notin done
          /\ UNCHANGED <<now, power, abroad, proposal, done, ownOps>>
      BY <1>2 DEF cancelInTimelock
    <2>3. proposal' = [proposal EXCEPT ![p] = proposal[p]] /\ timestamps'[p] = 0
      BY <1>0, <2>2 DEF GovernorTypeOK
    <2>4. /\ voteSucceeded(proposal[p])' = voteSucceeded(proposal[p])
          /\ quorumReached(proposal[p])' = quorumReached(proposal[p])
      BY <2>2 DEF voteSucceeded, quorumReached
    <2>5. Ripe(p)'
      BY <1>0, <2>2, <2>3, <2>4 DEF Ripe, Won
    <2>q. QED
      BY <1>0, <2>2, <2>3, <2>5, OneProposal
  <1>q. QED
    BY <1>1, <1>2

\* SWEEPR that moves stays a number, and changes no proposal.
LEMMA MovesInv ==
    ASSUME GovernorInv, NEW v \in Voters, NEW w \in Voters,
           transfer(v, w) \/ sendFrom(v) \/ creditTo(v)
    PROVE  GovernorInv'
  <1>1. power \in [Voters -> Nat] /\ abroad \in [Voters -> Nat]
    BY DEF GovernorInv, GovernorTypeOK
  <1>2. UNCHANGED <<now, proposal, operations>>
    BY DEF transfer, sendFrom, creditTo
  <1>3. power' \in [Voters -> Nat] /\ abroad' \in [Voters -> Nat]
    BY <1>1 DEF transfer, sendFrom, creditTo
  <1>q. QED
    BY <1>2, <1>3, GovernorRests

\* The steps that only give and take roles.
RoleStep ==
    \/ grantRole \/ renounceAdmin
    \/ \E role \in {"PROPOSER", "EXECUTOR"} : grantOwn(role) \/ renounceOwn(role)

LEMMA RoleRests ==
    RoleStep => UNCHANGED <<now, power, abroad, lastPower, proposal, operations>>
  BY DEF RoleStep, grantRole, renounceAdmin, grantOwn, renounceOwn

\* Every step of the governor but execute.
LEMMA GovernorNextInv == GovernorInv /\ GovernorNext => GovernorInv'
  <1>1. SUFFICES ASSUME GovernorInv, GovernorNext PROVE GovernorInv'
    OBVIOUS
  <1>2. CASE RoleStep
    <2>1. power \in [Voters -> Nat] /\ abroad \in [Voters -> Nat]
      BY <1>1 DEF GovernorInv, GovernorTypeOK
    <2>q. QED
      BY <1>1, <1>2, <2>1, RoleRests, GovernorRests
  <1>3. CASE Tick
    BY <1>1, <1>3, TickInv
  <1>4. ASSUME NEW p \in Proposals, NEW v \in Voters,
               \/ propose(p, v)
               \/ \E support \in {"for", "against", "abstain"} : castVote(p, v, support)
        PROVE  GovernorInv'
    BY <1>1, <1>4, ProposeInv, CastVoteInv
  <1>5. ASSUME NEW p \in Proposals, queue(p) \/ cancel(p) \/ cancelInTimelock(p)
        PROVE  GovernorInv'
    BY <1>1, <1>5, QueueInv, CancelInv
  <1>6. ASSUME NEW v \in Voters, NEW w \in Voters, transfer(v, w)
        PROVE  GovernorInv'
    BY <1>1, <1>6, MovesInv
  <1>7. ASSUME NEW v \in Voters, sendFrom(v) \/ creditTo(v)
        PROVE  GovernorInv'
    BY <1>1, <1>7, MovesInv
  <1>8. ASSUME NEW p \in Proposals, scheduleAsOwner(p)
        PROVE  GovernorInv'
    BY <1>1, <1>8, ScheduleAsOwnerInv
  <1>q. QED
    BY <1>1, <1>2, <1>3, <1>4, <1>5, <1>6, <1>7, <1>8 DEF GovernorNext, RoleStep

-------------------------------------------------------------------------------
(* What the governor's steps do to what a mandate depends on *)

SameFor(q) == timestamps'[q] = 0 <=> timestamps[q] = 0

SameForOthers(p) == \A q \in Proposals : q # p => SameFor(q)

Decided(p) ==
    p \notin done /\ timestamps[p] = 0 /\ timestamps'[p] # 0 /\ SameForOthers(p)

Withdrawn(p) ==
    p \notin done /\ timestamps[p] # 0 /\ timestamps'[p] = 0 /\ SameForOthers(p)

LEMMA GovernorSteps ==
    ASSUME GovernorInv, GovernorNext
    PROVE  /\ done' = done
           /\ \/ \A q \in Proposals : SameFor(q)
              \/ \E p \in Proposals : Decided(p) \/ Withdrawn(p)
  <1>0. /\ timestamps \in [Proposals -> Nat] /\ now \in Nat \ {0} /\ minDelay \in Nat
        /\ \A p \in Proposals : timestamps[p] = 0 => p \notin done
    BY GovernorAssumption DEF GovernorInv, GovernorTypeOK, AllRipe, Ripe
  <1>1. CASE UNCHANGED operations
    BY <1>1 DEF SameFor, operations
  <1>2. ASSUME NEW p \in Proposals, queue(p) \/ scheduleAsOwner(p)
        PROVE  done' = done /\ Decided(p)
    <2>1. /\ timestamps[p] = 0 /\ timestamps' = [timestamps EXCEPT ![p] = now + minDelay]
          /\ done' = done
      BY <1>2 DEF queue, scheduleAsOwner
    <2>q. QED
      BY <1>0, <2>1 DEF Decided, SameForOthers, SameFor
  <1>3. ASSUME NEW p \in Proposals, cancelInTimelock(p)
        PROVE  done' = done /\ Withdrawn(p)
    BY <1>0, <1>3 DEF cancelInTimelock, Withdrawn, SameForOthers, SameFor
  <1>4. CASE RoleStep
    BY <1>1, <1>4, RoleRests
  <1>5. ASSUME NEW p \in Proposals, NEW v \in Voters,
               \/ propose(p, v)
               \/ \E support \in {"for", "against", "abstain"} : castVote(p, v, support)
        PROVE  UNCHANGED operations
    BY <1>5 DEF propose, castVote
  <1>6. ASSUME NEW v \in Voters, NEW w \in Voters, transfer(v, w) \/ sendFrom(v) \/ creditTo(v)
        PROVE  UNCHANGED operations
    BY <1>6 DEF transfer, sendFrom, creditTo
  <1>7. ASSUME NEW p \in Proposals, cancel(p) PROVE UNCHANGED operations
    BY <1>7 DEF cancel
  <1>8. CASE Tick
    BY <1>1, <1>8 DEF Tick
  <1>q. QED
    BY <1>1, <1>2, <1>3, <1>4, <1>5, <1>6, <1>7, <1>8 DEF GovernorNext, RoleStep

\* No step of the governor but execute makes a proposal executed, or takes it back.
LEMMA ExecutedRests ==
    ASSUME GovernorInv, GovernorNext, NEW q \in Proposals
    PROVE  proposal'[q].executed = proposal[q].executed
  <1>0. proposal \in [Proposals -> ProposalRecord] /\ proposal[q] \in ProposalRecord
    BY DEF GovernorInv, GovernorTypeOK
  <1>1. CASE UNCHANGED proposal
    BY <1>1
  <1>2. CASE Tick
    <2>1. \/ proposal'[q] = proposal[q]
          \/ proposal'[q] = [proposal[q] EXCEPT !.held = power]
      BY <1>0, <1>2 DEF Tick
    <2>q. QED
      BY <1>0, <2>1 DEF ProposalRecord
  <1>3. ASSUME NEW p \in Proposals, NEW v \in Voters,
               \/ propose(p, v)
               \/ \E support \in {"for", "against", "abstain"} : castVote(p, v, support)
        PROVE  proposal'[q].executed = proposal[q].executed
    <2>1. CASE q = p
      BY <1>0, <1>3, <2>1 DEF propose, castVote, ProposalRecord
    <2>2. CASE q # p
      BY <1>0, <1>3, <2>2 DEF propose, castVote
    <2>q. QED
      BY <2>1, <2>2
  <1>4. ASSUME NEW p \in Proposals, queue(p) \/ cancel(p)
        PROVE  proposal'[q].executed = proposal[q].executed
    <2>1. CASE q = p
      BY <1>0, <1>4, <2>1 DEF queue, cancel, ProposalRecord
    <2>2. CASE q # p
      BY <1>0, <1>4, <2>2 DEF queue, cancel
    <2>q. QED
      BY <2>1, <2>2
  <1>5. CASE RoleStep
    BY <1>1, <1>5, RoleRests
  <1>6. ASSUME NEW v \in Voters, NEW w \in Voters, transfer(v, w) \/ sendFrom(v) \/ creditTo(v)
        PROVE  UNCHANGED proposal
    BY <1>6 DEF transfer, sendFrom, creditTo
  <1>7. ASSUME NEW p \in Proposals, scheduleAsOwner(p) \/ cancelInTimelock(p)
        PROVE  UNCHANGED proposal
    BY <1>7 DEF scheduleAsOwner, cancelInTimelock
  <1>q. QED
    BY <1>1, <1>2, <1>3, <1>4, <1>5, <1>6, <1>7 DEF GovernorNext, RoleStep

\* Who is no admin, and has kept no role, gets none.
LEMMA RolesStay ==
    ASSUME GovernorNext, ~admin, own = {}
    PROVE  UNCHANGED <<admin, own>>
  <1>1. CASE RoleStep
    BY <1>1 DEF RoleStep, grantRole, renounceAdmin, grantOwn, renounceOwn
  <1>2. ASSUME NEW p \in Proposals, NEW v \in Voters,
               \/ propose(p, v)
               \/ \E support \in {"for", "against", "abstain"} : castVote(p, v, support)
        PROVE  UNCHANGED roles
    BY <1>2 DEF propose, castVote
  <1>3. ASSUME NEW p \in Proposals,
               queue(p) \/ cancel(p) \/ cancelInTimelock(p) \/ scheduleAsOwner(p)
        PROVE  UNCHANGED roles
    BY <1>3 DEF queue, cancel, cancelInTimelock, scheduleAsOwner
  <1>4. ASSUME NEW v \in Voters, NEW w \in Voters, transfer(v, w) \/ sendFrom(v) \/ creditTo(v)
        PROVE  UNCHANGED roles
    BY <1>4 DEF transfer, sendFrom, creditTo
  <1>5. CASE Tick
    BY <1>5 DEF Tick, roles
  <1>q. QED
    BY <1>1, <1>2, <1>3, <1>4, <1>5 DEF GovernorNext, RoleStep, roles

\* What is executed, through the governor or by the deployer, was scheduled, and is
\* done from then on.
LEMMA ExecuteStep ==
    ASSUME GovernorInv, NEW p \in Proposals, execute(p) \/ executeAsOwner(p)
    PROVE  /\ timestamps[p] # 0 /\ p \notin done
           /\ timestamps' = timestamps /\ done' = done \cup {p}
  BY DEF execute, executeAsOwner, perform

\* Through the governor, a proposal that has won its vote.
LEMMA ExecuteWon ==
    ASSUME GovernorInv, NEW p \in Proposals, execute(p)
    PROVE  /\ ~proposal[p].executed /\ proposal[p].created
           /\ proposal'[p].executed /\ proposal'[p].created
           /\ \A q \in Proposals : proposal[q].executed => proposal'[q].executed
  <1>0. /\ proposal \in [Proposals -> ProposalRecord] /\ proposal[p] \in ProposalRecord
        /\ Ripe(p)
    BY DEF GovernorInv, GovernorTypeOK, AllRipe
  <1>1. ~proposal[p].executed /\ proposal[p].created
    BY <1>0, StateSays DEF execute, Ripe, Won
  <1>2. proposal' = [proposal EXCEPT ![p].executed = TRUE]
    BY DEF execute
  <1>q. QED
    BY <1>0, <1>1, <1>2 DEF ProposalRecord

-------------------------------------------------------------------------------
(* The messages *)

\* Every message is of a proposal that is done or of the deployer, one of each proposal.
MessagesInv ==
    /\ docket \in [Proposals -> Mandates]
    /\ sent \in [Paths -> Nat] /\ delivered \in [Paths -> Nat]
    /\ \A f \in Paths : delivered[f] <= sent[f]
    /\ messages \subseteq Message
    /\ failedMessages \subseteq messages
    /\ \A m \in messages : m.nonce \in 1..sent[m.from] /\ m.mandate.to = "remote"
    /\ \A m \in failedMessages : m.nonce <= delivered[m.from]
    /\ \A m \in messages : m.by # "owner" =>
          m.by \in done /\ m.mandate = docket[m.by] /\ m.from = "sender"
    /\ \A m, k \in messages : m.from = k.from /\ m.nonce = k.nonce => m = k
    /\ \A m, k \in messages : m.by = k.by /\ m.by # "owner" => m = k

SystemInv == GovernorInv /\ MessagesInv

LEMMA SystemInitInv == Init => SystemInv
  <1>1. SUFFICES ASSUME Init PROVE SystemInv
    OBVIOUS
  <1>2. GovernorInv
    BY <1>1, GovernorInitInv DEF Init
  <1>3. MessagesInv
    BY <1>1, GovernanceAssumption DEF Init, OmnichainInit, MessagesInv
  <1>q. QED
    BY <1>2, <1>3 DEF SystemInv

\* What is done stays done, so its messages keep their mandate.
LEMMA MessagesRest ==
    ASSUME MessagesInv, UNCHANGED <<docket, messages, sent>>, done \subseteq done',
           delivered' \in [Paths -> Nat],
           \A f \in Paths : delivered[f] <= delivered'[f] /\ delivered'[f] <= sent[f],
           failedMessages' \subseteq messages,
           \A m \in failedMessages' : m.nonce <= delivered'[m.from]
    PROVE  MessagesInv'
  <1>1. \A m \in messages : m.by # "owner" => m.by \in Proposals
    BY GovernanceAssumption DEF MessagesInv, Message
  <1>q. QED
    BY <1>1 DEF MessagesInv, Message

\* A new message of the deployer, or of a proposal done just now.
LEMMA SendInv ==
    ASSUME MessagesInv, NEW from \in Paths, NEW by \in Origins, NEW mandate \in Mandates,
           sendOn(from, by, mandate), mandate.to = "remote", UNCHANGED docket,
           done \subseteq done',
           by # "owner" => /\ by \notin done /\ by \in done' /\ from = "sender"
                           /\ mandate = docket[by]
    PROVE  MessagesInv'
  <1>n. PICK new :
           new = [from |-> from, nonce |-> sent[from] + 1, by |-> by, mandate |-> mandate]
    OBVIOUS
  <1>0. /\ sent' = [sent EXCEPT ![from] = @ + 1] /\ messages' = messages \cup {new}
        /\ UNCHANGED <<delivered, failedMessages>>
    BY <1>n DEF sendOn
  <1>1. \A m \in messages : m.by # "owner" => m.by \in Proposals
    BY GovernanceAssumption DEF MessagesInv, Message
  <1>2. /\ sent \in [Paths -> Nat] /\ sent[from] \in Nat /\ sent' \in [Paths -> Nat]
        /\ sent'[from] = sent[from] + 1 /\ \A f \in Paths : sent[f] <= sent'[f]
    BY <1>0 DEF MessagesInv
  <1>3. /\ new \in Message /\ new.by = by /\ new.mandate = mandate /\ new.from = from
        /\ new.nonce = sent[from] + 1
    BY <1>n, <1>2 DEF Message
  <1>4. \A m \in messages : /\ m.from \in Paths /\ m.nonce \in 1..sent[m.from]
                            /\ m.nonce \in 1..sent'[m.from]
                            /\ m.from = from => m.nonce # new.nonce
    BY <1>2, <1>3 DEF MessagesInv, Message
  <1>5. \A m \in messages : m.by = by => by = "owner"
    BY <1>1 DEF MessagesInv
  <1>6. \A m \in messages' : m.nonce \in 1..sent'[m.from] /\ m.mandate.to = "remote"
    <2>1. new.nonce \in 1..sent'[new.from]
      BY <1>2, <1>3
    <2>q. QED
      BY <1>0, <1>3, <1>4, <2>1 DEF MessagesInv
  <1>7. \A m \in messages' : m.by # "owner" =>
           m.by \in done' /\ m.mandate = docket'[m.by] /\ m.from = "sender"
    BY <1>0, <1>1, <1>3 DEF MessagesInv
  <1>8. \A m, k \in messages' : m.from = k.from /\ m.nonce = k.nonce => m = k
    BY <1>0, <1>3, <1>4 DEF MessagesInv
  <1>9. \A m, k \in messages' : m.by = k.by /\ m.by # "owner" => m = k
    BY <1>0, <1>3, <1>5 DEF MessagesInv
  <1>10. \A f \in Paths : delivered'[f] <= sent'[f]
    BY <1>0, <1>2 DEF MessagesInv
  <1>q. QED
    BY <1>0, <1>2, <1>3, <1>6, <1>7, <1>8, <1>9, <1>10 DEF MessagesInv

\* A message that is delivered is the next on its path, and none stored so far.
LEMMA Receives ==
    ASSUME MessagesInv, NEW m \in path, lzReceive(m)
    PROVE  /\ m \in messages /\ m.from \in Paths /\ m \notin failedMessages
           /\ m.nonce = delivered[m.from] + 1 /\ executorTrusts = m.from
           /\ UNCHANGED <<messages, sent>> /\ delivered' = [delivered EXCEPT ![m.from] = m.nonce]
           /\ delivered' \in [Paths -> Nat]
           /\ \A f \in Paths : delivered[f] <= delivered'[f] /\ delivered'[f] <= sent[f]
           /\ \A k \in messages : k # m =>
                 (k.nonce <= delivered'[k.from] <=> k.nonce <= delivered[k.from])
           /\ ~(m.nonce <= delivered[m.from]) /\ m.nonce <= delivered'[m.from]
  <1>1. /\ m \in messages /\ m.nonce = delivered[m.from] + 1 /\ executorTrusts = m.from
        /\ UNCHANGED <<messages, sent>> /\ delivered' = [delivered EXCEPT ![m.from] = m.nonce]
    BY DEF lzReceive, isNext, path
  <1>2. /\ m.from \in Paths /\ m.nonce \in Nat /\ delivered \in [Paths -> Nat]
        /\ sent \in [Paths -> Nat] /\ m.nonce <= sent[m.from]
        /\ \A f \in Paths : delivered[f] <= sent[f]
        /\ \A k \in messages : k.from \in Paths /\ k.nonce \in Nat
        /\ \A k \in messages : k.from = m.from /\ k.nonce = m.nonce => k = m
        /\ \A k \in failedMessages : k.nonce <= delivered[k.from]
    BY <1>1 DEF MessagesInv, Message
  <1>3. /\ delivered'[m.from] = m.nonce /\ delivered[m.from] \in Nat
        /\ \A f \in Paths : f # m.from => delivered'[f] = delivered[f]
    BY <1>1, <1>2
  <1>4. ~(m.nonce <= delivered[m.from]) /\ m.nonce <= delivered'[m.from]
    BY <1>1, <1>2, <1>3
  <1>5. \A f \in Paths : delivered[f] <= delivered'[f] /\ delivered'[f] <= sent[f]
    <2>1. delivered[m.from] <= delivered'[m.from] /\ delivered'[m.from] <= sent[m.from]
      BY <1>1, <1>2, <1>3
    <2>2. \A f \in Paths : delivered[f] <= delivered[f]
      BY <1>2
    <2>q. QED
      BY <1>2, <1>3, <2>1, <2>2
  <1>6. \A k \in messages : k # m =>
           (k.nonce <= delivered'[k.from] <=> k.nonce <= delivered[k.from])
    <2>1. SUFFICES ASSUME NEW k \in messages, k # m
                   PROVE  k.nonce <= delivered'[k.from] <=> k.nonce <= delivered[k.from]
      OBVIOUS
    <2>2. CASE k.from # m.from
      BY <1>2, <1>3, <2>2
    <2>3. CASE k.from = m.from
      <3>1. k.nonce # m.nonce /\ k.nonce \in Nat
        BY <1>2, <2>1, <2>3
      <3>q. QED
        BY <1>1, <1>2, <1>3, <2>3, <3>1
    <2>q. QED
      BY <2>2, <2>3
  <1>7. m \notin failedMessages
    BY <1>2, <1>4
  <1>8. delivered' \in [Paths -> Nat]
    BY <1>1, <1>2
  <1>q. QED
    BY <1>1, <1>2, <1>4, <1>5, <1>6, <1>7, <1>8

\* The tasks move no message.
TaskStep ==
    \/ setSenderTrustedRemote \/ \E f \in Paths : setExecutorTrustedRemote(f)
    \/ setSenderTransferOwnership \/ setExecutorTransferOwnership

LEMMA TasksRest ==
    TaskStep => UNCHANGED <<messages, sent, delivered, failedMessages, remote>>
  BY DEF TaskStep, setSenderTrustedRemote, setExecutorTrustedRemote,
         setSenderTransferOwnership, setExecutorTransferOwnership

LEMMA SystemNextInv == SystemInv /\ [Next]_vars => SystemInv'
  <1>1. SUFFICES ASSUME SystemInv, [Next]_vars PROVE SystemInv'
    OBVIOUS
  <1>0. GovernorInv /\ MessagesInv
    BY <1>1 DEF SystemInv
  <1>r. ASSUME UNCHANGED <<docket, messages, sent, delivered, failedMessages>>,
               done \subseteq done'
        PROVE  MessagesInv'
    <2>1. /\ delivered \in [Paths -> Nat]
          /\ \A f \in Paths : delivered[f] <= delivered[f] /\ delivered[f] <= sent[f]
      BY <1>0 DEF MessagesInv
    <2>2. /\ failedMessages \subseteq messages
          /\ \A m \in failedMessages : m.nonce <= delivered[m.from]
      BY <1>0 DEF MessagesInv
    <2>q. QED
      BY <1>0, <1>r, <2>1, <2>2, MessagesRest
  <1>2. CASE GovernorNext /\ UNCHANGED <<omnichainVars, docket, home>>
    <2>1. GovernorInv'
      BY <1>0, <1>2, GovernorNextInv
    <2>2. done' = done
      BY <1>0, <1>2, GovernorSteps
    <2>3. UNCHANGED <<docket, messages, sent, delivered, failedMessages>>
      BY <1>2 DEF omnichainVars
    <2>q. QED
      BY <1>r, <2>1, <2>2, <2>3 DEF SystemInv
  <1>3. ASSUME UNCHANGED governorVars PROVE GovernorInv'
    <2>1. power \in [Voters -> Nat] /\ abroad \in [Voters -> Nat]
      BY <1>0 DEF GovernorInv, GovernorTypeOK
    <2>q. QED
      BY <1>0, <1>3, <2>1, GovernorRests DEF governorVars
  <1>4. CASE OmnichainStep /\ UNCHANGED <<governorVars, docket, home>>
    <2>1. done' = done /\ UNCHANGED docket
      BY <1>4 DEF governorVars, operations
    <2>3. ASSUME NEW m \in path, lzReceive(m) PROVE MessagesInv'
      <3>1. /\ failedMessages' \subseteq failedMessages \cup {m}
        BY <2>3 DEF lzReceive
      <3>2. /\ m \in messages /\ m.from \in Paths
            /\ UNCHANGED <<messages, sent>> /\ delivered' \in [Paths -> Nat]
            /\ \A f \in Paths : delivered[f] <= delivered'[f] /\ delivered'[f] <= sent[f]
            /\ m.nonce <= delivered'[m.from]
        BY <1>0, <2>3, Receives
      <3>3. \A k \in failedMessages' : k.nonce <= delivered'[k.from]
        <4>1. ASSUME NEW k \in failedMessages PROVE k.nonce <= delivered'[k.from]
          <5>1. /\ k.nonce <= delivered[k.from] /\ k.nonce \in Nat /\ k.from \in Paths
                /\ delivered[k.from] \in Nat
            BY <1>0 DEF MessagesInv, Message
          <5>2. delivered'[k.from] \in Nat /\ delivered[k.from] <= delivered'[k.from]
            BY <3>2, <5>1
          <5>q. QED
            BY <5>1, <5>2
        <4>q. QED
          BY <3>1, <3>2, <4>1
      <3>4. failedMessages' \subseteq messages
        BY <1>0, <3>1, <3>2 DEF MessagesInv
      <3>q. QED
        BY <1>0, <2>1, <3>2, <3>3, <3>4, MessagesRest
    <2>4. ASSUME NEW m \in failedMessages, retryMessage(m) PROVE MessagesInv'
      <3>1. /\ UNCHANGED <<messages, sent, delivered>>
            /\ failedMessages' \subseteq failedMessages
        BY <2>4 DEF retryMessage
      <3>2. /\ delivered \in [Paths -> Nat]
            /\ \A f \in Paths : delivered[f] <= delivered[f] /\ delivered[f] <= sent[f]
            /\ failedMessages' \subseteq messages
            /\ \A k \in failedMessages' : k.nonce <= delivered[k.from]
        BY <1>0, <3>1 DEF MessagesInv
      <3>q. QED
        BY <1>0, <2>1, <3>1, <3>2, MessagesRest
    <2>5. ASSUME TaskStep PROVE MessagesInv'
      <3>1. UNCHANGED <<docket, messages, sent, delivered, failedMessages>> /\ done \subseteq done'
        BY <2>1, <2>5, TasksRest
      <3>q. QED
        BY <1>r, <3>1
    <2>q. QED
      BY <1>3, <1>4, <2>3, <2>4, <2>5 DEF OmnichainStep, TaskStep, SystemInv
  <1>5. ASSUME NEW p \in Proposals, executeProposal(p) PROVE SystemInv'
    <2>0. (execute(p) \/ executeAsOwner(p)) /\ UNCHANGED docket
      BY <1>5 DEF executeProposal
    <2>1. GovernorInv'
      BY <1>0, <2>0, ExecuteInv, ExecuteAsOwnerInv
    <2>2. p \notin done /\ done' = done \cup {p}
      BY <1>0, <2>0, ExecuteStep
    <2>3. CASE UNCHANGED omnichainVars
      BY <1>r, <2>0, <2>1, <2>2, <2>3 DEF omnichainVars, SystemInv
    <2>4. CASE send("timelock", p, docket[p]) /\ docket[p].to = "remote"
      <3>1. p \in Origins /\ p # "owner" /\ docket[p] \in Mandates /\ "sender" \in Paths
        BY <1>0, GovernanceAssumption DEF MessagesInv, Paths
      <3>2. sendOn("sender", p, docket[p])
        BY <2>4 DEF send
      <3>3. MessagesInv'
        BY <1>0, <2>0, <2>2, <2>4, <3>1, <3>2, SendInv
      <3>q. QED
        BY <2>1, <3>3 DEF SystemInv
    <2>q. QED
      BY <1>5, <2>3, <2>4 DEF executeProposal
  <1>6. ASSUME NEW p \in Proposals, sendAsOwner(p) \/ sendFromOther(p) PROVE SystemInv'
    <2>1. PICK from \in Paths : sendOn(from, "owner", docket[p])
      BY <1>6 DEF sendAsOwner, sendFromOther, send, Paths
    <2>2. docket[p].to = "remote" /\ UNCHANGED <<governorVars, docket>>
      BY <1>6 DEF sendAsOwner, sendFromOther
    <2>3. "owner" \in Origins /\ docket[p] \in Mandates
      BY <1>0, GovernanceAssumption DEF MessagesInv
    <2>4. done' = done
      BY <2>2 DEF governorVars, operations
    <2>5. MessagesInv'
      BY <1>0, <2>1, <2>2, <2>3, <2>4, SendInv
    <2>q. QED
      BY <1>3, <2>2, <2>5 DEF SystemInv
  <1>7. ASSUME NEW by \in Accounts, NEW c, callHome(by, c) \/ callRemote(by, c)
        PROVE  SystemInv'
    <2>1. /\ UNCHANGED <<governorVars, docket>>
          /\ UNCHANGED <<messages, sent, delivered, failedMessages>>
      BY <1>7 DEF callHome, callRemote, direct, omnichainVars
    <2>2. done' = done
      BY <2>1 DEF governorVars, operations
    <2>q. QED
      BY <1>r, <1>3, <2>1, <2>2 DEF SystemInv
  <1>8. CASE UNCHANGED vars
    <2>1. UNCHANGED <<docket, messages, sent, delivered, failedMessages, done>>
      BY <1>8 DEF vars, governorVars, omnichainVars, operations
    <2>q. QED
      BY <1>r, <1>3, <1>8, <2>1 DEF SystemInv, vars
  <1>q. QED
    BY <1>1, <1>2, <1>4, <1>5, <1>6, <1>7, <1>8 DEF Next

\* Nothing is executed in haste, whatever the voters and the deployer do.
THEOREM GovernanceNothingHasty == Spec => []NothingHasty
  <1>1. SystemInv => NothingHasty
    <2>1. SUFFICES ASSUME SystemInv, NEW p \in Proposals, proposal[p].executed
                   PROVE  /\ voteSucceeded(proposal[p]) /\ quorumReached(proposal[p])
                          /\ p \in ownOps \/ proposal[p].deadline + minDelay < now
      BY DEF NothingHasty
    <2>2. /\ Ripe(p) /\ timestamps[p] \in Nat /\ now \in Nat /\ minDelay \in Nat
          /\ proposal[p].deadline \in Nat
      BY <2>1, GovernorAssumption
         DEF SystemInv, GovernorInv, AllRipe, GovernorTypeOK, ProposalRecord
    <2>3. p \in ownOps \/ proposal[p].deadline + minDelay < timestamps[p]
      BY <2>1, <2>2 DEF Ripe
    <2>4. timestamps[p] <= now /\ Won(p)
      BY <2>1, <2>2 DEF Ripe
    <2>q. QED
      BY <2>2, <2>3, <2>4 DEF Won
  <1>q. QED
    BY SystemInitInv, SystemNextInv, <1>1, PTL DEF Spec

-------------------------------------------------------------------------------
(* The whole implements GovernedSweep. A mandate is named by its proposal, or by *)
(* the path and nonce of the deployer's message, so no two of them are the same. *)

LEMMA Distinct ==
    ASSUME SystemInv
    PROVE  /\ \A p, q \in Proposals : Scheduled(p) = Scheduled(q) => p = q
           /\ \A p \in Proposals, k \in messages :
                 MandateOf(k) = Scheduled(p) => k.by = p /\ p \in done
           /\ \A k, m \in messages : MandateOf(k) = MandateOf(m) => k = m
           /\ \A k \in messages : k.by # "owner" =>
                 /\ k.by \in Proposals /\ k.by \in done
                 /\ MandateOf(k) = Scheduled(k.by)
           /\ \A p \in Proposals : Scheduled(p).id # "owner" /\ Scheduled(p).mandate = docket[p]
           /\ \A k \in messages : MandateOf(k).mandate = k.mandate
  <1>1. \A k \in messages : k.by # "owner" => k.by \in Proposals
    BY GovernanceAssumption DEF SystemInv, MessagesInv, Message
  <1>2. \A p \in Proposals : p # "owner"
    BY GovernanceAssumption
  <1>q. QED
    BY <1>1, <1>2 DEF SystemInv, MessagesInv, MandateOf, Scheduled

InPending(z) ==
    \/ \E p \in Proposals : timestamps[p] # 0 /\ p \notin done /\ z = Scheduled(p)
    \/ \E k \in messages : ~Done(k) /\ z = MandateOf(k)
InCarried(z) ==
    \/ \E p \in Proposals : p \in done /\ docket[p].to = "home" /\ z = Scheduled(p)
    \/ \E k \in messages : Done(k) /\ z = MandateOf(k)

LEMMA Members ==
    ASSUME GovernorInv
    PROVE  /\ \A z : z \in pending <=> InPending(z)
           /\ \A z : z \in carried <=> InCarried(z)
  BY DEF pending, carried, InPending, InCarried, GovernorInv, GovernorTypeOK

LEMMA MembersNext ==
    ASSUME GovernorInv'
    PROVE  /\ \A z : z \in pending' <=> InPending(z)'
           /\ \A z : z \in carried' <=> InCarried(z)'
  BY DEF pending, carried, InPending, InCarried, GovernorInv, GovernorTypeOK

\* The contracts on each chain are the abstract ones.
LEMMA CallSame ==
    ASSUME NEW s, NEW by, NEW c
    PROVE  Governed!Call(s, by, c) = Call(s, by, c)
  BY DEF Call, addMinter, pause, unpause, transferOwnership, approve, Require, fastMultisig,
         Governed!Call, Governed!addMinter, Governed!pause, Governed!unpause,
         Governed!transferOwnership, Governed!approve, Governed!Require, Governed!fastMultisig

LEMMA CallAllSame ==
    ASSUME NEW s, NEW by, NEW calls
    PROVE  Governed!CallAll(s, by, calls) = CallAll(s, by, calls)
  BY DEF CallAll, Governed!CallAll, Call, addMinter, pause, unpause, transferOwnership, approve,
         Require, fastMultisig,
         Governed!Call, Governed!addMinter, Governed!pause, Governed!unpause,
         Governed!transferOwnership, Governed!approve, Governed!Require, Governed!fastMultisig

LEMMA RefinesInit == Init => Governed!Init
  <1>1. SUFFICES ASSUME Init PROVE Governed!Init
    OBVIOUS
  <1>2. sweeps = [c \in DOMAIN Governed!governor |->
                  [owner |-> "owner", minters |-> {}, paused |-> FALSE, approved |-> {}]]
    BY <1>1 DEF Init, OmnichainInit, Governed!governor, sweeps
  <1>3. carried = {} /\ pending = {}
    BY <1>1 DEF Init, OmnichainInit, GovernorInit, carried, pending
  <1>q. QED
    BY <1>2, <1>3 DEF Governed!Init

\* A step that does neither the governor's nor the messages' part moves no mandate.
LEMMA MandatesRest ==
    ASSUME GovernorInv, GovernorInv', UNCHANGED <<docket, messages, done>>,
           \A q \in Proposals : SameFor(q), \A k \in messages : Done(k)' = Done(k)
    PROVE  pending' = pending /\ carried' = carried
  <1>1. \A q \in Proposals : Scheduled(q)' = Scheduled(q)
    BY DEF Scheduled
  <1>2. \A z : InPending(z)' = InPending(z) /\ InCarried(z)' = InCarried(z)
    BY <1>1 DEF InPending, InCarried, SameFor, MandateOf
  <1>q. QED
    BY <1>2, Members, MembersNext

\* A message that is done from now on takes its mandate, and no other, with it.
LEMMA OneDone ==
    ASSUME SystemInv, GovernorInv', UNCHANGED <<governorVars, docket, messages>>,
           NEW m \in messages, ~Done(m), Done(m)',
           \A k \in messages : k # m => Done(k)' = Done(k)
    PROVE  /\ MandateOf(m) \in pending /\ pending' = pending \ {MandateOf(m)}
           /\ carried' = carried \cup {MandateOf(m)}
  <1>0. GovernorInv
    BY DEF SystemInv
  <1>1. \A q \in Proposals : Scheduled(q)' = Scheduled(q)
    BY DEF Scheduled
  <1>2. UNCHANGED <<done, timestamps>>
    BY DEF governorVars, operations
  <1>3. \A z : InCarried(z)' <=> InCarried(z) \/ z = MandateOf(m)
    BY <1>1, <1>2 DEF InCarried, MandateOf
  <1>4. InPending(MandateOf(m))
    BY DEF InPending
  <1>5. \A z : InPending(z)' <=> InPending(z) /\ z # MandateOf(m)
    BY <1>1, <1>2, Distinct DEF InPending, MandateOf
  <1>q. QED
    BY <1>0, <1>3, <1>4, <1>5, Members, MembersNext

LEMMA GovernorRefines ==
    ASSUME SystemInv, GovernorInv', GovernorNext, UNCHANGED <<omnichainVars, docket, home>>
    PROVE  Governed!Decide \/ Governed!Withdraw \/ UNCHANGED <<sweeps, pending, carried>>
  <1>0. /\ GovernorInv /\ docket \in [Proposals -> Mandates]
        /\ UNCHANGED <<messages, docket, delivered, failedMessages, home, remote>>
        /\ done' = done
    BY GovernorSteps DEF SystemInv, MessagesInv, omnichainVars
  <1>1. sweeps' = sweeps
    BY <1>0 DEF sweeps
  <1>2. \A k \in messages : Done(k)' = Done(k)
    BY <1>0 DEF Done
  <1>3. \A q \in Proposals : Scheduled(q)' = Scheduled(q)
    BY <1>0 DEF Scheduled
  <1>r. \A z : InCarried(z)' = InCarried(z)
    BY <1>0, <1>2, <1>3 DEF InCarried, MandateOf
  <1>4. CASE \A q \in Proposals : SameFor(q)
    BY <1>0, <1>1, <1>2, <1>4, MandatesRest
  <1>5. ASSUME NEW p \in Proposals, Decided(p) PROVE Governed!Decide
    <2>1. \A k \in messages : MandateOf(k) # Scheduled(p)
      BY <1>5, Distinct DEF Decided
    <2>2. \A z : InPending(z)' <=> InPending(z) \/ z = Scheduled(p)
      BY <1>0, <1>2, <1>3, <1>5 DEF InPending, Decided, SameForOthers, SameFor, MandateOf
    <2>3. ~InCarried(Scheduled(p)) /\ ~InPending(Scheduled(p))
      BY <1>5, <2>1, Distinct DEF InCarried, InPending, Decided
    <2>4. Scheduled(p) \in [id : Origins, from : Paths, n : Nat, mandate : Mandates]
      BY <1>0, GovernanceAssumption DEF Scheduled, Paths
    <2>5. carried' = carried /\ pending' = pending \cup {Scheduled(p)}
      BY <1>0, <1>r, <2>2, Members, MembersNext
    <2>6. Scheduled(p) \in pending' \ (pending \cup carried)
      BY <1>0, <2>3, <2>5, Members
    <2>q. QED
      BY <1>1, <2>4, <2>5, <2>6 DEF Governed!Decide
  <1>6. ASSUME NEW p \in Proposals, Withdrawn(p) PROVE Governed!Withdraw
    <2>2. \A k \in messages : MandateOf(k) # Scheduled(p)
      BY <1>6, Distinct DEF Withdrawn
    <2>3. \A z : InPending(z)' <=> InPending(z) /\ z # Scheduled(p)
      BY <1>0, <1>2, <1>3, <1>6, <2>2, Distinct
         DEF InPending, Withdrawn, SameForOthers, SameFor, MandateOf
    <2>4. InPending(Scheduled(p))
      BY <1>6 DEF InPending, Withdrawn
    <2>5. carried' = carried /\ pending' = pending \ {Scheduled(p)} /\ Scheduled(p) \in pending
      BY <1>0, <1>r, <2>3, <2>4, Members, MembersNext
    <2>q. QED
      BY <1>1, <2>5 DEF Governed!Withdraw
  <1>q. QED
    BY <1>0, <1>4, <1>5, <1>6, GovernorSteps

\* A delivered message carries out its mandate, or fails and leaves it pending; a
\* retried one carries it out.
LEMMA OmnichainRefines ==
    ASSUME SystemInv, GovernorInv', OmnichainStep, UNCHANGED <<governorVars, docket, home>>
    PROVE  Governed!CarryOut \/ UNCHANGED <<sweeps, pending, carried>>
  <1>0. /\ \A q \in Proposals : SameFor(q)
        /\ done' = done /\ GovernorInv /\ MessagesInv
    BY DEF SameFor, governorVars, operations, SystemInv
  <1>1. ASSUME NEW m \in messages, ~Done(m), Done(m)', UNCHANGED messages,
               \A k \in messages : k # m => Done(k)' = Done(k),
               NEW s \in Carried(m), remote' = s
        PROVE  Governed!CarryOut
    <2>1. /\ MandateOf(m) \in pending /\ pending' = pending \ {MandateOf(m)}
          /\ carried' = carried \cup {MandateOf(m)}
      BY <1>1, OneDone
    <2>5. MandateOf(m).mandate = m.mandate
      BY Distinct
    <2>2. m.mandate.to = "remote"
      BY DEF SystemInv, MessagesInv
    <2>3. sweeps["remote"] = remote /\ sweeps' = [sweeps EXCEPT !["remote"] = s]
      BY <1>1 DEF sweeps
    <2>4. s \in Governed!CallAll(sweeps["remote"], Governed!governor["remote"], m.mandate.calls)
      BY <2>3, <1>1, CallAllSame DEF Carried, Governed!governor
    <2>q. QED
      BY <2>1, <2>2, <2>3, <2>4, <2>5 DEF Governed!CarryOut
  <1>2. ASSUME NEW m \in path, lzReceive(m)
        PROVE  Governed!CarryOut \/ UNCHANGED <<sweeps, pending, carried>>
    <2>1. /\ m \in messages /\ UNCHANGED messages /\ m \notin failedMessages
          /\ \A k \in messages : k # m =>
                (k.nonce <= delivered'[k.from] <=> k.nonce <= delivered[k.from])
          /\ ~(m.nonce <= delivered[m.from]) /\ m.nonce <= delivered'[m.from]
      BY <1>0, <1>2, Receives
    <2>2. ~Done(m)
      BY <2>1 DEF Done
    <2>3. CASE UNCHANGED failedMessages /\ \E s \in Carried(m) : remote' = s
      <3>1. Done(m)' /\ \A k \in messages : k # m => Done(k)' = Done(k)
        BY <2>1, <2>3 DEF Done
      <3>q. QED
        BY <1>1, <2>1, <2>2, <2>3, <3>1
    <2>4. CASE failedMessages' = failedMessages \cup {m} /\ UNCHANGED remote
      <3>1. \A k \in messages : Done(k)' = Done(k)
        BY <2>1, <2>4 DEF Done
      <3>2. sweeps' = sweeps
        BY <2>4 DEF sweeps
      <3>q. QED
        BY <1>0, <2>1, <3>1, <3>2, MandatesRest
    <2>q. QED
      BY <1>2, <2>3, <2>4 DEF lzReceive
  <1>3. ASSUME NEW m \in failedMessages, retryMessage(m)
        PROVE  Governed!CarryOut
    <2>1. /\ m \in messages /\ m.nonce <= delivered[m.from] /\ UNCHANGED <<messages, delivered>>
          /\ failedMessages' = failedMessages \ {m} /\ \E s \in Carried(m) : remote' = s
      BY <1>3 DEF retryMessage, SystemInv, MessagesInv
    <2>2. ~Done(m) /\ Done(m)' /\ \A k \in messages : k # m => Done(k)' = Done(k)
      BY <2>1 DEF Done
    <2>q. QED
      BY <1>1, <2>1, <2>2
  <1>4. CASE TaskStep
    <2>1. UNCHANGED <<messages, delivered, failedMessages, remote>>
      BY <1>4, TasksRest
    <2>2. sweeps' = sweeps /\ \A k \in messages : Done(k)' = Done(k)
      BY <2>1 DEF sweeps, Done
    <2>q. QED
      BY <1>0, <2>1, <2>2, MandatesRest
  <1>q. QED
    BY <1>2, <1>3, <1>4 DEF OmnichainStep, TaskStep

\* At home the timelock's calls are the mandate; across chains the operation hands it
\* on to the message it sends.
LEMMA ExecuteRefines ==
    ASSUME SystemInv, GovernorInv', NEW p \in Proposals, executeProposal(p)
    PROVE  Governed!CarryOut \/ UNCHANGED <<sweeps, pending, carried>>
  <1>e. execute(p) \/ executeAsOwner(p)
    BY DEF executeProposal
  <1>0. /\ GovernorInv /\ docket' = docket
        /\ timestamps[p] # 0 /\ p \notin done
        /\ timestamps' = timestamps /\ done' = done \cup {p}
    BY <1>e, ExecuteStep DEF SystemInv, executeProposal
  <1>1. \A q \in Proposals : Scheduled(q)' = Scheduled(q)
    BY <1>0 DEF Scheduled
  <1>2. \A k \in messages : MandateOf(k) # Scheduled(p)
    BY <1>0, Distinct
  <1>3. InPending(Scheduled(p))
    BY <1>0 DEF InPending
  <1>4. CASE /\ docket[p].to = "home"
             /\ \E s \in CallAll(home, "timelock", docket[p].calls) : home' = s
             /\ UNCHANGED omnichainVars
    <2>1. PICK s \in CallAll(home, "timelock", docket[p].calls) : home' = s
      BY <1>4
    <2>2. UNCHANGED <<messages, delivered, failedMessages, remote>>
      BY <1>4 DEF omnichainVars
    <2>3. \A k \in messages : Done(k)' = Done(k)
      BY <2>2 DEF Done
    <2>4. \A z : InCarried(z)' <=> InCarried(z) \/ z = Scheduled(p)
      BY <1>0, <1>1, <1>4, <2>2, <2>3 DEF InCarried, MandateOf
    <2>5. \A z : InPending(z)' <=> InPending(z) /\ z # Scheduled(p)
      BY <1>0, <1>1, <1>2, <2>2, <2>3, Distinct DEF InPending, MandateOf
    <2>6. /\ carried' = carried \cup {Scheduled(p)} /\ pending' = pending \ {Scheduled(p)}
          /\ Scheduled(p) \in pending
      BY <1>0, <1>3, <2>4, <2>5, Members, MembersNext
    <2>7. sweeps["home"] = home /\ sweeps' = [sweeps EXCEPT !["home"] = s]
      BY <2>1, <2>2 DEF sweeps
    <2>8. s \in Governed!CallAll(sweeps["home"], Governed!governor["home"], docket[p].calls)
      BY <2>1, <2>7, CallAllSame DEF Governed!governor
    <2>9. Scheduled(p).mandate = docket[p]
      BY Distinct
    <2>q. QED
      BY <1>4, <2>6, <2>7, <2>8, <2>9 DEF Governed!CarryOut
  <1>5. CASE docket[p].to = "remote" /\ send("timelock", p, docket[p]) /\ UNCHANGED home
    <2>0. PICK new : new = [from |-> "sender", nonce |-> sent["sender"] + 1, by |-> p,
                            mandate |-> docket[p]]
      OBVIOUS
    <2>1. /\ messages' = messages \cup {new} /\ UNCHANGED <<delivered, failedMessages, remote>>
          /\ sent["sender"] \in Nat /\ delivered["sender"] \in Nat
          /\ delivered["sender"] <= sent["sender"]
          /\ new.by = p /\ p # "owner" /\ new.nonce = sent["sender"] + 1 /\ new.from = "sender"
      BY <1>5, <2>0, GovernanceAssumption DEF send, sendOn, SystemInv, MessagesInv, Paths
    <2>2. MandateOf(new) = Scheduled(p)
      BY <2>0, <2>1 DEF MandateOf, Scheduled
    <2>3. ~Done(new)' /\ \A k \in messages : Done(k)' = Done(k)
      BY <2>1 DEF Done
    <2>4. \A z : InCarried(z)' = InCarried(z)
      BY <1>0, <1>1, <1>5, <2>1, <2>3 DEF InCarried, MandateOf
    <2>5. \A z : InPending(z)' = InPending(z)
      BY <1>0, <1>1, <2>1, <2>2, <2>3 DEF InPending, MandateOf
    <2>6. carried' = carried /\ pending' = pending
      BY <1>0, <2>4, <2>5, Members, MembersNext
    <2>q. QED
      BY <1>5, <2>1, <2>6 DEF sweeps
  <1>q. QED
    BY <1>4, <1>5 DEF executeProposal

LEMMA SendRefines ==
    ASSUME SystemInv, GovernorInv', NEW p \in Proposals, NEW from \in Paths,
           sendOn(from, "owner", docket[p]), UNCHANGED <<governorVars, docket, home>>
    PROVE  Governed!Decide
  <1>n. PICK new : new = [from |-> from, nonce |-> sent[from] + 1, by |-> "owner",
                          mandate |-> docket[p]]
    OBVIOUS
  <1>0. /\ messages' = messages \cup {new}
        /\ UNCHANGED <<delivered, failedMessages, remote, done, timestamps, docket, home>>
        /\ sent[from] \in Nat /\ delivered[from] \in Nat /\ delivered[from] <= sent[from]
        /\ docket[p] \in Mandates /\ GovernorInv
        /\ new.by = "owner" /\ new.nonce = sent[from] + 1 /\ new.from = from
    BY <1>n DEF sendOn, SystemInv, MessagesInv, governorVars, operations
  <1>1. MandateOf(new) =
           [id |-> "owner", from |-> from, n |-> sent[from] + 1, mandate |-> docket[p]]
    BY <1>n DEF MandateOf
  <1>2. MandateOf(new) \in [id : Origins, from : Paths, n : Nat, mandate : Mandates]
    BY <1>0, <1>1, GovernanceAssumption
  <1>3. ~InCarried(MandateOf(new)) /\ ~InPending(MandateOf(new))
    <2>1. \A q \in Proposals : Scheduled(q) # MandateOf(new)
      BY <1>1, Distinct
    <2>2. ASSUME NEW k \in messages PROVE MandateOf(k) # MandateOf(new)
      <3>1. CASE k.by # "owner"
        BY <2>1, <3>1, Distinct
      <3>2. CASE k.by = "owner"
        <4>1. MandateOf(k).n = k.nonce /\ MandateOf(k).from = k.from
          BY <3>2 DEF MandateOf
        <4>2. k.nonce \in 1..sent[k.from]
          BY DEF SystemInv, MessagesInv
        <4>q. QED
          BY <1>0, <1>1, <4>1, <4>2
      <3>q. QED
        BY <3>1, <3>2
    <2>q. QED
      BY <2>1, <2>2 DEF InCarried, InPending
  <1>4. ~Done(new)' /\ \A k \in messages : Done(k)' = Done(k)
    BY <1>0 DEF Done
  <1>5. \A q \in Proposals : Scheduled(q)' = Scheduled(q)
    BY <1>0 DEF Scheduled
  <1>6. \A z : InCarried(z)' = InCarried(z)
    BY <1>0, <1>4, <1>5 DEF InCarried, MandateOf
  <1>7. \A z : InPending(z)' <=> InPending(z) \/ z = MandateOf(new)
    BY <1>0, <1>4, <1>5 DEF InPending, MandateOf
  <1>8. /\ carried' = carried /\ pending' = pending \cup {MandateOf(new)}
        /\ MandateOf(new) \in pending' \ (pending \cup carried)
    BY <1>0, <1>3, <1>6, <1>7, Members, MembersNext
  <1>9. sweeps' = sweeps
    BY <1>0 DEF sweeps
  <1>q. QED
    BY <1>2, <1>8, <1>9 DEF Governed!Decide

\* A call of anybody else has the rights it has, and moves no mandate.
LEMMA CallRefines ==
    ASSUME SystemInv, GovernorInv', NEW by \in Accounts, NEW c \in Calls,
           callHome(by, c) \/ callRemote(by, c)
    PROVE  Governed!CallOfOther
  <1>0. /\ UNCHANGED <<done, timestamps, docket, messages, delivered, failedMessages>>
        /\ GovernorInv
    BY DEF callHome, callRemote, direct, governorVars, omnichainVars, operations, SystemInv
  <1>1. pending' = pending /\ carried' = carried
    BY <1>0, MandatesRest DEF SameFor, Done
  <1>2. c \in Governed!Calls
    BY DEF Calls, Governed!Calls
  <1>3. CASE callHome(by, c)
    <2>1. by # "timelock" /\ UNCHANGED remote
      BY <1>3 DEF callHome, omnichainVars
    <2>2. PICK s \in Call(home, by, c) : home' = s
      BY <1>3 DEF callHome
    <2>3. sweeps["home"] = home /\ sweeps' = [sweeps EXCEPT !["home"] = s]
      BY <2>1, <2>2 DEF sweeps
    <2>4. s \in Governed!Call(sweeps["home"], by, c)
      BY <2>2, <2>3, CallSame
    <2>q. QED
      BY <1>1, <1>2, <2>1, <2>3, <2>4 DEF Governed!CallOfOther, Governed!governor
  <1>4. CASE callRemote(by, c)
    <2>1. by # "executor" /\ UNCHANGED home
      BY <1>4 DEF callRemote, direct
    <2>2. PICK s \in Call(remote, by, c) : remote' = s
      BY <1>4 DEF callRemote, direct
    <2>3. sweeps["remote"] = remote /\ sweeps' = [sweeps EXCEPT !["remote"] = s]
      BY <2>1, <2>2 DEF sweeps
    <2>4. s \in Governed!Call(sweeps["remote"], by, c)
      BY <2>2, <2>3, CallSame
    <2>q. QED
      BY <1>1, <1>2, <2>1, <2>3, <2>4 DEF Governed!CallOfOther, Governed!governor
  <1>q. QED
    BY <1>3, <1>4

LEMMA RefinesNext ==
    SystemInv /\ [Next]_vars => [Governed!Next]_<<sweeps, pending, carried>>
  <1>1. SUFFICES ASSUME SystemInv, [Next]_vars
                 PROVE  Governed!Next \/ UNCHANGED <<sweeps, pending, carried>>
    OBVIOUS
  <1>0. GovernorInv'
    BY <1>1, SystemNextInv DEF SystemInv
  <1>2. CASE GovernorNext /\ UNCHANGED <<omnichainVars, docket, home>>
    BY <1>0, <1>1, <1>2, GovernorRefines DEF Governed!Next
  <1>3. CASE OmnichainStep /\ UNCHANGED <<governorVars, docket, home>>
    BY <1>0, <1>1, <1>3, OmnichainRefines DEF Governed!Next
  <1>4. ASSUME NEW p \in Proposals, executeProposal(p)
        PROVE  Governed!Next \/ UNCHANGED <<sweeps, pending, carried>>
    BY <1>0, <1>1, <1>4, ExecuteRefines DEF Governed!Next
  <1>7. ASSUME NEW p \in Proposals, sendAsOwner(p) \/ sendFromOther(p)
        PROVE  Governed!Next
    <2>1. PICK from \in Paths : sendOn(from, "owner", docket[p])
      BY <1>7 DEF sendAsOwner, sendFromOther, send, Paths
    <2>2. UNCHANGED <<governorVars, docket, home>>
      BY <1>7 DEF sendAsOwner, sendFromOther
    <2>q. QED
      BY <1>0, <1>1, <2>1, <2>2, SendRefines DEF Governed!Next
  <1>5. ASSUME NEW by \in Accounts, NEW c \in HomeCalls \cup RemoteCalls,
               callHome(by, c) \/ callRemote(by, c)
        PROVE  Governed!Next
    <2>1. c \in Calls
      BY GovernanceAssumption
    <2>q. QED
      BY <1>0, <1>1, <1>5, <2>1, CallRefines DEF Governed!Next
  <1>6. CASE UNCHANGED vars
    <2>1. UNCHANGED <<done, timestamps, docket, messages, delivered, failedMessages,
                      home, remote>>
      BY <1>6 DEF vars, governorVars, omnichainVars, operations
    <2>q. QED
      BY <2>1 DEF sweeps, carried, pending, Scheduled, MandateOf, Done
  <1>q. QED
    BY <1>1, <1>2, <1>3, <1>4, <1>5, <1>6, <1>7 DEF Next

\* Governance of two chains is governance: each mandate is carried out at most once,
\* whole, by the governor of its chain, for any proposals, messages and delays.
THEOREM GovernanceRefines == Spec => ImplementsGovernedSweep
  BY SystemInitInv, SystemNextInv, RefinesInit, RefinesNext, PTL
     DEF Spec, ImplementsGovernedSweep, Governed!Spec

-------------------------------------------------------------------------------
(* Every call leaves a SWEEP contract in a storage of its type *)

LEMMA CallTyped ==
    ASSUME NEW s \in SweepStorage, NEW by, NEW c \in Calls
    PROVE  Call(s, by, c) \subseteq SweepStorage
  <1>1. CASE c.fn = "addMinter"
    BY <1>1 DEF Calls, Call, SweepStorage, addMinter, Require
  <1>2. CASE c.fn = "pause" 
    BY <1>2 DEF Calls, Call, SweepStorage, pause, Require
  <1>3. CASE c.fn = "unpause" 
    BY <1>3 DEF Calls, Call, SweepStorage, unpause, Require
  <1>4. CASE c.fn = "transferOwnership" 
    BY <1>4 DEF Calls, Call, SweepStorage, transferOwnership, Require
  <1>5. CASE c.fn = "approve" 
    BY <1>5 DEF Calls, Call, SweepStorage, approve
  <1>q. QED
    BY <1>1, <1>2, <1>3, <1>4, <1>5 DEF Calls

\* CallAll is defined by recursion on the number of calls made. That there is such
\* a function, and what it holds, is shown by the least number it would fail at.
AfterUpTo(n, s, by, calls, f) ==
    f = [i \in 0..n |->
           IF i = 0 THEN {s} ELSE UNION {Call(t, by, calls[i]) : t \in f[i - 1]}]

LEMMA AfterExists ==
    ASSUME NEW s, NEW by, NEW calls \in Seq(Calls)
    PROVE  \E f : AfterUpTo(Len(calls), s, by, calls, f)
  <1> DEFINE Missing == {n \in Nat : ~\E f : AfterUpTo(n, s, by, calls, f)}
  <1>1. SUFFICES ASSUME Missing # {} PROVE FALSE
    BY Len(calls) \in Nat
  <1>2. PICK n \in Missing : \A m \in Missing : n <= m
    BY <1>1, LeastNatural
  <1>3. CASE n = 0
    <2>1. AfterUpTo(0, s, by, calls, [i \in 0..0 |-> {s}])
      BY DEF AfterUpTo
    <2>q. QED
      BY <1>2, <1>3, <2>1
  <1>4. CASE n # 0
    <2>1. n - 1 \in Nat /\ n - 1 \notin Missing /\ n \in Nat
      BY <1>2, <1>4
    <2>2. PICK f : AfterUpTo(n - 1, s, by, calls, f)
      BY <2>1
    <2> DEFINE g == [i \in 0..n |-> IF i < n THEN f[i]
                                   ELSE UNION {Call(t, by, calls[n]) : t \in f[n - 1]}]
    <2>3. /\ \A i \in 0..n - 1 : g[i] = f[i]
          /\ g[n] = UNION {Call(t, by, calls[n]) : t \in f[n - 1]}
          /\ g = [i \in 0..n |-> g[i]]
      BY <2>1
    <2> HIDE DEF g
    <2>4. ASSUME NEW i \in 0..n
          PROVE  g[i] = IF i = 0 THEN {s} ELSE UNION {Call(t, by, calls[i]) : t \in g[i - 1]}
      <3>1. CASE i < n
        <4>1. i \in 0..n - 1 /\ (i # 0 => i - 1 \in 0..n - 1)
          BY <2>1, <3>1
        <4>2. f[i] = IF i = 0 THEN {s} ELSE UNION {Call(t, by, calls[i]) : t \in f[i - 1]}
          BY <2>2, <4>1 DEF AfterUpTo
        <4>q. QED
          BY <2>3, <4>1, <4>2
      <3>2. CASE i = n
        <4>0. n - 1 \in 0..n - 1
          BY <2>1
        <4>1. g[n - 1] = f[n - 1]
          BY <2>3, <4>0
        <4>2. g[n] = UNION {Call(t, by, calls[n]) : t \in g[n - 1]}
          BY <2>3, <4>1
        <4>q. QED
          BY <1>4, <3>2, <4>2, Zenon
      <3>q. QED
        BY <2>1, <3>1, <3>2
    <2>5. AfterUpTo(n, s, by, calls, g)
      BY <2>3, <2>4 DEF AfterUpTo
    <2>q. QED
      BY <1>2, <2>5
  <1>q. QED
    BY <1>3, <1>4

LEMMA CallAllTyped ==
    ASSUME NEW s \in SweepStorage, NEW by, NEW calls \in Seq(Calls)
    PROVE  CallAll(s, by, calls) \subseteq SweepStorage
  <1>1. PICK f : AfterUpTo(Len(calls), s, by, calls, f)
    BY AfterExists
  <1>2. PICK g : AfterUpTo(Len(calls), s, by, calls, g) /\ CallAll(s, by, calls) = g[Len(calls)]
    BY <1>1 DEF CallAll, AfterUpTo
  <1> DEFINE Bad == {i \in 0..Len(calls) : ~(g[i] \subseteq SweepStorage)}
  <1>3. SUFFICES ASSUME Bad # {} PROVE FALSE
    <2>1. Len(calls) \in 0..Len(calls)
      BY Len(calls) \in Nat
    <2>2. SUFFICES ASSUME Bad = {} PROVE g[Len(calls)] \subseteq SweepStorage
      BY <1>2
    <2>q. QED
      BY <2>1, <2>2
  <1>4. PICK i \in Bad : \A j \in Bad : i <= j
    <2>1. Bad \subseteq Nat
      OBVIOUS
    <2>q. QED
      BY <1>3, <2>1, LeastNatural
  <1>5. g[i] = IF i = 0 THEN {s} ELSE UNION {Call(t, by, calls[i]) : t \in g[i - 1]}
    <2>1. \A j \in 0..Len(calls) :
             g[j] = IF j = 0 THEN {s} ELSE UNION {Call(t, by, calls[j]) : t \in g[j - 1]}
      BY <1>2, Zenon DEF AfterUpTo
    <2>q. QED
      BY <1>4, <2>1
  <1>6. i # 0
    BY <1>4, <1>5
  <1>7. i - 1 \in 0..Len(calls) /\ i \in 1..Len(calls)
    BY <1>6
  <1>8. g[i - 1] \subseteq SweepStorage /\ calls[i] \in Calls
    BY <1>4, <1>7
  <1>9. \A t \in g[i - 1] : Call(t, by, calls[i]) \subseteq SweepStorage
    BY <1>8, CallTyped
  <1>q. QED
    BY <1>4, <1>5, <1>6, <1>9

SystemTypeInv ==
    /\ senderOwner \in {"owner", "timelock"} /\ senderTrusts \in BOOLEAN
    /\ executorOwner \in {"owner", "executor"} /\ executorTrusts \in Paths \cup {"none"}
    /\ docket \in Dockets /\ home \in SweepStorage /\ remote \in SweepStorage
    /\ granted \in 0..3 /\ admin \in BOOLEAN /\ own \subseteq {"PROPOSER", "EXECUTOR"}
    /\ lastPower \in [Voters -> Nat]

LEMMA SystemTypeInitInv == Init => SystemTypeInv
  <1>1. SUFFICES ASSUME Init PROVE SystemTypeInv
    OBVIOUS
  <1>2. [owner |-> "owner", minters |-> {}, paused |-> FALSE, approved |-> {}] \in SweepStorage
    BY GovernanceAssumption DEF SweepStorage
  <1>3. /\ granted = 0 /\ lastPower = InitialPower /\ docket \in Dockets
        /\ home = [owner |-> "owner", minters |-> {}, paused |-> FALSE, approved |-> {}]
        /\ remote = [owner |-> "owner", minters |-> {}, paused |-> FALSE, approved |-> {}]
        /\ senderOwner = "owner" /\ senderTrusts = FALSE
        /\ executorOwner = "owner" /\ executorTrusts = "none" /\ admin = TRUE /\ own = {}
    BY <1>1 DEF Init, OmnichainInit, GovernorInit
  <1>4. home \in SweepStorage /\ remote \in SweepStorage
    BY <1>2, <1>3
  <1>5. granted \in 0..3 /\ lastPower \in [Voters -> Nat]
    BY <1>3, GovernorAssumption
  <1>q. QED
    BY <1>3, <1>4, <1>5 DEF SystemTypeInv

LEMMA SystemTypeNextInv == SystemInv /\ SystemTypeInv /\ [Next]_vars => SystemTypeInv'
  <1>1. SUFFICES ASSUME SystemInv, SystemTypeInv, [Next]_vars PROVE SystemTypeInv'
    OBVIOUS
  <1>0. /\ \A m \in Mandates : m.calls \in Seq(Calls)
        /\ \A p \in Proposals : docket[p] \in Mandates
        /\ \A m \in messages : m.mandate \in Mandates
        /\ failedMessages \subseteq messages /\ path \subseteq messages
        /\ power \in [Voters -> Nat]
    BY <1>1, GovernanceAssumption
       DEF SystemInv, MessagesInv, Message, path, GovernorInv, GovernorTypeOK
  <1>2. CASE GovernorNext /\ UNCHANGED <<omnichainVars, docket, home>>
    <2>1. UNCHANGED <<senderOwner, senderTrusts, executorOwner, executorTrusts, remote,
                      docket, home>>
      BY <1>2 DEF omnichainVars, senderVars, executorVars
    <2>2. /\ granted \in 0..3 /\ admin \in BOOLEAN /\ own \subseteq {"PROPOSER", "EXECUTOR"}
          /\ lastPower \in [Voters -> Nat]
      BY <1>1 DEF SystemTypeInv
    <2>3. /\ granted' \in 0..3 /\ admin' \in BOOLEAN /\ own' \subseteq {"PROPOSER", "EXECUTOR"}
          /\ lastPower' \in [Voters -> Nat]
      <3>1. CASE grantRole
        <4>1. /\ granted < 3 /\ granted' = granted + 1
              /\ UNCHANGED <<lastPower, admin, own>>
          BY <3>1 DEF grantRole
        <4>q. QED
          BY <2>2, <4>1
      <3>2. CASE Tick
        BY <1>0, <2>2, <3>2 DEF Tick, roles
      <3>3. CASE UNCHANGED <<roles, lastPower>>
        BY <2>2, <3>3 DEF roles
      <3>4. ASSUME NEW p \in Proposals, NEW v \in Voters,
                   \/ propose(p, v)
                   \/ \E support \in {"for", "against", "abstain"} : castVote(p, v, support)
            PROVE  UNCHANGED <<roles, lastPower>>
        BY <3>4 DEF propose, castVote
      <3>5. ASSUME NEW p \in Proposals,
                   queue(p) \/ cancel(p) \/ cancelInTimelock(p) \/ scheduleAsOwner(p)
            PROVE  UNCHANGED <<roles, lastPower>>
        BY <3>5 DEF queue, cancel, cancelInTimelock, scheduleAsOwner
      <3>6. ASSUME NEW v \in Voters, NEW w \in Voters, transfer(v, w) \/ sendFrom(v) \/ creditTo(v)
            PROVE  UNCHANGED <<roles, lastPower>>
        BY <3>6 DEF transfer, sendFrom, creditTo
      <3>7. CASE renounceAdmin
        BY <2>2, <3>7 DEF renounceAdmin
      <3>8. ASSUME NEW role \in {"PROPOSER", "EXECUTOR"}, grantOwn(role) \/ renounceOwn(role)
            PROVE  /\ granted' = granted /\ admin' = admin /\ lastPower' = lastPower
                   /\ own' \subseteq {"PROPOSER", "EXECUTOR"}
        BY <2>2, <3>8 DEF grantOwn, renounceOwn
      <3>q. QED
        BY <1>2, <2>2, <3>1, <3>2, <3>3, <3>4, <3>5, <3>6, <3>7, <3>8 DEF GovernorNext
    <2>q. QED
      BY <1>1, <2>1, <2>2, <2>3 DEF SystemTypeInv
  <1>3. ASSUME UNCHANGED <<governorVars, docket, home>>
        PROVE  UNCHANGED <<granted, admin, own, lastPower, docket, home>>
    BY <1>3 DEF governorVars, roles
  <1>4. CASE OmnichainStep /\ UNCHANGED <<governorVars, docket, home>>
    <2>1. ASSUME NEW m \in messages, NEW s \in Carried(m), remote' = s
          PROVE  remote' \in SweepStorage
      BY <1>0, <1>1, <2>1, CallAllTyped DEF Carried, SystemTypeInv
    <2>2. ASSUME NEW m \in path, lzReceive(m) PROVE SystemTypeInv'
      <3>1. UNCHANGED <<senderOwner, senderTrusts, executorOwner, executorTrusts>>
        BY <2>2 DEF lzReceive, senderVars, executorVars
      <3>2. remote' \in SweepStorage
        BY <1>0, <1>1, <2>1, <2>2 DEF lzReceive, SystemTypeInv
      <3>q. QED
        BY <1>1, <1>3, <1>4, <3>1, <3>2 DEF SystemTypeInv
    <2>3. ASSUME NEW m \in failedMessages, retryMessage(m) PROVE SystemTypeInv'
      <3>1. UNCHANGED <<senderOwner, senderTrusts, executorOwner, executorTrusts>>
        BY <2>3 DEF retryMessage, senderVars, executorVars
      <3>2. remote' \in SweepStorage
        BY <1>0, <2>1, <2>3 DEF retryMessage
      <3>q. QED
        BY <1>1, <1>3, <1>4, <3>1, <3>2 DEF SystemTypeInv
    <2>4. CASE TaskStep
      <3>1. /\ senderOwner' \in {"owner", "timelock"} /\ senderTrusts' \in BOOLEAN
            /\ executorOwner' \in {"owner", "executor"} /\ executorTrusts' \in Paths \cup {"none"}
        BY <1>1, <2>4
           DEF SystemTypeInv, TaskStep, setSenderTrustedRemote, setExecutorTrustedRemote,
               setSenderTransferOwnership, setExecutorTransferOwnership, senderVars, executorVars
      <3>q. QED
        BY <1>1, <1>3, <1>4, <2>4, <3>1, TasksRest DEF SystemTypeInv
    <2>q. QED
      BY <1>4, <2>2, <2>3, <2>4 DEF OmnichainStep, TaskStep
  <1>5. ASSUME NEW p \in Proposals, executeProposal(p) PROVE SystemTypeInv'
    <2>1. UNCHANGED <<granted, admin, own, lastPower, docket>>
      BY <1>5 DEF executeProposal, execute, executeAsOwner, roles
    <2>2. UNCHANGED <<senderOwner, senderTrusts, executorOwner, executorTrusts, remote>>
      BY <1>5 DEF executeProposal, send, sendOn, omnichainVars, senderVars, executorVars
    <2>3. home' \in SweepStorage
      BY <1>0, <1>1, <1>5, CallAllTyped DEF executeProposal, SystemTypeInv
    <2>q. QED
      BY <1>1, <2>1, <2>2, <2>3 DEF SystemTypeInv
  <1>6. ASSUME NEW p \in Proposals, sendAsOwner(p) \/ sendFromOther(p) PROVE SystemTypeInv'
    <2>1. UNCHANGED <<governorVars, docket, home>>
      BY <1>6 DEF sendAsOwner, sendFromOther
    <2>2. UNCHANGED <<senderOwner, senderTrusts, executorOwner, executorTrusts, remote>>
      BY <1>6 DEF sendAsOwner, sendFromOther, send, sendOn, senderVars, executorVars
    <2>q. QED
      BY <1>1, <1>3, <2>1, <2>2 DEF SystemTypeInv
  <1>7. ASSUME NEW by \in Accounts, NEW c \in HomeCalls \cup RemoteCalls,
               callHome(by, c) \/ callRemote(by, c)
        PROVE  SystemTypeInv'
    <2>1. /\ UNCHANGED <<granted, admin, own, lastPower, docket>>
          /\ UNCHANGED <<senderOwner, senderTrusts, executorOwner, executorTrusts>>
      BY <1>7 DEF callHome, callRemote, direct, governorVars, omnichainVars, senderVars,
                  executorVars, roles
    <2>2. c \in Calls
      BY GovernanceAssumption
    <2>3. Call(home, by, c) \subseteq SweepStorage /\ Call(remote, by, c) \subseteq SweepStorage
      BY <1>1, <2>2, CallTyped DEF SystemTypeInv
    <2>4. home' \in SweepStorage /\ remote' \in SweepStorage
      BY <1>1, <1>7, <2>3 DEF callHome, callRemote, direct, omnichainVars, SystemTypeInv
    <2>q. QED
      BY <1>1, <2>1, <2>4 DEF SystemTypeInv
  <1>8. CASE UNCHANGED vars
    BY <1>1, <1>8 DEF vars, governorVars, omnichainVars, senderVars, executorVars, roles,
                      SystemTypeInv
  <1>q. QED
    BY <1>1, <1>2, <1>4, <1>5, <1>6, <1>7, <1>8 DEF Next

\* Every variable keeps its type, the storage of both SWEEP contracts included,
\* whatever is proposed, sent, fails and is retried.
THEOREM GovernanceTypeOK == Spec => []TypeOK
  <1>1. SystemInv /\ SystemTypeInv => TypeOK
    BY DEF SystemInv, GovernorInv, GovernorTypeOK, MessagesInv, SystemTypeInv, TypeOK,
           OmnichainTypeOK
  <1>q. QED
    BY SystemInitInv, SystemNextInv, SystemTypeInitInv, SystemTypeNextInv, <1>1, PTL DEF Spec

\* Who is not SWEEP's owner changes neither its owner nor its minters.
LEMMA CallOfNobody ==
    ASSUME NEW s \in SweepStorage, NEW by, by # s.owner, NEW c \in Calls, NEW t \in Call(s, by, c)
    PROVE  t.owner = s.owner /\ t.minters = s.minters
  <1>1. CASE c.fn = "addMinter"
    BY <1>1 DEF Calls, Call, addMinter, Require
  <1>2. CASE c.fn = "pause"
    BY <1>2 DEF Calls, Call, SweepStorage, pause, Require
  <1>3. CASE c.fn = "unpause"
    BY <1>3 DEF Calls, Call, SweepStorage, unpause, Require
  <1>4. CASE c.fn = "transferOwnership"
    BY <1>4 DEF Calls, Call, transferOwnership, Require
  <1>5. CASE c.fn = "approve"
    BY <1>5 DEF Calls, Call, SweepStorage, approve
  <1>q. QED
    BY <1>1, <1>2, <1>3, <1>4, <1>5 DEF Calls

Undue == {m \in messages : (m.from = "sender" \/ m \in failedMessages) /\ ~Done(m)}

\* Nothing of the hand-over can be taken back but by what governs SWEEP.
LEMMA HandedOverStays ==
    ASSUME HandedOver,
           UNCHANGED <<senderOwner, executorOwner, executorTrusts, admin, own>>,
           home'.owner = home.owner, remote'.owner = remote.owner,
           \A q \in Proposals : proposal[q].executed => proposal'[q].executed,
           \A m \in messages' : m.by = "owner" \/ m.by \in Proposals,
           \A m \in Undue' : m \in Undue \/ (m.by # "owner" /\ proposal'[m.by].executed)
    PROVE  HandedOver'
  BY DEF HandedOver, Undue, Unvoted

\* Once everything is handed over, only a vote changes who owns SWEEP and who mints it,
\* and it stays handed over.
THEOREM GovernanceVotedOnly == Spec => VotedOnly
  <1> DEFINE SameOwners == <<home.owner, remote.owner>>' = <<home.owner, remote.owner>>
             Voted1 ==
        HandedOver =>
        /\ <<home.owner, remote.owner>>' = <<home.owner, remote.owner>> => HandedOver'
        /\ <<home.owner, home.minters>>' # <<home.owner, home.minters>> =>
              \E p \in Proposals : docket[p].to = "home" /\ state(p)' = "executed"
                    /\ ~proposal[p].executed
        /\ <<remote.owner, remote.minters>>' # <<remote.owner, remote.minters>> =>
              \E m \in messages : ~Done(m) /\ Done(m)' /\ proposal[m.by].executed
  <1>1. SystemInv /\ SystemTypeInv /\ [Next]_vars => [Voted1]_vars
    <2>1. SUFFICES ASSUME SystemInv, SystemTypeInv, Next, HandedOver
                   PROVE  Voted1
      OBVIOUS
    <2>2. ASSUME UNCHANGED <<home, remote>>, HandedOver' PROVE Voted1
      BY <2>2
    <2>3. /\ senderOwner = "timelock" /\ home.owner = "timelock" /\ remote.owner = "executor"
          /\ executorOwner = "executor" /\ executorTrusts = "sender" /\ ~admin /\ own = {}
      BY <2>1 DEF HandedOver
    <2>4. /\ GovernorInv /\ MessagesInv
          /\ \A m \in messages : m.by = "owner" \/ m.by \in Proposals
      BY <2>1, GovernanceAssumption DEF SystemInv, MessagesInv, Message
    <2>a. \A m \in Undue : m.by \in Proposals /\ proposal[m.by].executed
      BY <2>1, <2>4 DEF HandedOver, Unvoted, Undue
    <2>5. CASE OmnichainStep /\ UNCHANGED <<governorVars, docket, home>>
      <3>0. UNCHANGED <<proposal, admin, own>>
        BY <2>5 DEF governorVars, roles
      <3>1. ASSUME NEW m \in path, lzReceive(m) PROVE Voted1
        <4>1. /\ m \in messages /\ m \notin failedMessages /\ UNCHANGED messages
              /\ executorTrusts = m.from
              /\ \A k \in messages : k # m =>
                    (k.nonce <= delivered'[k.from] <=> k.nonce <= delivered[k.from])
              /\ ~(m.nonce <= delivered[m.from]) /\ m.nonce <= delivered'[m.from]
          BY <2>4, <3>1, Receives
        <4>2. ~Done(m) /\ m \in Undue
          BY <2>3, <4>1 DEF Done, Undue
        <4>3. UNCHANGED <<senderOwner, executorOwner, executorTrusts>>
              /\ failedMessages' \subseteq failedMessages \cup {m}
          BY <3>1 DEF lzReceive, senderVars, executorVars
        <4>4. \A k \in Undue' : k \in Undue
          BY <4>1, <4>2, <4>3 DEF Undue, Done
        <4>5. SameOwners => HandedOver'
          BY <2>1, <2>4, <2>5, <3>0, <4>1, <4>3, <4>4, HandedOverStays
        <4>6. UNCHANGED failedMessages \/ UNCHANGED remote
          BY <3>1 DEF lzReceive
        <4>7. UNCHANGED failedMessages => Done(m)'
          BY <4>1 DEF Done
        <4>8. proposal[m.by].executed
          BY <2>a, <4>2
        <4>q. QED
          BY <2>5, <4>1, <4>2, <4>5, <4>6, <4>7, <4>8
      <3>2. ASSUME NEW m \in failedMessages, retryMessage(m) PROVE Voted1
        <4>1. /\ m \in messages /\ m.nonce <= delivered[m.from]
              /\ UNCHANGED <<messages, delivered, senderOwner, executorOwner, executorTrusts>>
              /\ failedMessages' = failedMessages \ {m}
          BY <2>4, <3>2 DEF retryMessage, MessagesInv, senderVars, executorVars
        <4>2. ~Done(m) /\ Done(m)' /\ m \in Undue
          BY <3>2, <4>1 DEF Done, Undue
        <4>3. \A k \in Undue' : k \in Undue
          BY <4>1 DEF Undue, Done
        <4>4. SameOwners => HandedOver'
          BY <2>1, <2>4, <2>5, <3>0, <4>1, <4>3, HandedOverStays
        <4>5. proposal[m.by].executed
          BY <2>a, <4>2
        <4>q. QED
          BY <2>5, <4>1, <4>2, <4>4, <4>5
      <3>3. CASE TaskStep
        <4>1. UNCHANGED <<senderOwner, executorVars, messages, delivered, failedMessages, remote>>
          BY <2>3, <3>3 DEF TaskStep, setSenderTrustedRemote, setExecutorTrustedRemote,
                      setSenderTransferOwnership, setExecutorTransferOwnership
        <4>2. HandedOver'
          BY <2>1, <2>5, <3>0, <4>1 DEF HandedOver, Unvoted, Done, executorVars
        <4>q. QED
          BY <2>2, <2>5, <4>1, <4>2
      <3>q. QED
        BY <2>5, <3>1, <3>2, <3>3 DEF OmnichainStep, TaskStep
    <2>6. CASE GovernorNext /\ UNCHANGED <<omnichainVars, docket, home>>
      <3>1. UNCHANGED <<senderOwner, executorOwner, executorTrusts, messages, delivered,
                        failedMessages, remote>>
        BY <2>6 DEF omnichainVars, senderVars, executorVars
      <3>2. \A q \in Proposals : proposal[q].executed => proposal'[q].executed
        BY <2>4, <2>6, ExecutedRests
      <3>3. Undue' = Undue
        BY <3>1 DEF Undue, Done
      <3>4. UNCHANGED <<admin, own>>
        BY <2>3, <2>6, RolesStay
      <3>5. HandedOver'
        BY <2>1, <2>4, <2>6, <3>1, <3>2, <3>3, <3>4, HandedOverStays
      <3>q. QED
        BY <2>2, <2>6, <3>1, <3>5
    <2>7. ASSUME NEW p \in Proposals, executeProposal(p) PROVE Voted1
      <3>0. execute(p)
        BY <2>3, <2>7 DEF executeProposal, executeAsOwner
      <3>1. /\ ~proposal[p].executed /\ proposal'[p].executed /\ proposal'[p].created
            /\ \A q \in Proposals : proposal[q].executed => proposal'[q].executed
        BY <2>4, <3>0, ExecuteWon
      <3>3. state(p)' = "executed"
        BY <3>1 DEF state
      <3>4. UNCHANGED <<remote, senderOwner, executorOwner, executorTrusts, delivered,
                        failedMessages>>
        BY <2>7 DEF executeProposal, send, sendOn, omnichainVars, senderVars, executorVars
      <3>5. docket[p].to = "home" \/ UNCHANGED home
        BY <2>7 DEF executeProposal
      <3>6. UNCHANGED <<admin, own>> /\ p # "owner"
        BY <3>0, GovernanceAssumption DEF execute, roles
      <3>7. \A m \in messages' : m \in messages \/ m.by = p
        BY <2>7 DEF executeProposal, send, sendOn, omnichainVars
      <3>8. \A m \in Undue' : m \in Undue \/ m.by = p
        BY <3>4, <3>7 DEF Undue, Done
      <3>9. SameOwners => HandedOver'
        BY <2>1, <2>4, <3>1, <3>4, <3>6, <3>7, <3>8, HandedOverStays
      <3>q. QED
        BY <3>1, <3>3, <3>4, <3>5, <3>9
    <2>8. ASSUME NEW p \in Proposals, sendAsOwner(p) PROVE Voted1
      BY <2>3, <2>8 DEF sendAsOwner, send
    <2>b. ASSUME NEW p \in Proposals, sendFromOther(p) PROVE Voted1
      <3>n. PICK new : new = [from |-> "other", nonce |-> sent["other"] + 1, by |-> "owner",
                              mandate |-> docket[p]]
        OBVIOUS
      <3>1. /\ messages' = messages \cup {new} /\ new.from = "other" /\ new.by = "owner"
            /\ new.nonce = sent["other"] + 1
            /\ UNCHANGED <<senderOwner, executorOwner, executorTrusts, delivered, failedMessages,
                           remote, home>>
            /\ UNCHANGED <<proposal, admin, own>>
        BY <2>b, <3>n DEF sendFromOther, sendOn, governorVars, roles, senderVars, executorVars
      <3>2. new \notin failedMessages
        <4>1. /\ delivered["other"] <= sent["other"] /\ sent["other"] \in Nat
              /\ delivered["other"] \in Nat
              /\ \A k \in failedMessages : k.nonce <= delivered[k.from]
          BY <2>4 DEF MessagesInv, Paths
        <4>q. QED
          BY <3>1, <4>1
      <3>3. \A m \in Undue' : m \in Undue
        BY <3>1, <3>2 DEF Undue, Done
      <3>4. HandedOver'
        BY <2>1, <2>4, <3>1, <3>3, HandedOverStays
      <3>q. QED
        BY <2>2, <3>1, <3>4
    <2>9. ASSUME NEW by \in Accounts, NEW c \in HomeCalls \cup RemoteCalls,
                 callHome(by, c) \/ callRemote(by, c)
          PROVE  Voted1
      <3>1. c \in Calls /\ home \in SweepStorage /\ remote \in SweepStorage
        BY <2>1, GovernanceAssumption DEF SystemTypeInv
      <3>0. /\ UNCHANGED <<senderVars, executorVars, messages, delivered, failedMessages>>
            /\ UNCHANGED <<proposal, admin, own>>
        BY <2>9 DEF callHome, callRemote, direct, governorVars, omnichainVars, roles
      <3>2. CASE callHome(by, c)
        <4>1. home'.owner = home.owner /\ home'.minters = home.minters /\ UNCHANGED remote
          BY <2>3, <3>1, <3>2, CallOfNobody DEF callHome, omnichainVars
        <4>2. HandedOver'
          BY <2>1, <3>0, <4>1 DEF HandedOver, Unvoted, Done, senderVars, executorVars
        <4>q. QED
          BY <4>1, <4>2
      <3>3. CASE callRemote(by, c)
        <4>1. remote'.owner = remote.owner /\ remote'.minters = remote.minters /\ UNCHANGED home
          BY <2>3, <3>1, <3>3, CallOfNobody DEF callRemote, direct
        <4>2. HandedOver'
          BY <2>1, <3>0, <4>1 DEF HandedOver, Unvoted, Done, senderVars, executorVars
        <4>q. QED
          BY <4>1, <4>2
      <3>q. QED
        BY <2>9, <3>2, <3>3
    <2>q. QED
      BY <2>1, <2>5, <2>6, <2>7, <2>8, <2>9, <2>b DEF Next
  <1>q. QED
    BY SystemInitInv, SystemNextInv, SystemTypeInitInv, SystemTypeNextInv, <1>1, PTL
       DEF Spec, VotedOnly

-------------------------------------------------------------------------------
(* The tally *)

Counted(p, support) ==
    [v \in Voters |-> IF proposal[p].ballot[v] = support THEN proposal[p].held[v] ELSE 0]

\* No ballot is cast before the snapshot is taken, so it never changes under one.
TallyOf(p) ==
    /\ proposal[p].for = SumOf(Counted(p, "for"))
    /\ proposal[p].against = SumOf(Counted(p, "against"))
    /\ SumOf(proposal[p].held) <= SumOf(InitialPower)
    /\ ~proposal[p].created \/ now <= proposal[p].snapshot =>
          \A v \in Voters : proposal[p].ballot[v] = "none"

TallyInv ==
    /\ SumOf(power) + SumOf(abroad) = SumOf(InitialPower)
    /\ \A p \in Proposals : TallyOf(p)

LEMMA PowerSums ==
    ASSUME NEW f \in [Voters -> Nat]
    PROVE  SumOf(f) \in Nat
  BY GovernorAssumption, SumNat

LEMMA TallyInitInv == Init => TallyInv
  <1>1. SUFFICES ASSUME GovernorInit PROVE TallyInv
    BY DEF Init
  <1>2. NoPower \in [Voters -> Int] /\ SumOf(NoPower) = 0
    BY GovernorAssumption, SumZero DEF NoPower
  <1>3. SumOf(InitialPower) \in Nat
    BY GovernorAssumption, PowerSums
  <1>4. ASSUME NEW p \in Proposals PROVE TallyOf(p)
    <2>1. proposal[p] = NoProposal
      BY <1>1 DEF GovernorInit
    <2>2. Counted(p, "for") = NoPower /\ Counted(p, "against") = NoPower
      BY <2>1 DEF Counted, NoProposal, NoPower
    <2>q. QED
      BY <1>2, <1>3, <2>1, <2>2 DEF TallyOf, NoProposal
  <1>5. power = InitialPower /\ abroad = NoPower
    BY <1>1 DEF GovernorInit
  <1>q. QED
    BY <1>2, <1>3, <1>4, <1>5 DEF TallyInv

\* What a tally depends on.
SameTally(p) ==
    /\ proposal'[p].for = proposal[p].for /\ proposal'[p].against = proposal[p].against
    /\ proposal'[p].held = proposal[p].held /\ proposal'[p].ballot = proposal[p].ballot

LEMMA TallyRests ==
    ASSUME NEW p \in Proposals, TallyOf(p), SameTally(p),
           ~proposal'[p].created \/ now' <= proposal'[p].snapshot =>
               ~proposal[p].created \/ now <= proposal[p].snapshot
    PROVE  TallyOf(p)'
  <1>1. Counted(p, "for")' = Counted(p, "for") /\ Counted(p, "against")' = Counted(p, "against")
    BY DEF Counted, SameTally
  <1>q. QED
    BY <1>1 DEF TallyOf, SameTally

\* SWEEPR is moved, not made.
LEMMA MovesKeepSum ==
    ASSUME GovernorInv, TallyInv, NEW v \in Voters, NEW w \in Voters,
           transfer(v, w) \/ sendFrom(v) \/ creditTo(v)
    PROVE  SumOf(power') + SumOf(abroad') = SumOf(InitialPower)
  <1>0. /\ power \in [Voters -> Nat] /\ abroad \in [Voters -> Nat] /\ IsFiniteSet(Voters)
        /\ SumOf(power) \in Nat /\ SumOf(abroad) \in Nat
        /\ SumOf(power) + SumOf(abroad) = SumOf(InitialPower)
    BY GovernorAssumption, PowerSums DEF GovernorInv, GovernorTypeOK, TallyInv
  <1>1. CASE transfer(v, w)
    <2> DEFINE between == [power EXCEPT ![v] = 0]
    <2>1. v # w /\ abroad' = abroad /\ power' = [between EXCEPT ![w] = power[w] + power[v]]
      BY <1>0, <1>1 DEF transfer
    <2>2. between \in [Voters -> Int] /\ power' \in [Voters -> Int] /\ power \in [Voters -> Int]
      BY <1>0, <2>1
    <2>3. between[v] = 0 /\ between[w] = power[w] /\ power'[w] = power[w] + power[v]
      BY <1>0, <2>1
    <2>4. SumOf(between) = SumOf(power) - power[v] + 0
      <3>1. \A y \in Voters : y # v => between[y] = power[y]
        BY <1>0
      <3> HIDE DEF between
      <3>q. QED
        BY <1>0, <2>2, <2>3, <3>1, SumChange
    <2>5. SumOf(power') = SumOf(between) - between[w] + power'[w]
      <3>1. \A y \in Voters : y # w => power'[y] = between[y]
        BY <1>0, <2>1
      <3> HIDE DEF between
      <3>q. QED
        BY <1>0, <2>2, <3>1, SumChange
    <2>6. power[v] \in Nat /\ power[w] \in Nat
      BY <1>0
    <2>q. QED
      BY <1>0, <2>1, <2>3, <2>4, <2>5, <2>6
  <1>2. ASSUME NEW x \in Int,
               /\ power' = [power EXCEPT ![v] = power[v] - x]
               /\ abroad' = [abroad EXCEPT ![v] = abroad[v] + x]
        PROVE  SumOf(power') + SumOf(abroad') = SumOf(InitialPower)
    <2>1. /\ power' \in [Voters -> Int] /\ abroad' \in [Voters -> Int]
          /\ power \in [Voters -> Int] /\ abroad \in [Voters -> Int]
      BY <1>0, <1>2
    <2>2. power'[v] = power[v] - x /\ abroad'[v] = abroad[v] + x
      BY <1>0, <1>2
    <2>3. SumOf(power') = SumOf(power) - power[v] + power'[v]
      <3>1. \A y \in Voters : y # v => power'[y] = power[y]
        BY <1>0, <1>2
      <3>q. QED
        BY <1>0, <2>1, <3>1, SumChange
    <2>4. SumOf(abroad') = SumOf(abroad) - abroad[v] + abroad'[v]
      <3>1. \A y \in Voters : y # v => abroad'[y] = abroad[y]
        BY <1>0, <1>2
      <3>q. QED
        BY <1>0, <2>1, <3>1, SumChange
    <2>5. power[v] \in Nat /\ abroad[v] \in Nat
      BY <1>0
    <2>q. QED
      BY <1>0, <2>2, <2>3, <2>4, <2>5
  <1>3. CASE sendFrom(v)
    <2>1. power[v] \in Int /\ power[v] - power[v] = 0
      BY <1>0
    <2>q. QED
      BY <1>0, <1>2, <1>3, <2>1 DEF sendFrom
  <1>4. CASE creditTo(v)
    <2>1. /\ 0 - abroad[v] \in Int /\ power[v] - (0 - abroad[v]) = power[v] + abroad[v]
          /\ abroad[v] + (0 - abroad[v]) = 0
      BY <1>0
    <2>q. QED
      BY <1>0, <1>2, <1>4, <2>1 DEF creditTo
  <1>q. QED
    BY <1>1, <1>3, <1>4

\* A ballot adds what its voter held at the snapshot to one side.
LEMMA CastVoteTally ==
    ASSUME GovernorInv, TallyInv, NEW p \in Proposals, NEW v \in Voters,
           NEW support \in {"for", "against", "abstain"}, castVote(p, v, support)
    PROVE  TallyOf(p)'
  <1> DEFINE held == proposal[p].held
             side(s) == IF s = "for" THEN proposal[p].for ELSE proposal[p].against
             side1(s) == IF s = "for" THEN proposal'[p].for ELSE proposal'[p].against
  <1>0. /\ proposal \in [Proposals -> ProposalRecord] /\ held \in [Voters -> Nat]
        /\ proposal[p].ballot \in [Voters -> {"none", "for", "against", "abstain"}]
        /\ proposal[p].for \in Nat /\ proposal[p].against \in Nat /\ now \in Nat
        /\ proposal[p].snapshot \in Nat /\ IsFiniteSet(Voters) /\ TallyOf(p)
    BY GovernorAssumption DEF GovernorInv, GovernorTypeOK, ProposalRecord, TallyInv
  <1>1. /\ proposal[p].ballot[v] = "none" /\ proposal[p].created /\ ~(now <= proposal[p].snapshot)
        /\ now' = now
    BY <1>0 DEF castVote, state
  <1>2. /\ proposal'[p].held = held /\ proposal'[p].created
        /\ proposal'[p].snapshot = proposal[p].snapshot
        /\ proposal'[p].ballot = [proposal[p].ballot EXCEPT ![v] = support]
        /\ proposal'[p].for = IF support = "for" THEN proposal[p].for + held[v]
                              ELSE proposal[p].for
        /\ proposal'[p].against = IF support = "against" THEN proposal[p].against + held[v]
                                  ELSE proposal[p].against
    <2>1. proposal'[p] = [proposal[p] EXCEPT
             !.ballot[v] = support,
             !.for = IF support = "for" THEN @ + held[v] ELSE @,
             !.against = IF support = "against" THEN @ + held[v] ELSE @,
             !.abstain = IF support = "abstain" THEN @ + held[v] ELSE @]
      BY <1>0 DEF castVote
    <2>2. proposal[p] \in ProposalRecord
      BY <1>0
    <2>q. QED
      BY <1>1, <2>1, <2>2 DEF ProposalRecord
  <1>3. ASSUME NEW s \in {"for", "against"}
        PROVE  SumOf(Counted(p, s)') = IF support = s THEN SumOf(Counted(p, s)) + held[v]
                                       ELSE SumOf(Counted(p, s))
    <2>1. /\ Counted(p, s) = [w \in Voters |-> IF proposal[p].ballot[w] = s THEN held[w] ELSE 0]
          /\ Counted(p, s)' = [w \in Voters |-> IF proposal'[p].ballot[w] = s THEN held[w] ELSE 0]
      BY <1>2 DEF Counted
    <2>2. \A w \in Voters : w # v => proposal'[p].ballot[w] = proposal[p].ballot[w]
      BY <1>0, <1>2
    <2>3. proposal'[p].ballot[v] = support
      BY <1>0, <1>2
    <2>4. /\ Counted(p, s) \in [Voters -> Int] /\ Counted(p, s)' \in [Voters -> Int]
          /\ \A w \in Voters : w # v => Counted(p, s)'[w] = Counted(p, s)[w]
          /\ Counted(p, s)[v] = 0 /\ Counted(p, s)'[v] = IF support = s THEN held[v] ELSE 0
      BY <1>0, <1>1, <2>1, <2>2, <2>3
    <2>5. SumOf(Counted(p, s)') = SumOf(Counted(p, s)) - Counted(p, s)[v] + Counted(p, s)'[v]
      BY <1>0, <2>4, SumChange
    <2>6. SumOf(Counted(p, s)) \in Int /\ held[v] \in Int
      BY <1>0, <2>4, SumInt
    <2>q. QED
      BY <2>4, <2>5, <2>6
  <1>4. /\ proposal[p].for = SumOf(Counted(p, "for"))
        /\ proposal[p].against = SumOf(Counted(p, "against"))
        /\ SumOf(held) <= SumOf(InitialPower)
    BY <1>0 DEF TallyOf
  <1>5. /\ proposal'[p].for = SumOf(Counted(p, "for")')
        /\ proposal'[p].against = SumOf(Counted(p, "against")')
    BY <1>2, <1>3, <1>4
  <1>q. QED
    BY <1>1, <1>2, <1>4, <1>5 DEF TallyOf

LEMMA TickTally ==
    ASSUME GovernorInv, TallyInv, Tick, NEW p \in Proposals
    PROVE  TallyOf(p)'
  <1>0. /\ proposal \in [Proposals -> ProposalRecord] /\ proposal[p] \in ProposalRecord
        /\ now \in Nat /\ now' = now + 1 /\ TallyOf(p)
        /\ power \in [Voters -> Nat] /\ abroad \in [Voters -> Nat]
    BY DEF GovernorInv, GovernorTypeOK, TallyInv, Tick
  <1>1. CASE ~(proposal[p].created /\ proposal[p].snapshot = now)
    <2>1. proposal'[p] = proposal[p]
      BY <1>1 DEF Tick
    <2>2. proposal[p].snapshot \in Nat
      BY <1>0 DEF ProposalRecord
    <2>3. now' <= proposal[p].snapshot => now <= proposal[p].snapshot
      BY <1>0, <2>2
    <2>q. QED
      BY <1>0, <2>1, <2>3, TallyRests DEF SameTally
  <1>2. CASE proposal[p].created /\ proposal[p].snapshot = now
    <2>1. proposal'[p] = [proposal[p] EXCEPT !.held = power]
      BY <1>2 DEF Tick
    <2>2. /\ proposal'[p].held = power /\ proposal'[p].ballot = proposal[p].ballot
          /\ proposal'[p].for = proposal[p].for /\ proposal'[p].against = proposal[p].against
      BY <1>0, <2>1 DEF ProposalRecord
    <2>3. \A v \in Voters : proposal[p].ballot[v] = "none"
      BY <1>0, <1>2 DEF TallyOf
    <2>4. /\ Counted(p, "for")' = Counted(p, "for")
          /\ Counted(p, "against")' = Counted(p, "against")
      BY <2>2, <2>3 DEF Counted
    <2>5. SumOf(power) <= SumOf(InitialPower)
      <3>1. SumOf(power) \in Nat /\ SumOf(abroad) \in Nat
        BY <1>0, PowerSums
      <3>q. QED
        BY <3>1 DEF TallyInv
    <2>q. QED
      BY <1>0, <2>2, <2>3, <2>4, <2>5 DEF TallyOf
  <1>q. QED
    BY <1>1, <1>2

\* Every other step changes neither a vote nor its snapshot.
LEMMA OthersTally ==
    ASSUME GovernorInv, TallyInv, NEW q \in Proposals, NEW p \in Proposals,
           \/ \E v \in Voters : propose(q, v)
           \/ \E v \in Voters, s \in {"for", "against", "abstain"} : castVote(q, v, s) /\ p # q
           \/ queue(q) \/ cancel(q) \/ execute(q)
    PROVE  TallyOf(p)' /\ UNCHANGED <<power, abroad>>
  <1>0. /\ proposal \in [Proposals -> ProposalRecord] /\ proposal[p] \in ProposalRecord
        /\ proposal[q] \in ProposalRecord /\ TallyOf(p)
    BY DEF GovernorInv, GovernorTypeOK, TallyInv
  <1>1. UNCHANGED <<now, power, abroad>>
    BY DEF propose, castVote, queue, cancel, execute
  <1>2. CASE p # q
    <2>1. proposal'[p] = proposal[p]
      BY <1>0, <1>2 DEF propose, castVote, queue, cancel, execute
    <2>q. QED
      BY <1>0, <1>1, <2>1, TallyRests DEF SameTally
  <1>3. CASE p = q
    <2>1. CASE \E v \in Voters : propose(q, v)
      <3>1. ~proposal[p].created
        BY <1>3, <2>1, StateSays DEF propose
      <3>2. SameTally(p)
        BY <1>0, <1>3, <2>1 DEF propose, SameTally, ProposalRecord
      <3>q. QED
        BY <1>0, <1>1, <3>1, <3>2, TallyRests
    <2>2. CASE queue(q) \/ cancel(q) \/ execute(q)
      <3>1. /\ SameTally(p) /\ proposal'[p].created = proposal[p].created
            /\ proposal'[p].snapshot = proposal[p].snapshot
        BY <1>0, <1>3, <2>2 DEF queue, cancel, execute, SameTally, ProposalRecord
      <3>q. QED
        BY <1>0, <1>1, <3>1, TallyRests
    <2>q. QED
      BY <1>3, <2>1, <2>2
  <1>q. QED
    BY <1>1, <1>2, <1>3

LEMMA TallyNextInv == SystemInv /\ TallyInv /\ [Next]_vars => TallyInv'
  <1>1. SUFFICES ASSUME SystemInv, TallyInv, [Next]_vars PROVE TallyInv'
    OBVIOUS
  <1>0. /\ GovernorInv /\ SumOf(power) + SumOf(abroad) = SumOf(InitialPower)
        /\ \A p \in Proposals : TallyOf(p)
    BY <1>1 DEF SystemInv, TallyInv
  <1>2. CASE UNCHANGED <<now, proposal, power, abroad>>
    BY <1>0, <1>2, TallyRests DEF TallyInv, SameTally
  <1>3. CASE UNCHANGED <<now, proposal>> /\ (\E v, w \in Voters : transfer(v, w) \/ sendFrom(v) \/ creditTo(v))
    BY <1>0, <1>1, <1>3, TallyRests, MovesKeepSum DEF TallyInv, SameTally
  <1>4. CASE Tick
    BY <1>0, <1>1, <1>4, TickTally DEF TallyInv, Tick
  <1>5. ASSUME NEW q \in Proposals,
               \/ \E v \in Voters : propose(q, v)
               \/ queue(q) \/ cancel(q) \/ execute(q)
        PROVE  TallyInv'
    BY <1>0, <1>1, <1>5, OthersTally DEF TallyInv
  <1>6. ASSUME NEW q \in Proposals, NEW v \in Voters, NEW s \in {"for", "against", "abstain"},
               castVote(q, v, s)
        PROVE  TallyInv'
    <2>1. \A p \in Proposals : TallyOf(p)'
      BY <1>0, <1>1, <1>6, OthersTally, CastVoteTally
    <2>2. UNCHANGED <<power, abroad>>
      BY <1>6 DEF castVote
    <2>q. QED
      BY <1>0, <2>1, <2>2 DEF TallyInv
  <1>7. CASE GovernorNext /\ UNCHANGED <<omnichainVars, docket, home>>
    <2>1. ASSUME NEW v \in Voters, NEW w \in Voters, transfer(v, w) \/ sendFrom(v) \/ creditTo(v)
          PROVE  UNCHANGED <<now, proposal>>
      BY <2>1 DEF transfer, sendFrom, creditTo
    <2>2. CASE RoleStep
      BY <1>2, <2>2, RoleRests
    <2>3. ASSUME NEW p \in Proposals, cancelInTimelock(p) \/ scheduleAsOwner(p) PROVE TallyInv'
      BY <1>2, <2>3 DEF cancelInTimelock, scheduleAsOwner
    <2>q. QED
      BY <1>3, <1>4, <1>5, <1>6, <1>7, <2>1, <2>2, <2>3 DEF GovernorNext, RoleStep
  <1>8. ASSUME UNCHANGED governorVars PROVE TallyInv'
    BY <1>2, <1>8 DEF governorVars
  <1>9. ASSUME NEW p \in Proposals, executeProposal(p) PROVE TallyInv'
    <2>1. CASE executeAsOwner(p)
      BY <1>2, <2>1 DEF executeAsOwner
    <2>q. QED
      BY <1>5, <1>9, <2>1 DEF executeProposal
  <1>10. ASSUME NEW p \in Proposals, sendAsOwner(p) \/ sendFromOther(p) PROVE TallyInv'
    BY <1>8, <1>10 DEF sendAsOwner, sendFromOther
  <1>11. ASSUME NEW by \in Accounts, NEW c, callHome(by, c) \/ callRemote(by, c) PROVE TallyInv'
    BY <1>8, <1>11 DEF callHome, callRemote
  <1>12. CASE UNCHANGED vars
    BY <1>8, <1>12 DEF vars
  <1>q. QED
    BY <1>1, <1>7, <1>8, <1>9, <1>10, <1>11, <1>12 DEF Next

\* No SWEEPR counts twice, and none that was not there at the snapshot, for any
\* voters, however SWEEPR moves between them and between chains.
THEOREM GovernanceTallyRight == Spec => []TallyRight
  <1>1. TallyInv => TallyRight
    BY DEF TallyInv, TallyOf, TallyRight, Voted, Counted
  <1>q. QED
    BY SystemInitInv, SystemNextInv, TallyInitInv, TallyNextInv, <1>1, PTL DEF Spec
=============================================================================

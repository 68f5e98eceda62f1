-------------------------------- MODULE Governor -------------------------------
(***************************************************************************)
(* SweeprGovernor and the TimelockController it schedules with, on the     *)
(* governance chain, and the SWEEPR that votes. The contracts of           *)
(* OpenZeppelin under them are external: a proposal is voted on with the   *)
(* power held at the end of its snapshot block, waits in the timelock once *)
(* it is queued, and never expires there.                                  *)
(***************************************************************************)
EXTENDS Sums, FiniteSets

CONSTANTS Voters,             \* holders of SWEEPR, each its own delegate
          InitialPower,       \* their SWEEPR
          Proposals,          \* the proposals that may be made
          votingDelay, votingPeriod, proposalThreshold, votesQuorum,
          minDelay,           \* of the timelock
          MaxTime             \* bound: the blocks of a behaviour

ASSUME GovernorAssumption ==
    /\ IsFiniteSet(Voters) /\ InitialPower \in [Voters -> Nat]
    /\ {votingDelay, votingPeriod, proposalThreshold, votesQuorum, minDelay, MaxTime}
           \subseteq Nat

VARIABLES now,                \* block number and block time, as one clock
          power,              \* SWEEPR held on this chain
          abroad,             \* SWEEPR bridged to other chains
          lastPower,          \* power at the end of the last block
          proposal,           \* per proposal, what the governor stores
          timestamps,         \* per proposal, when the timelock's operation is ready
          done,               \* those whose operation the timelock has executed
          ownOps,             \* history: those whose operation the deployer scheduled
          granted,            \* how many grants of deploy_7 have been made
          admin,              \* the deployer is the timelock's admin
          own                 \* the roles it has given itself, or accounts it chose

operations == <<timestamps, done, ownOps>>
roles == <<granted, admin, own>>
governorVars == <<now, power, abroad, lastPower, proposal, operations, roles>>

NoPower == [v \in Voters |-> 0]

NoProposal ==
    [created |-> FALSE, snapshot |-> 0, deadline |-> 0, held |-> NoPower,
     ballot |-> [v \in Voters |-> "none"], for |-> 0, against |-> 0, abstain |-> 0,
     queued |-> FALSE, executed |-> FALSE, canceled |-> FALSE]

GovernorInit ==
    /\ now = 1
    /\ power = InitialPower /\ abroad = NoPower /\ lastPower = InitialPower
    /\ proposal = [p \in Proposals |-> NoProposal]
    /\ timestamps = [p \in Proposals |-> 0] /\ done = {} /\ ownOps = {}
    /\ granted = 0 /\ admin = TRUE /\ own = {}

-------------------------------------------------------------------------------
(* deploy_5 leaves a timelock nobody may propose to or execute on, with the    *)
(* deployer as its admin; deploy_7 makes the governor, then three grants, each *)
(* a transaction of its own.  No script ends the admin's role.                 *)

grants == <<"PROPOSER", "EXECUTOR", "CANCELLER">>
hasRole(role) == \E i \in 1..granted : grants[i] = role

\* PROPOSER and EXECUTOR go to the governor, CANCELLER goes to the deployer.
grantRole ==
    /\ admin /\ granted < 3 /\ granted' = granted + 1
    /\ UNCHANGED <<now, power, abroad, lastPower, proposal, operations, admin, own>>

\* What the admin may do besides, by hand: take a role itself, give it up again, and
\* give up being admin.
grantOwn(role) ==
    /\ admin /\ role \notin own /\ own' = own \cup {role}
    /\ UNCHANGED <<now, power, abroad, lastPower, proposal, operations, granted, admin>>

renounceOwn(role) ==
    /\ role \in own /\ own' = own \ {role}
    /\ UNCHANGED <<now, power, abroad, lastPower, proposal, operations, granted, admin>>

renounceAdmin ==
    /\ admin /\ admin' = FALSE
    /\ UNCHANGED <<now, power, abroad, lastPower, proposal, operations, granted, own>>

-------------------------------------------------------------------------------
quorumReached(q) == q.for + q.abstain >= (votesQuorum * SumOf(q.held)) \div 100
voteSucceeded(q) == q.for > q.against

\* GovernorTimelockControl.state: of a queued proposal whose operation the timelock
\* has dropped, canceled; of one whose operation somebody else executed, executed.
state(p) ==
    LET q == proposal[p]
    IN  CASE ~q.created -> "unknown"
          [] q.created /\ q.executed -> "executed"
          [] q.created /\ ~q.executed /\ q.canceled -> "canceled"
          [] q.created /\ ~q.executed /\ ~q.canceled ->
             IF now <= q.snapshot THEN "pending"
             ELSE IF now <= q.deadline THEN "active"
             ELSE IF ~(quorumReached(q) /\ voteSucceeded(q)) THEN "defeated"
             ELSE IF ~q.queued THEN "succeeded"
             ELSE IF p \in done THEN "executed"
             ELSE IF timestamps[p] = 0 THEN "canceled" ELSE "queued"

propose(p, by) ==
    /\ lastPower[by] >= proposalThreshold
    /\ state(p) = "unknown"
    /\ proposal' = [proposal EXCEPT ![p].created = TRUE, ![p].snapshot = now + votingDelay,
                                    ![p].deadline = now + votingDelay + votingPeriod]
    /\ UNCHANGED <<now, power, abroad, lastPower, operations, roles>>

\* Mutant: counts what the voter holds now.
castVoteWithCurrent(p, by, support) ==
    /\ state(p) = "active"
    /\ proposal[p].ballot[by] = "none"
    /\ LET weight == power[by] IN
       proposal' = [proposal EXCEPT
           ![p].ballot[by] = support,
           ![p].for = IF support = "for" THEN @ + weight ELSE @,
           ![p].against = IF support = "against" THEN @ + weight ELSE @,
           ![p].abstain = IF support = "abstain" THEN @ + weight ELSE @]
    /\ UNCHANGED <<now, power, abroad, lastPower, operations, roles>>

\* Counts what the voter held at the snapshot, wherever it is by now.
castVote(p, by, support) ==
    /\ state(p) = "active"
    /\ proposal[p].ballot[by] = "none"
    /\ LET weight == proposal[p].held[by] IN
       proposal' = [proposal EXCEPT
           ![p].ballot[by] = support,
           ![p].for = IF support = "for" THEN @ + weight ELSE @,
           ![p].against = IF support = "against" THEN @ + weight ELSE @,
           ![p].abstain = IF support = "abstain" THEN @ + weight ELSE @]
    /\ UNCHANGED <<now, power, abroad, lastPower, operations, roles>>

\* Anybody, through the governor, which must be the timelock's proposer. The timelock
\* takes no operation twice.
queue(p) ==
    /\ state(p) = "succeeded" /\ hasRole("PROPOSER")
    /\ timestamps[p] = 0
    /\ proposal' = [proposal EXCEPT ![p].queued = TRUE]
    /\ timestamps' = [timestamps EXCEPT ![p] = now + minDelay]
    /\ UNCHANGED <<now, power, abroad, lastPower, done, ownOps, roles>>

\* The deployer schedules the operation of a proposal itself, which is known by its
\* calls: whether the proposal is made, and how its vote goes, is not asked.
scheduleAsOwner(p) ==
    /\ "PROPOSER" \in own /\ timestamps[p] = 0
    /\ timestamps' = [timestamps EXCEPT ![p] = now + minDelay]
    /\ ownOps' = ownOps \cup {p}
    /\ UNCHANGED <<now, power, abroad, lastPower, proposal, done, roles>>

\* The timelock executes an operation that is ready, once.
perform(p) ==
    /\ timestamps[p] # 0 /\ timestamps[p] <= now /\ p \notin done
    /\ done' = done \cup {p}
    /\ UNCHANGED <<timestamps, ownOps>>

\* Mutant: queued is taken for ready.
executeEarly(p) ==
    /\ state(p) \in {"succeeded", "queued"} /\ hasRole("EXECUTOR")
    /\ timestamps[p] # 0 /\ p \notin done
    /\ done' = done \cup {p}
    /\ proposal' = [proposal EXCEPT ![p].executed = TRUE]
    /\ UNCHANGED <<now, power, abroad, lastPower, timestamps, ownOps, roles>>

\* Anybody, when the timelock's operation is ready; the calls it makes are the
\* composition's, which makes this a step only when none of them reverts.
execute(p) ==
    /\ state(p) \in {"succeeded", "queued"} /\ hasRole("EXECUTOR")
    /\ perform(p)
    /\ proposal' = [proposal EXCEPT ![p].executed = TRUE]
    /\ UNCHANGED <<now, power, abroad, lastPower, roles>>

\* The deployer executes on the timelock itself, with a role of its own.
executeAsOwner(p) ==
    /\ "EXECUTOR" \in own
    /\ perform(p)
    /\ UNCHANGED <<now, power, abroad, lastPower, proposal, roles>>

\* Only the canceller, the deployer. Of a queued proposal the governor asks the
\* timelock to drop the operation, for which it never got the role: this reverts.
cancel(p) ==
    /\ state(p) \in {"pending", "active", "defeated", "succeeded"}
    /\ proposal' = [proposal EXCEPT ![p].canceled = TRUE]
    /\ UNCHANGED <<now, power, abroad, lastPower, operations, roles>>

\* What the deployer can do instead, with a role of its own.
cancelInTimelock(p) ==
    /\ hasRole("CANCELLER")
    /\ timestamps[p] # 0 /\ p \notin done
    /\ timestamps' = [timestamps EXCEPT ![p] = 0]
    /\ UNCHANGED <<now, power, abroad, lastPower, proposal, done, ownOps, roles>>

-------------------------------------------------------------------------------
(* SWEEPR moves at any time, also within the block a snapshot is taken in *)

transfer(from, to) ==
    /\ from # to /\ power[from] > 0
    /\ power' = [power EXCEPT ![from] = 0, ![to] = @ + power[from]]
    /\ UNCHANGED <<now, abroad, lastPower, proposal, operations, roles>>

\* OFT: burned here; what is abroad has no vote.
sendFrom(from) ==
    /\ power[from] > 0
    /\ power' = [power EXCEPT ![from] = 0]
    /\ abroad' = [abroad EXCEPT ![from] = @ + power[from]]
    /\ UNCHANGED <<now, lastPower, proposal, operations, roles>>

creditTo(from) ==
    /\ abroad[from] > 0
    /\ power' = [power EXCEPT ![from] = @ + abroad[from]]
    /\ abroad' = [abroad EXCEPT ![from] = 0]
    /\ UNCHANGED <<now, lastPower, proposal, operations, roles>>

\* The block ends; the snapshots of this block are what is held now.
Tick ==
    /\ now < MaxTime
    /\ now' = now + 1 /\ lastPower' = power
    /\ proposal' = [p \in Proposals |->
          IF proposal[p].created /\ proposal[p].snapshot = now
          THEN [proposal[p] EXCEPT !.held = power] ELSE proposal[p]]
    /\ UNCHANGED <<power, abroad, operations, roles>>

\* Everything but what the timelock executes.
GovernorNext ==
    \/ grantRole \/ renounceAdmin \/ Tick
    \/ \E role \in {"PROPOSER", "EXECUTOR"} : grantOwn(role) \/ renounceOwn(role)
    \/ \E p \in Proposals : scheduleAsOwner(p)
    \/ \E p \in Proposals, v \in Voters :
          \/ propose(p, v)
          \/ \E support \in {"for", "against", "abstain"} : castVote(p, v, support)
    \/ \E p \in Proposals : queue(p) \/ cancel(p) \/ cancelInTimelock(p)
    \/ \E v, w \in Voters : transfer(v, w)
    \/ \E v \in Voters : sendFrom(v) \/ creditTo(v)
===============================================================================

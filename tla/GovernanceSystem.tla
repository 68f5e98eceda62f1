---------------------------- MODULE GovernanceSystem ---------------------------
(***************************************************************************)
(* SweeprGovernor, its timelock and SWEEP on the governance chain, joined  *)
(* with SWEEP on another chain by the omnichain sender and executor. A     *)
(* proposal is one of the scripts' calls on SWEEP, or a call of the sender *)
(* with a payload a task has encoded.                                      *)
(***************************************************************************)
EXTENDS Governor, OmnichainGovernance

CONSTANTS Dockets,         \* what the proposals may be: functions to Mandates
          HomeCalls, RemoteCalls,     \* those SWEEP's owner or multisig makes itself
          MaxSent          \* bound: messages sent

ASSUME GovernanceAssumption ==
    /\ Mandates \subseteq [to : {"home", "remote"}, calls : Seq(Calls)]
    /\ Dockets \subseteq [Proposals -> Mandates]
    /\ Origins = Proposals \cup {"owner"} /\ "owner" \notin Proposals
    /\ HomeCalls \subseteq Calls /\ RemoteCalls \subseteq Calls
    /\ "owner" \in Accounts /\ MaxSent \in Nat

VARIABLES docket,          \* what this behaviour's proposals are
          home             \* SWEEP on the governance chain

vars == <<governorVars, omnichainVars, docket, home>>

Init ==
    /\ GovernorInit /\ OmnichainInit
    /\ docket \in Dockets
    /\ home = [owner |-> "owner", minters |-> {}, paused |-> FALSE, approved |-> {}]

\* The timelock calls SWEEP, or the sender; a call that reverts reverts it all, and
\* the operation stays scheduled. Through the governor, or by the deployer with a role
\* of its own.
executeProposal(p) ==
    /\ execute(p) \/ executeAsOwner(p)
    /\ \/ /\ docket[p].to = "home"
          /\ \E s \in CallAll(home, "timelock", docket[p].calls) : home' = s
          /\ UNCHANGED omnichainVars
       \/ /\ docket[p].to = "remote"
          /\ sent["sender"] < MaxSent /\ send("timelock", p, docket[p])
          /\ UNCHANGED home
    /\ UNCHANGED docket

\* Before the hand-over the deployer may send what it likes.
sendAsOwner(p) ==
    /\ docket[p].to = "remote"
    /\ sent["sender"] < MaxSent /\ send("owner", "owner", docket[p])
    /\ UNCHANGED <<governorVars, docket, home>>

\* And its other contract at any time; it is of use while the executor trusts it.
sendFromOther(p) ==
    /\ docket[p].to = "remote"
    /\ sent["other"] < MaxSent /\ sendOn("other", "owner", docket[p])
    /\ UNCHANGED <<governorVars, docket, home>>

callHome(by, c) ==
    /\ by # "timelock"
    /\ \E s \in Call(home, by, c) : home' = s
    /\ UNCHANGED <<governorVars, omnichainVars, docket>>

callRemote(by, c) == direct(by, c) /\ UNCHANGED <<governorVars, docket, home>>

Next ==
    \/ GovernorNext /\ UNCHANGED <<omnichainVars, docket, home>>
    \/ OmnichainStep /\ UNCHANGED <<governorVars, docket, home>>
    \/ \E p \in Proposals : executeProposal(p) \/ sendAsOwner(p) \/ sendFromOther(p)
    \/ \E by \in Accounts, c \in HomeCalls : callHome(by, c)
    \/ \E by \in Accounts, c \in RemoteCalls : callRemote(by, c)

Spec == Init /\ [][Next]_vars

Delivers(from) ==
    \E m \in path : m.from = from /\ lzReceive(m) /\ UNCHANGED <<governorVars, docket, home>>

\* LayerZero's relayer delivers, on each path, what the receiver does not refuse.
Fairness == \A from \in Paths : WF_vars(Delivers(from))

FairSpec == Spec /\ Fairness

-------------------------------------------------------------------------------
(* Properties *)

TypeOK ==
    /\ OmnichainTypeOK
    /\ docket \in Dockets /\ home \in SweepStorage
    /\ now \in Nat /\ granted \in 0..3 /\ admin \in BOOLEAN
    /\ own \subseteq {"PROPOSER", "EXECUTOR"} /\ ownOps \subseteq Proposals
    /\ power \in [Voters -> Nat] /\ abroad \in [Voters -> Nat] /\ lastPower \in [Voters -> Nat]
    /\ timestamps \in [Proposals -> Nat] /\ done \subseteq Proposals

\* What voters held at the snapshot of a proposal and voted so.
Voted(p, support) ==
    SumOf([v \in Voters |-> IF proposal[p].ballot[v] = support THEN proposal[p].held[v] ELSE 0])

\* No SWEEPR votes twice, however it moves between holders and chains while a vote
\* is open: the tally is what each voter held at the snapshot, once.
TallyRight ==
    \A p \in Proposals :
        /\ proposal[p].for = Voted(p, "for")
        /\ proposal[p].against = Voted(p, "against")
        /\ SumOf(proposal[p].held) <= SumOf(InitialPower)

\* Nothing is done in haste: when the governor has executed a proposal, its vote was
\* won with a quorum, and minDelay has passed since the vote, whoever voted, queued,
\* executed and cancelled what in between. Only of an operation the deployer scheduled
\* itself may minDelay run during the vote.
NothingHasty ==
    \A p \in Proposals : proposal[p].executed =>
        /\ voteSucceeded(proposal[p]) /\ quorumReached(proposal[p])
        /\ p \in ownOps \/ proposal[p].deadline + minDelay < now

Done(m) == m.nonce <= delivered[m.from] /\ m \notin failedMessages

\* Sender, executor and both SWEEP are owned by governance, the executor trusts the
\* sender, the deployer is no admin of the timelock and has kept no role, and no message
\* is left, on the sender's path or stored, that it sent or had the timelock send.
Unvoted(m) == m.by = "owner" \/ ~proposal[m.by].executed
HandedOver ==
    /\ senderOwner = "timelock" /\ home.owner = "timelock" /\ remote.owner = "executor"
    /\ executorOwner = "executor" /\ executorTrusts = "sender"
    /\ ~admin /\ own = {}
    /\ \A m \in messages :
          (m.from = "sender" \/ m \in failedMessages) /\ Unvoted(m) => Done(m)

\* Once everything is handed over, whoever owns SWEEP and who mints it change only
\* by a proposal for that chain that has won its vote, on either chain, also when
\* its message failed and was retried; and the deployer can undo none of it. The
\* scripts alone do not get there: none of them ends the deployer's admin role.
VotedOnly ==
    [][HandedOver =>
        /\ <<home.owner, remote.owner>>' = <<home.owner, remote.owner>> => HandedOver'
        /\ <<home.owner, home.minters>>' # <<home.owner, home.minters>> =>
              \E p \in Proposals : docket[p].to = "home" /\ state(p)' = "executed"
                    /\ ~proposal[p].executed
        /\ <<remote.owner, remote.minters>>' # <<remote.owner, remote.minters>> =>
              \E m \in messages : ~Done(m) /\ Done(m)' /\ proposal[m.by].executed
      ]_vars

\* A message whose calls revert does not block the ones behind it, once the executor
\* owns itself and trusts the sender; before, its owner may stop trusting it.
PathDrains ==
    \A n \in 1..MaxSent :
        /\ executorOwner = "executor" /\ executorTrusts = "sender"
        /\ \E m \in path : m.from = "sender" /\ m.nonce = n
        ~> ~(\E m \in path : m.from = "sender" /\ m.nonce = n)

\* A proposal is a mandate from when its operation is scheduled, and a message of the
\* deployer's from when it is sent.
Scheduled(p) == [id |-> p, from |-> "sender", n |-> 0, mandate |-> docket[p]]
MandateOf(m) ==
    [id |-> m.by, from |-> m.from, n |-> IF m.by = "owner" THEN m.nonce ELSE 0,
     mandate |-> m.mandate]

sweeps == [c \in {"home", "remote"} |-> IF c = "home" THEN home ELSE remote]
pending ==
    {Scheduled(p) : p \in {q \in Proposals : timestamps[q] # 0 /\ q \notin done}}
        \cup {MandateOf(m) : m \in {k \in messages : ~Done(k)}}
carried ==
    {Scheduled(p) : p \in {q \in done : docket[q].to = "home"}}
        \cup {MandateOf(m) : m \in {k \in messages : Done(k)}}

Governed ==
    INSTANCE GovernedSweep WITH
        Mandated <- [id : Origins, from : Paths, n : Nat, mandate : Mandates],
        sweep <- sweeps, pending <- pending, carried <- carried

\* Scripts, governor, timelock, sender, path and executor carry out what governance
\* promises: each mandate at most once, whole, by the governor of its chain, whatever
\* fails, is retried or is cancelled between.
ImplementsGovernedSweep == Governed!Spec
===============================================================================

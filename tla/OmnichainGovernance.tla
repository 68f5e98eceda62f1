--------------------------- MODULE OmnichainGovernance -------------------------
(***************************************************************************)
(* Governance of SWEEP on another chain: OmnichainProposalSender on the    *)
(* governance chain and OmnichainGovernanceExecutor, the owner of SWEEP    *)
(* there, joined by a LayerZero path, with the tasks that connect them and *)
(* hand them over. A second path comes from a contract of the deployer's   *)
(* own, which the executor's owner may trust in the sender's place.        *)
(* LayerZero's contracts are external: a path delivers in order, blocks on *)
(* a message whose receiver reverts, and keeps its payload until it is     *)
(* delivered.                                                              *)
(***************************************************************************)
EXTENDS GovernanceScripts

CONSTANTS RemoteNet,        \* the other chain
          Mandates,         \* every mandate a behaviour may see
          Origins           \* "owner" and the proposals

ASSUME RemoteNetAssumption == RemoteNet \in Networks

VARIABLES senderOwner,      \* "owner", the deployer, or "timelock"
          executorOwner,    \* "owner" or "executor", itself
          senderTrusts,     \* the sender knows the executor's address
          executorTrusts,   \* the one of Paths the executor takes messages from, or "none"
          messages,         \* all that were sent
          sent, delivered,  \* per path, nonces: of the last sent and the last delivered
          failedMessages,   \* delivered messages whose calls reverted
          remote            \* SWEEP on the other chain

senderVars == <<senderOwner, senderTrusts>>
executorVars == <<executorOwner, executorTrusts>>
omnichainVars ==
    <<senderVars, executorVars, messages, sent, delivered, failedMessages, remote>>

\* Where a path begins: at the sender, or at a contract of the deployer's.
Paths == {"sender", "other"}

\* A message: what was sent on which path, and by whom, the deployer or, through the
\* timelock, a proposal.
Message == [from : Paths, nonce : Nat, by : Origins, mandate : Mandates]
path == {m \in messages : m.nonce > delivered[m.from]}

OmnichainTypeOK ==
    /\ senderOwner \in {"owner", "timelock"} /\ senderTrusts \in BOOLEAN
    /\ executorOwner \in {"owner", "executor"} /\ executorTrusts \in Paths \cup {"none"}
    /\ messages \subseteq Message /\ failedMessages \subseteq Message
    /\ sent \in [Paths -> Nat] /\ delivered \in [Paths -> Nat]
    /\ remote \in SweepStorage

OmnichainInit ==
    /\ senderOwner = "owner" /\ senderTrusts = FALSE
    /\ executorOwner = "owner" /\ executorTrusts = "none"
    /\ messages = {} /\ failedMessages = {}
    /\ sent = [f \in Paths |-> 0] /\ delivered = [f \in Paths |-> 0]
    /\ remote = [owner |-> "owner", minters |-> {}, paused |-> FALSE, approved |-> {}]

-------------------------------------------------------------------------------
(* The tasks. Those that set a trusted remote print the call if it is not made  *)
(* yet; the owner makes it.                                                     *)

setSenderTrustedRemote ==
    /\ senderOwner = "owner" /\ ~senderTrusts /\ senderTrusts' = TRUE
    /\ UNCHANGED <<senderOwner, executorVars, messages, sent, delivered, failedMessages, remote>>

\* The task names the sender; the owner may as well name a contract of its own, and
\* change that as long as it is the owner.
setExecutorTrustedRemote(from) ==
    /\ executorOwner = "owner" /\ executorTrusts # from /\ executorTrusts' = from
    /\ UNCHANGED <<executorOwner, senderVars, messages, sent, delivered, failedMessages, remote>>

\* Mutant: as the executor's task, which names the contract itself.
setSenderTransferToItself ==
    /\ senderOwner = "owner" /\ senderOwner' = "sender"
    /\ UNCHANGED <<senderTrusts, executorVars, messages, sent, delivered, failedMessages, remote>>

\* Whatever is thrown is caught and printed.
setSenderTransferOwnership ==
    /\ senderOwner = "owner" /\ senderOwner' = "timelock"
    /\ UNCHANGED <<senderTrusts, executorVars, messages, sent, delivered, failedMessages, remote>>

\* Looks the executor up in the older book, before the try.
setExecutorTransferOwnership ==
    /\ RemoteNet \in getDeployedAddress["executor"]
    /\ executorOwner = "owner" /\ executorOwner' = "executor"
    /\ UNCHANGED <<executorTrusts, senderVars, messages, sent, delivered, failedMessages, remote>>

-------------------------------------------------------------------------------
sendOn(from, by, mandate) ==
    /\ sent' = [sent EXCEPT ![from] = @ + 1]
    /\ messages' = messages \cup
          {[from |-> from, nonce |-> sent[from] + 1, by |-> by, mandate |-> mandate]}
    /\ UNCHANGED <<senderVars, executorVars, delivered, failedMessages, remote>>

\* OmnichainProposalSender.execute: _lzSend takes the path its owner has set.
send(caller, by, mandate) ==
    /\ caller = senderOwner /\ senderTrusts
    /\ sendOn("sender", by, mandate)

\* The message is the next on its path, and the executor trusts where it is from.
isNext(m) == m.nonce = delivered[m.from] + 1 /\ executorTrusts = m.from

\* The calls of a message, by the executor.
Carried(m) == CallAll(remote, "executor", m.mandate.calls)

\* Mutant: the receiver lets a failed call revert the delivery.
lzReceiveBlocking(m) ==
    /\ m \in path /\ isNext(m)
    /\ \E s \in Carried(m) : remote' = s
    /\ delivered' = [delivered EXCEPT ![m.from] = m.nonce]
    /\ UNCHANGED <<senderVars, executorVars, messages, sent, failedMessages>>

\* Mutant: what the first call did stays when the next one reverts.
lzReceivePartial(m) ==
    /\ m \in path /\ isNext(m)
    /\ delivered' = [delivered EXCEPT ![m.from] = m.nonce]
    /\ \/ /\ \E s \in Carried(m) : remote' = s
          /\ UNCHANGED failedMessages
       \/ /\ Carried(m) = {}
          /\ failedMessages' = failedMessages \cup {m}
          /\ \E s \in CallAll(remote, "executor", SubSeq(m.mandate.calls, 1, 1)) : remote' = s
    /\ UNCHANGED <<senderVars, executorVars, messages, sent>>

\* The endpoint delivers the next message of a path, which an executor that does not
\* trust where it is from refuses. Its calls are tried; if one reverts, all are undone, and
\* the message is stored.
lzReceive(m) ==
    /\ m \in path /\ isNext(m)
    /\ delivered' = [delivered EXCEPT ![m.from] = m.nonce]
    /\ \/ /\ \E s \in Carried(m) : remote' = s
          /\ UNCHANGED failedMessages
       \/ /\ Carried(m) = {}
          /\ failedMessages' = failedMessages \cup {m} /\ UNCHANGED remote
    /\ UNCHANGED <<senderVars, executorVars, messages, sent>>

\* Mutant: the stored hash is not cleared.
retryUncleared(m) ==
    /\ m \in failedMessages
    /\ \E s \in Carried(m) : remote' = s
    /\ UNCHANGED <<senderVars, executorVars, messages, sent, delivered, failedMessages>>

\* Anybody, at any later time; trust is not looked at again.
retryMessage(m) ==
    /\ m \in failedMessages
    /\ \E s \in Carried(m) : remote' = s
    /\ failedMessages' = failedMessages \ {m}
    /\ UNCHANGED <<senderVars, executorVars, messages, sent, delivered>>

-------------------------------------------------------------------------------
(* SWEEP's owner, and its multisig, call it themselves *)

direct(by, c) ==
    /\ by # "executor"
    /\ \E s \in Call(remote, by, c) : remote' = s /\ s # remote
    /\ UNCHANGED <<senderVars, executorVars, messages, sent, delivered, failedMessages>>

OmnichainStep ==
    \/ setSenderTrustedRemote \/ \E f \in Paths : setExecutorTrustedRemote(f)
    \/ setSenderTransferOwnership \/ setExecutorTransferOwnership
    \/ \E m \in path : lzReceive(m)
    \/ \E m \in failedMessages : retryMessage(m)
===============================================================================

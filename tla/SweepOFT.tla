------------------------------ MODULE SweepOFT ------------------------------
(***************************************************************************)
(* SWEEP on several chains: one BaseSweep contract per chain, joined by    *)
(* the LayerZero OFT messages its _debitFrom and _creditTo hooks serve.    *)
(* The message layer (OFTUpgradeable, NonblockingLzApp, the endpoint) is   *)
(* external: a path delivers in order, at any later time; a credit that    *)
(* reverts is stored as a failed message, which anybody may retry.         *)
(***************************************************************************)
EXTENDS BaseSweep, Sums, FiniteSets, Functions

CONSTANTS Chains,
          Amounts,         \* amounts of a mint, burn, transfer or bridging
          Caps,            \* maximum amounts governance gives a minter
          MintChains,      \* bound: the chains governance lists minters on
          MaxSupply,       \* bound: SWEEP in existence after a mint
          MaxNonce         \* bound: MaxNonce[s][d] messages are sent from s to d

ASSUME FiniteAssumption == IsFiniteSet(Chains) /\ IsFiniteSet(Accounts)
ASSUME AmountsAssumption == Amounts \subseteq Nat
ASSUME CapsAssumption == Caps \subseteq Nat
ASSUME MintChainsAssumption == MintChains \subseteq Chains

VARIABLES sweep,           \* per chain, the storage of its SWEEP contract
          channel,         \* channel[s][d]: messages sent from s to d, not delivered
          nonce,           \* nonce[s][d]: messages ever sent from s to d
          failed           \* failed[d]: messages delivered to d whose credit reverted

vars == <<sweep, channel, nonce, failed>>

Message == [nonce : Nat, to : Accounts, amount : Nat]
FailedMessage == [src : Chains, nonce : Nat, to : Accounts, amount : Nat]

TypeOK ==
    /\ sweep \in [Chains -> BaseSweepStorage]
    /\ channel \in [Chains -> [Chains -> Seq(Message)]]
    /\ nonce \in [Chains -> [Chains -> Nat]]
    /\ failed \in [Chains -> SUBSET FailedMessage]

Init ==
    /\ sweep = [c \in Chains |-> InitBaseSweep]
    /\ channel = [s \in Chains |-> [d \in Chains |-> <<>>]]
    /\ nonce = [s \in Chains |-> [d \in Chains |-> 0]]
    /\ failed = [d \in Chains |-> {}]

Supply(t) == SumOf(t.balanceOf)

\* SWEEP on all chains, on the way between them and in failed messages, less what
\* the listed minters account for.
AmountIn(messages) == SumOf([m \in messages |-> m.amount])
Circulating ==
    SumOf([d \in Chains |-> Supply(sweep[d]) + AmountIn(failed[d])
             + SumOf([s \in Chains |-> AmountIn(Range(channel[s][d]))])])
Accounted == SumOf([c \in Chains |-> SumOf([m \in Accounts |-> sweep[c].minters[m].mintedAmount])])

-----------------------------------------------------------------------------
(* One chain: governance, minters and holders.  The approver may approve or *)
(* refuse any call; a refused call reverts, so only the approved are steps. *)

Commit(c, t) == sweep' = [sweep EXCEPT ![c] = t] /\ UNCHANGED <<channel, nonce, failed>>

addMinter(c, m, amount) == \E t \in AddMinter(sweep[c], m, amount) : Commit(c, t)

removeMinter(c, m) == \E t \in RemoveMinter(sweep[c], m) : Commit(c, t)

setMinterMaxAmount(c, m, amount) ==
    \E t \in SetMinterMaxAmount(sweep[c], m, amount) : Commit(c, t)

setMinterEnabled(c, m, enabled) ==
    \E t \in SetMinterEnabled(sweep[c], m, enabled) : Commit(c, t)

pause(c) == \E t \in Pause(sweep[c]) : Commit(c, t)

unpause(c) == \E t \in Unpause(sweep[c]) : Commit(c, t)

setTransferApprover(c) == \E t \in SetTransferApprover(sweep[c]) : Commit(c, t)

\* SweepCoin.mint adds isMintingAllowed, an answer of the AMM that can be either.
mint(c, m, amount) ==
    /\ Circulating + amount =< MaxSupply
    /\ \E t \in Mint(sweep[c], m, amount, TRUE) : Commit(c, t)

burn(c, m, amount) == \E t \in Burn(sweep[c], m, amount, TRUE) : Commit(c, t)

transfer(c, from, to, amount) ==
    \E t \in Transfer(sweep[c], from, to, amount, TRUE) : Commit(c, t)

-----------------------------------------------------------------------------
(* Between chains *)

sendFrom(s, d, from, to, amount) ==
    /\ s # d
    /\ nonce[s][d] < MaxNonce[s][d]
    /\ \E t \in DebitFrom(sweep[s], from, amount, TRUE) : sweep' = [sweep EXCEPT ![s] = t]
    /\ nonce' = [nonce EXCEPT ![s][d] = @ + 1]
    /\ channel' = [channel EXCEPT ![s][d] =
                      Append(@, [nonce |-> nonce[s][d] + 1, to |-> to, amount |-> amount])]
    /\ UNCHANGED failed

\* Mutant: a receiver without the try/catch, which leaves the message on the path.
lzReceiveBlocking(s, d, approves) ==
    LET m == Head(channel[s][d])
    IN  /\ channel[s][d] # <<>>
        /\ \E t \in CreditTo(sweep[d], m.to, m.amount, approves) :
              sweep' = [sweep EXCEPT ![d] = t]
        /\ channel' = [channel EXCEPT ![s][d] = Tail(@)]
        /\ UNCHANGED <<nonce, failed>>

\* The credit is tried; if it reverts the message is stored and the path goes on.
lzReceive(s, d, approves) ==
    LET m == Head(channel[s][d])
        credited == CreditTo(sweep[d], m.to, m.amount, approves)
    IN  /\ channel[s][d] # <<>>
        /\ channel' = [channel EXCEPT ![s][d] = Tail(@)]
        /\ UNCHANGED nonce
        /\ \/ /\ \E t \in credited : sweep' = [sweep EXCEPT ![d] = t]
              /\ UNCHANGED failed
           \/ /\ credited = {}
              /\ failed' = [failed EXCEPT ![d] =
                    @ \cup {[src |-> s, nonce |-> m.nonce, to |-> m.to, amount |-> m.amount]}]
              /\ UNCHANGED sweep

\* Mutant: a retry that does not compare the payload with the hash stored for it.
retryMessageUnchecked(d, f) ==
    /\ f \in failed[d]
    /\ \E to \in Accounts : \E t \in CreditTo(sweep[d], to, f.amount, TRUE) :
          sweep' = [sweep EXCEPT ![d] = t]
    /\ failed' = [failed EXCEPT ![d] = @ \ {f}]
    /\ UNCHANGED <<channel, nonce>>

retryMessage(d, f) ==
    /\ f \in failed[d]
    /\ \E t \in CreditTo(sweep[d], f.to, f.amount, TRUE) : sweep' = [sweep EXCEPT ![d] = t]
    /\ failed' = [failed EXCEPT ![d] = @ \ {f}]
    /\ UNCHANGED <<channel, nonce>>

-----------------------------------------------------------------------------

OneChain(c) ==
    \/ pause(c) \/ unpause(c) \/ setTransferApprover(c)
    \/ /\ c \in MintChains
       /\ \E m \in Accounts :
             \/ removeMinter(c, m)
             \/ \E enabled \in BOOLEAN : setMinterEnabled(c, m, enabled)
             \/ \E cap \in Caps : addMinter(c, m, cap) \/ setMinterMaxAmount(c, m, cap)
             \/ \E a \in Amounts : mint(c, m, a) \/ burn(c, m, a)
    \/ \E from, to \in Accounts, a \in Amounts : transfer(c, from, to, a)

Next ==
    \/ \E c \in Chains : OneChain(c)
    \/ \E s, d \in Chains :
          \/ \E from, to \in Accounts, a \in Amounts : sendFrom(s, d, from, to, a)
          \/ \E approves \in BOOLEAN : lzReceive(s, d, approves)
    \/ \E d \in Chains : \E f \in failed[d] : retryMessage(d, f)

Spec == Init /\ [][Next]_vars

\* The relayer keeps delivering: the one fairness the message layer promises.
Fairness == \A s, d \in Chains : WF_vars(\E ok \in BOOLEAN : lzReceive(s, d, ok))
FairSpec == Spec /\ Fairness

-----------------------------------------------------------------------------
(* Properties *)

\* Through any number of swap-and-pop removals and re-adds, the list of minters of
\* every chain stays consistent.
MinterListConsistent == \A c \in Chains : ListConsistent(sweep[c])

\* Bridging, failing and retrying neither create nor destroy SWEEP: the only step
\* that parts the SWEEP in existence from what minters account for is the removal of
\* a minter, and it does so by exactly what that minter had minted.
BackingChangesOnlyByRemoval ==
    [][\/ Circulating' - Accounted' = Circulating - Accounted
       \/ \E c \in Chains, m \in Accounts :
             /\ sweep[c].minters[m].isListed /\ ~sweep'[c].minters[m].isListed
             /\ Circulating' - Accounted' =
                   Circulating - Accounted + sweep[c].minters[m].mintedAmount]_vars

\* While a chain stays paused no balance on it moves, also not by messages that
\* arrive or are retried.
PausedChainFrozen ==
    [][\A c \in Chains : sweep[c].paused /\ sweep'[c].paused
                            => sweep'[c].balanceOf = sweep[c].balanceOf]_vars

\* A credit that reverts does not block the path: every message sent is eventually
\* taken off it, also when the one before it cannot be credited, and by a chain that
\* stays paused.
PathDrains ==
    \A s, d \in Chains : \A n \in 1 .. MaxNonce[s][d] :
        (\E m \in Range(channel[s][d]) : m.nonce = n)
            ~> ~(\E m \in Range(channel[s][d]) : m.nonce = n)

\* An account holds its balances; what is on its way to it, or failed to arrive, is due.
AmountTo(a, messages) == AmountIn({m \in messages : m.to = a})
held == [a \in Accounts |-> SumOf([d \in Chains |-> sweep[d].balanceOf[a]])]
due ==
    [a \in Accounts |->
        SumOf([d \in Chains |-> AmountTo(a, failed[d])
                 + SumOf([s \in Chains |-> AmountTo(a, Range(channel[s][d]))])])]
issued == [m \in Accounts |-> SumOf([c \in Chains |-> sweep[c].minters[m].mintedAmount])]

Whole == INSTANCE OneLedger

\* The chains together are one ledger: whatever of a delivery is late, reverts, is stored
\* or retried, what was sent to an account stays due to it and arrives there once; what
\* an account holds falls by nothing but a transfer, and SWEEP comes from minters only.
ImplementsOneLedger == Whole!Spec
=============================================================================

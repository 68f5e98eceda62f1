--------------------------- MODULE SweepOFTProofs ---------------------------
(***************************************************************************)
(* Proofs about SweepOFT: its type invariant, the consistency of the       *)
(* minter lists, that a paused chain moves no balance, that only the       *)
(* removal of a minter parts the SWEEP there is from what minters account  *)
(* for, and that the chains together implement OneLedger, for any number   *)
(* of chains, accounts, amounts and messages.                              *)
(***************************************************************************)
EXTENDS SweepOFT, BaseSweepProofs, NumberTheorems

IInv == TypeOK /\ MinterListConsistent

LEMMA IInvIsGood ==
    ASSUME IInv, NEW c \in Chains
    PROVE  Good(sweep[c])
BY DEF IInv, TypeOK, MinterListConsistent, Good

\* One contract moves on to a good storage, the messages do not change.
LEMMA OneContract ==
    ASSUME IInv, NEW c \in Chains, NEW t, Good(t), sweep' = [sweep EXCEPT ![c] = t]
    PROVE  sweep' \in [Chains -> BaseSweepStorage] /\ MinterListConsistent'
BY DEF IInv, TypeOK, MinterListConsistent, Good

LEMMA HeadIsMessage ==
    ASSUME IInv, NEW s \in Chains, NEW d \in Chains, channel[s][d] # <<>>
    PROVE  /\ Head(channel[s][d]).nonce \in Nat
           /\ Head(channel[s][d]).to \in Accounts
           /\ Head(channel[s][d]).amount \in Nat
           /\ Tail(channel[s][d]) \in Seq(Message)
<1>1. channel[s][d] \in Seq(Message)
  BY DEF IInv, TypeOK
<1>2. Head(channel[s][d]) \in Message /\ Tail(channel[s][d]) \in Seq(Message)
  BY <1>1
<1> QED
  BY <1>2 DEF Message

LEMMA FailedIsMessage ==
    ASSUME IInv, NEW d \in Chains, NEW f \in failed[d]
    PROVE  f.to \in Accounts /\ f.amount \in Nat
<1>1. f \in FailedMessage
  BY DEF IInv, TypeOK
<1> QED
  BY <1>1 DEF FailedMessage

LEMMA CommitKeeps ==
    ASSUME IInv, NEW c \in Chains, NEW t, Good(t), Commit(c, t)
    PROVE  IInv'
<1>1. sweep' \in [Chains -> BaseSweepStorage] /\ MinterListConsistent'
  BY OneContract DEF Commit
<1> QED
  BY <1>1 DEF IInv, TypeOK, Commit

-----------------------------------------------------------------------------
(* The invariant *)

LEMMA InitIInv == Init => IInv
<1> SUFFICES ASSUME Init PROVE IInv
  OBVIOUS
<1>1. InitBaseSweep \in BaseSweepStorage
  BY DEF InitBaseSweep, BaseSweepStorage, Minter, NoMinter
<1>2. ListConsistent(InitBaseSweep)
  BY DEF ListConsistent, Injective, Entries, InitBaseSweep, NoMinter
<1>3. TypeOK
  BY <1>1 DEF Init, TypeOK
<1>4. MinterListConsistent
  BY <1>2 DEF Init, MinterListConsistent
<1> QED
  BY <1>3, <1>4 DEF IInv

\* The actions of one chain
LEMMA OneChainKeeps ==
    ASSUME IInv, NEW c \in Chains, OneChain(c)
    PROVE  IInv'
<1>1. Good(sweep[c])
  BY IInvIsGood
<1>2. Amounts \subseteq Nat /\ Caps \subseteq Nat
  BY AmountsAssumption, CapsAssumption
<1>3. CASE pause(c) \/ unpause(c) \/ setTransferApprover(c)
  <2>1. PICK t \in Pause(sweep[c]) \cup Unpause(sweep[c]) \cup SetTransferApprover(sweep[c]) :
            Commit(c, t)
    BY <1>3 DEF pause, unpause, setTransferApprover
  <2> QED
    BY <1>1, <2>1, SwitchGood, CommitKeeps
<1>4. ASSUME NEW m \in Accounts, removeMinter(c, m)
      PROVE  IInv'
  BY <1>1, <1>4, RemoveMinterGood, CommitKeeps DEF removeMinter
<1>5. ASSUME NEW m \in Accounts, NEW enabled \in BOOLEAN, setMinterEnabled(c, m, enabled)
      PROVE  IInv'
  BY <1>1, <1>5, SetMinterEnabledGood, CommitKeeps DEF setMinterEnabled
<1>6. ASSUME NEW m \in Accounts, NEW cap \in Caps, addMinter(c, m, cap)
      PROVE  IInv'
  BY <1>1, <1>2, <1>6, AddMinterGood, CommitKeeps DEF addMinter
<1>7. ASSUME NEW m \in Accounts, NEW cap \in Caps, setMinterMaxAmount(c, m, cap)
      PROVE  IInv'
  BY <1>1, <1>2, <1>7, SetMinterMaxAmountGood, CommitKeeps DEF setMinterMaxAmount
<1>8. ASSUME NEW m \in Accounts, NEW a \in Amounts, mint(c, m, a)
      PROVE  IInv'
  <2>1. PICK t \in Mint(sweep[c], m, a, TRUE) : Commit(c, t)
    BY <1>8 DEF mint
  <2> QED
    BY <1>1, <1>2, <2>1, MintGood, CommitKeeps
<1>9. ASSUME NEW m \in Accounts, NEW a \in Amounts, burn(c, m, a)
      PROVE  IInv'
  <2>1. PICK t \in Burn(sweep[c], m, a, TRUE) : Commit(c, t)
    BY <1>9 DEF burn
  <2> QED
    BY <1>1, <1>2, <2>1, BurnGood, CommitKeeps
<1>10. ASSUME NEW from \in Accounts, NEW to \in Accounts, NEW a \in Amounts,
              transfer(c, from, to, a)
       PROVE  IInv'
  <2>1. PICK t \in Transfer(sweep[c], from, to, a, TRUE) : Commit(c, t)
    BY <1>10 DEF transfer
  <2> QED
    BY <1>1, <1>2, <2>1, TransferGood, CommitKeeps
<1> QED
  BY <1>3, <1>4, <1>5, <1>6, <1>7, <1>8, <1>9, <1>10 DEF OneChain

\* sendFrom
LEMMA SendFromKeeps ==
    ASSUME IInv, NEW s \in Chains, NEW d \in Chains, NEW from \in Accounts,
           NEW to \in Accounts, NEW a \in Amounts, sendFrom(s, d, from, to, a)
    PROVE  IInv'
<1>1. PICK t \in DebitFrom(sweep[s], from, a, TRUE) : sweep' = [sweep EXCEPT ![s] = t]
  BY DEF sendFrom
<1>2. a \in Nat
  BY AmountsAssumption
<1>3. sweep' \in [Chains -> BaseSweepStorage] /\ MinterListConsistent'
  BY <1>1, <1>2, IInvIsGood, DebitFromGood, OneContract
<1>4. nonce' \in [Chains -> [Chains -> Nat]]
  BY DEF sendFrom, IInv, TypeOK
<1>5. channel' \in [Chains -> [Chains -> Seq(Message)]]
  <2> DEFINE m == [nonce |-> nonce[s][d] + 1, to |-> to, amount |-> a]
  <2>1. m \in Message
    BY <1>2 DEF Message, IInv, TypeOK
  <2>2. channel[s][d] \in Seq(Message) /\ channel[s] \in [Chains -> Seq(Message)]
    BY DEF IInv, TypeOK
  <2>3. channel' = [channel EXCEPT ![s] = [channel[s] EXCEPT ![d] = Append(channel[s][d], m)]]
    BY DEF sendFrom
  <2> HIDE DEF m
  <2>4. Append(channel[s][d], m) \in Seq(Message)
    BY <2>1, <2>2
  <2> QED
    BY <2>2, <2>3, <2>4 DEF IInv, TypeOK
<1> QED
  BY <1>3, <1>4, <1>5 DEF IInv, TypeOK, sendFrom

\* lzReceive, whether the credit succeeds or is stored as a failed message
LEMMA LzReceiveKeeps ==
    ASSUME IInv, NEW s \in Chains, NEW d \in Chains, NEW approves \in BOOLEAN,
           lzReceive(s, d, approves)
    PROVE  IInv'
<1> DEFINE m == Head(channel[s][d])
<1>1. channel[s][d] # <<>>
  BY DEF lzReceive
<1>2. Tail(channel[s][d]) \in Seq(Message)
  BY <1>1, HeadIsMessage
<1>3. m.nonce \in Nat /\ m.to \in Accounts /\ m.amount \in Nat
  BY <1>1, HeadIsMessage
<1>4. channel' \in [Chains -> [Chains -> Seq(Message)]] /\ nonce' = nonce
  <2>1. channel[s] \in [Chains -> Seq(Message)]
    BY DEF IInv, TypeOK
  <2>2. channel' = [channel EXCEPT ![s] = [channel[s] EXCEPT ![d] = Tail(channel[s][d])]]
    BY DEF lzReceive
  <2>3. [channel[s] EXCEPT ![d] = Tail(channel[s][d])] \in [Chains -> Seq(Message)]
    BY <1>2, <2>1
  <2>4. channel \in [Chains -> [Chains -> Seq(Message)]]
    BY DEF IInv, TypeOK
  <2>5. nonce' = nonce
    BY DEF lzReceive
  <2> QED
    BY <2>2, <2>3, <2>4, <2>5
<1>5. CASE /\ \E t \in CreditTo(sweep[d], m.to, m.amount, approves) :
                 sweep' = [sweep EXCEPT ![d] = t]
           /\ UNCHANGED failed
  <2>1. sweep' \in [Chains -> BaseSweepStorage] /\ MinterListConsistent'
    BY <1>3, <1>5, IInvIsGood, CreditToGood, OneContract
  <2> QED
    BY <2>1, <1>4, <1>5 DEF IInv, TypeOK
<1>6. CASE /\ failed' = [failed EXCEPT ![d] =
                 @ \cup {[src |-> s, nonce |-> m.nonce, to |-> m.to, amount |-> m.amount]}]
           /\ UNCHANGED sweep
  <2>1. [src |-> s, nonce |-> m.nonce, to |-> m.to, amount |-> m.amount] \in FailedMessage
    BY <1>3 DEF FailedMessage
  <2>2. failed' \in [Chains -> SUBSET FailedMessage]
    BY <2>1, <1>6 DEF IInv, TypeOK
  <2> QED
    BY <2>2, <1>4, <1>6 DEF IInv, TypeOK, MinterListConsistent
<1> QED
  BY <1>5, <1>6 DEF lzReceive

LEMMA RetryMessageKeeps ==
    ASSUME IInv, NEW d \in Chains, NEW f \in failed[d], retryMessage(d, f)
    PROVE  IInv'
<1>1. f.to \in Accounts /\ f.amount \in Nat
  BY FailedIsMessage
<1>2. PICK t \in CreditTo(sweep[d], f.to, f.amount, TRUE) : sweep' = [sweep EXCEPT ![d] = t]
  BY DEF retryMessage
<1>3. sweep' \in [Chains -> BaseSweepStorage] /\ MinterListConsistent'
  BY <1>1, <1>2, IInvIsGood, CreditToGood, OneContract
<1>4. failed' \in [Chains -> SUBSET FailedMessage]
  BY DEF IInv, TypeOK, retryMessage
<1> QED
  BY <1>3, <1>4 DEF IInv, TypeOK, retryMessage

LEMMA NextIInv == IInv /\ [Next]_vars => IInv'
<1> SUFFICES ASSUME IInv, [Next]_vars PROVE IInv'
  OBVIOUS
<1>1. ASSUME NEW c \in Chains, OneChain(c)
      PROVE  IInv'
  BY <1>1, OneChainKeeps
<1>2. ASSUME NEW s \in Chains, NEW d \in Chains, NEW from \in Accounts,
             NEW to \in Accounts, NEW a \in Amounts, sendFrom(s, d, from, to, a)
      PROVE  IInv'
  BY <1>2, SendFromKeeps
<1>3. ASSUME NEW s \in Chains, NEW d \in Chains, NEW approves \in BOOLEAN,
             lzReceive(s, d, approves)
      PROVE  IInv'
  BY <1>3, LzReceiveKeeps
<1>4. ASSUME NEW d \in Chains, NEW f \in failed[d], retryMessage(d, f)
      PROVE  IInv'
  BY <1>4, RetryMessageKeeps
<1>5. CASE UNCHANGED vars
  BY <1>5 DEF vars, IInv, TypeOK, MinterListConsistent
<1> QED
  BY <1>1, <1>2, <1>3, <1>4, <1>5 DEF Next

\* Types and minter lists support each other in every behaviour of the bridged token.
THEOREM SpecIInv == Spec => []IInv
BY InitIInv, NextIInv, PTL DEF Spec

\* Storage, messages and failed messages keep their types through every call of
\* BaseSweep and every delivery, on any number of chains.
THEOREM TypeCorrect == Spec => []TypeOK
<1>1. IInv => TypeOK
  BY DEF IInv
<1> QED
  BY <1>1, SpecIInv, PTL

\* addMinter and removeMinter, in any order, leave minterAddresses without repetitions
\* and equal to the listed minters, on every chain.
THEOREM MinterListCorrect == Spec => []MinterListConsistent
<1>1. IInv => MinterListConsistent
  BY DEF IInv
<1> QED
  BY <1>1, SpecIInv, PTL

-----------------------------------------------------------------------------
(* Pausing *)

BalanceKept(c) == sweep[c].paused /\ sweep'[c].paused => sweep'[c].balanceOf = sweep[c].balanceOf

\* A contract that replaces its storage keeps the balances if it is paused.
LEMMA OneContractFrozen ==
    ASSUME IInv, NEW c \in Chains, NEW t,
           sweep[c].paused => t.balanceOf = sweep[c].balanceOf,
           sweep' = [sweep EXCEPT ![c] = t],
           NEW e \in Chains
    PROVE  BalanceKept(e)
BY DEF IInv, TypeOK, BalanceKept

LEMMA OneChainFrozen ==
    ASSUME IInv, NEW c \in Chains, OneChain(c), NEW e \in Chains
    PROVE  BalanceKept(e)
<1>1. Good(sweep[c])
  BY IInvIsGood
<1>2. Amounts \subseteq Nat /\ Caps \subseteq Nat
  BY AmountsAssumption, CapsAssumption
<1>3. PICK t : /\ sweep' = [sweep EXCEPT ![c] = t]
               /\ sweep[c].paused => t.balanceOf = sweep[c].balanceOf
  <2>1. CASE pause(c) \/ unpause(c) \/ setTransferApprover(c)
    <3>1. PICK t \in Pause(sweep[c]) \cup Unpause(sweep[c]) \cup SetTransferApprover(sweep[c]) :
              sweep' = [sweep EXCEPT ![c] = t]
      BY <2>1 DEF pause, unpause, setTransferApprover, Commit
    <3> QED
      BY <1>1, <3>1, SwitchGood
  <2>2. ASSUME NEW m \in Accounts, removeMinter(c, m)
        PROVE  \E t : /\ sweep' = [sweep EXCEPT ![c] = t]
                      /\ sweep[c].paused => t.balanceOf = sweep[c].balanceOf
    <3>1. PICK t \in RemoveMinter(sweep[c], m) : sweep' = [sweep EXCEPT ![c] = t]
      BY <2>2 DEF removeMinter, Commit
    <3>2. t.balanceOf = sweep[c].balanceOf
      BY <1>1, <3>1, RemoveMinterGood
    <3> QED
      BY <3>1, <3>2
  <2>3. ASSUME NEW m \in Accounts, NEW enabled \in BOOLEAN, setMinterEnabled(c, m, enabled)
        PROVE  \E t : /\ sweep' = [sweep EXCEPT ![c] = t]
                      /\ sweep[c].paused => t.balanceOf = sweep[c].balanceOf
    <3>1. PICK t \in SetMinterEnabled(sweep[c], m, enabled) :
              sweep' = [sweep EXCEPT ![c] = t]
      BY <2>3 DEF setMinterEnabled, Commit
    <3>2. t.balanceOf = sweep[c].balanceOf
      BY <1>1, <3>1, SetMinterEnabledGood
    <3> QED
      BY <3>1, <3>2
  <2>4. ASSUME NEW m \in Accounts, NEW cap \in Caps,
               addMinter(c, m, cap) \/ setMinterMaxAmount(c, m, cap)
        PROVE  \E t : /\ sweep' = [sweep EXCEPT ![c] = t]
                      /\ sweep[c].paused => t.balanceOf = sweep[c].balanceOf
    BY <1>1, <1>2, <2>4, AddMinterGood, SetMinterMaxAmountGood
       DEF addMinter, setMinterMaxAmount, Commit
  <2>5. ASSUME NEW m \in Accounts, NEW a \in Amounts, mint(c, m, a) \/ burn(c, m, a)
        PROVE  \E t : /\ sweep' = [sweep EXCEPT ![c] = t]
                      /\ sweep[c].paused => t.balanceOf = sweep[c].balanceOf
    <3>1. PICK t \in Mint(sweep[c], m, a, TRUE) \cup Burn(sweep[c], m, a, TRUE) :
              sweep' = [sweep EXCEPT ![c] = t]
      BY <2>5 DEF mint, burn, Commit
    <3>2. ~sweep[c].paused
      BY <1>1, <1>2, <3>1, MintGood, BurnGood
    <3> QED
      BY <3>1, <3>2
  <2>6. ASSUME NEW from \in Accounts, NEW to \in Accounts, NEW a \in Amounts,
               transfer(c, from, to, a)
        PROVE  \E t : /\ sweep' = [sweep EXCEPT ![c] = t]
                      /\ sweep[c].paused => t.balanceOf = sweep[c].balanceOf
    BY <1>1, <1>2, <2>6, TransferGood DEF transfer, Commit
  <2> QED
    BY <2>1, <2>2, <2>3, <2>4, <2>5, <2>6 DEF OneChain
<1> QED
  BY <1>3, OneContractFrozen

LEMMA NextFrozen ==
    ASSUME IInv, [Next]_vars, NEW e \in Chains
    PROVE  BalanceKept(e)
<1>1. ASSUME NEW c \in Chains, OneChain(c)
      PROVE  BalanceKept(e)
  BY <1>1, OneChainFrozen
<1>2. ASSUME NEW s \in Chains, NEW d \in Chains, NEW from \in Accounts,
             NEW to \in Accounts, NEW a \in Amounts, sendFrom(s, d, from, to, a)
      PROVE  BalanceKept(e)
  <2>1. PICK t \in DebitFrom(sweep[s], from, a, TRUE) : sweep' = [sweep EXCEPT ![s] = t]
    BY <1>2 DEF sendFrom
  <2>2. ~sweep[s].paused
    BY <2>1, AmountsAssumption, IInvIsGood, DebitFromGood
  <2> QED
    BY <2>1, <2>2, OneContractFrozen
<1>3. ASSUME NEW s \in Chains, NEW d \in Chains, NEW approves \in BOOLEAN,
             lzReceive(s, d, approves)
      PROVE  BalanceKept(e)
  <2> DEFINE m == Head(channel[s][d])
  <2>1. CASE UNCHANGED sweep
    BY <2>1 DEF BalanceKept
  <2>2. ASSUME NEW t \in CreditTo(sweep[d], m.to, m.amount, approves),
               sweep' = [sweep EXCEPT ![d] = t]
        PROVE  BalanceKept(e)
    <3>1. channel[s][d] # <<>>
      BY <1>3 DEF lzReceive
    <3>2. m.to \in Accounts /\ m.amount \in Nat
      BY <3>1, HeadIsMessage
    <3>3. ~sweep[d].paused
      BY <2>2, <3>2, IInvIsGood, CreditToGood
    <3> QED
      BY <2>2, <3>3, OneContractFrozen
  <2> QED
    BY <1>3, <2>1, <2>2 DEF lzReceive
<1>4. ASSUME NEW d \in Chains, NEW f \in failed[d], retryMessage(d, f)
      PROVE  BalanceKept(e)
  <2>1. f.to \in Accounts /\ f.amount \in Nat
    BY FailedIsMessage
  <2>2. PICK t \in CreditTo(sweep[d], f.to, f.amount, TRUE) : sweep' = [sweep EXCEPT ![d] = t]
    BY <1>4 DEF retryMessage
  <2>3. ~sweep[d].paused
    BY <2>1, <2>2, IInvIsGood, CreditToGood
  <2> QED
    BY <2>2, <2>3, OneContractFrozen
<1>5. CASE UNCHANGED vars
  BY <1>5 DEF vars, BalanceKept
<1> QED
  BY <1>1, <1>2, <1>3, <1>4, <1>5 DEF Next

\* While a chain stays paused, no call, delivery or retry moves a balance on it: the
\* hook of BaseSweep guards every path, bridged SWEEP included.
THEOREM PausedFrozen == Spec => PausedChainFrozen
<1>1. IInv /\ [Next]_vars =>
        [\A c \in Chains : sweep[c].paused /\ sweep'[c].paused
                              => sweep'[c].balanceOf = sweep[c].balanceOf]_vars
  BY NextFrozen DEF BalanceKept
<1> QED
  BY <1>1, SpecIInv, PTL DEF Spec, PausedChainFrozen
-----------------------------------------------------------------------------
(* SWEEP and what minters account for: one contract *)

Minted(t) == SumOf([m \in Accounts |-> t.minters[m].mintedAmount])

\* Nothing is minted on the account of who is not listed.
Cleared(t) == \A m \in Accounts : ~t.minters[m].isListed => t.minters[m].mintedAmount = 0

LEMMA SumsAreInt ==
    ASSUME NEW t, Good(t)
    PROVE  /\ Supply(t) \in Int /\ Minted(t) \in Int
           /\ t.balanceOf \in [Accounts -> Int]
           /\ \A m \in Accounts : t.minters[m].mintedAmount \in Nat
<1>1. /\ t.balanceOf \in [Accounts -> Nat]
      /\ t.minters \in [Accounts -> Minter]
  BY DEF Good, BaseSweepStorage
<1>2. \A m \in Accounts : t.minters[m].mintedAmount \in Nat
  BY <1>1 DEF Minter
<1>3. [m \in Accounts |-> t.minters[m].mintedAmount] \in [Accounts -> Int]
  BY <1>2
<1>4. t.balanceOf \in [Accounts -> Int]
  BY <1>1
<1> QED
  BY <1>2, <1>3, <1>4, FiniteAssumption, SumInt DEF Supply, Minted

\* The amount of one account changes by n.
LEMMA SupplyChange ==
    ASSUME NEW t, Good(t), NEW u, Good(u), NEW a \in Accounts, NEW n \in Int,
           u.balanceOf[a] = t.balanceOf[a] + n,
           \A b \in Accounts : b # a => u.balanceOf[b] = t.balanceOf[b]
    PROVE  Supply(u) = Supply(t) + n
<1>1. /\ t.balanceOf \in [Accounts -> Int] /\ u.balanceOf \in [Accounts -> Int]
      /\ Supply(t) \in Int
  BY SumsAreInt
<1>2. Supply(u) = Supply(t) - t.balanceOf[a] + u.balanceOf[a]
  BY <1>1, FiniteAssumption, SumChange DEF Supply
<1> QED
  BY <1>1, <1>2

LEMMA MintedChange ==
    ASSUME NEW t, Good(t), NEW u, Good(u), NEW a \in Accounts, NEW n \in Int,
           u.minters[a].mintedAmount = t.minters[a].mintedAmount + n,
           \A b \in Accounts : b # a => u.minters[b].mintedAmount = t.minters[b].mintedAmount
    PROVE  Minted(u) = Minted(t) + n
<1> DEFINE f == [m \in Accounts |-> t.minters[m].mintedAmount]
           g == [m \in Accounts |-> u.minters[m].mintedAmount]
<1>1. f \in [Accounts -> Int] /\ g \in [Accounts -> Int] /\ Minted(t) \in Int
  BY SumsAreInt
<1>2. \A b \in Accounts : b # a => g[b] = f[b]
  OBVIOUS
<1>3. g[a] = f[a] + n /\ f[a] \in Int
  BY <1>1
<1> HIDE DEF f, g
<1>4. SumOf(g) = SumOf(f) - f[a] + g[a]
  BY <1>1, <1>2, FiniteAssumption, SumChange
<1>5. SumOf(f) = Minted(t) /\ SumOf(g) = Minted(u)
  BY DEF f, g, Minted
<1> QED
  BY <1>1, <1>3, <1>4, <1>5

LEMMA SameMinted ==
    ASSUME NEW t, NEW u,
           \A m \in Accounts : u.minters[m].mintedAmount = t.minters[m].mintedAmount
    PROVE  Minted(u) = Minted(t)
<1>1. [m \in Accounts |-> u.minters[m].mintedAmount] = [m \in Accounts |-> t.minters[m].mintedAmount]
  OBVIOUS
<1> QED
  BY <1>1 DEF Minted

\* A transfer moves SWEEP between accounts of the contract.
KeepsSupply(t, u) == Supply(u) = Supply(t)

LEMMA TransferKeepsSupply ==
    ASSUME NEW t, Good(t), NEW from \in Accounts, NEW to \in Accounts, NEW amount \in Nat,
           NEW approves, NEW u \in Transfer(t, from, to, amount, approves)
    PROVE  KeepsSupply(t, u)
<1>1. /\ Good(u)
      /\ t.balanceOf[from] >= amount
      /\ u.balanceOf = Moved(t.balanceOf, from, to, amount)
  BY TransferGood, TransferMoves
<1>2. t.balanceOf \in [Accounts -> Int] /\ Supply(t) \in Int
  BY SumsAreInt
<1> DEFINE between == [t.balanceOf EXCEPT ![from] = @ - amount]
<1>3. between \in [Accounts -> Int] /\ between[from] = t.balanceOf[from] - amount
  BY <1>2
<1>4. SumOf(between) = SumOf(t.balanceOf) - t.balanceOf[from] + between[from]
  <2>1. \A b \in Accounts : b # from => between[b] = t.balanceOf[b]
    BY <1>2
  <2> HIDE DEF between
  <2> QED
    BY <1>2, <1>3, <2>1, FiniteAssumption, SumChange
<1>5. u.balanceOf = [between EXCEPT ![to] = between[to] + amount]
  BY <1>1 DEF Moved
<1> HIDE DEF between
<1>6. u.balanceOf \in [Accounts -> Int] /\ u.balanceOf[to] = between[to] + amount
  BY <1>3, <1>5
<1>7. SumOf(u.balanceOf) = SumOf(between) - between[to] + u.balanceOf[to]
  <2>1. \A b \in Accounts : b # to => u.balanceOf[b] = between[b]
    BY <1>3, <1>5
  <2> QED
    BY <1>3, <1>6, <2>1, FiniteAssumption, SumChange
<1>8. between[to] \in Int /\ t.balanceOf[from] \in Int
  BY <1>2, <1>3
<1> QED
  BY <1>2, <1>3, <1>4, <1>6, <1>7, <1>8 DEF Supply, KeepsSupply

-----------------------------------------------------------------------------
(* SWEEP on its way: messages on a path and failed ones *)

LEMMA AmountInInt ==
    ASSUME NEW S, IsFiniteSet(S), \A m \in S : m.amount \in Nat
    PROVE  AmountIn(S) \in Int
<1>1. [m \in S |-> m.amount] \in [S -> Int]
  OBVIOUS
<1> QED
  BY <1>1, SumInt DEF AmountIn

\* A message more.
LEMMA AmountInAdd ==
    ASSUME NEW S, IsFiniteSet(S), \A m \in S : m.amount \in Nat,
           NEW x, x \notin S, x.amount \in Nat
    PROVE  AmountIn(S \cup {x}) = AmountIn(S) + x.amount
<1> DEFINE f == [m \in S |-> m.amount]
           g == [m \in S \cup {x} |-> m.amount]
<1>1. /\ f \in [S -> Int] /\ g \in [S \cup {x} -> Int]
      /\ \A y \in S : g[y] = f[y]
      /\ g[x] = x.amount
  OBVIOUS
<1>2. AmountIn(S) = SumOf(f) /\ AmountIn(S \cup {x}) = SumOf(g)
  BY DEF AmountIn
<1> HIDE DEF f, g
<1>3. SumOf(g) = SumOf(f) + g[x]
  BY <1>1, SumExtend
<1> QED
  BY <1>1, <1>2, <1>3

\* A message less.
LEMMA AmountInRemove ==
    ASSUME NEW S, IsFiniteSet(S), \A m \in S : m.amount \in Nat, NEW x \in S
    PROVE  AmountIn(S \ {x}) = AmountIn(S) - x.amount
<1>1. IsFiniteSet(S \ {x}) /\ (S \ {x}) \cup {x} = S
  BY FS_Subset
<1>2. AmountIn((S \ {x}) \cup {x}) = AmountIn(S \ {x}) + x.amount
  BY <1>1, AmountInAdd
<1>3. AmountIn(S \ {x}) \in Int /\ x.amount \in Int
  BY <1>1, AmountInInt
<1>4. AmountIn(S) = AmountIn(S \ {x}) + x.amount
  BY <1>1, <1>2, Zenon
<1> QED
  BY <1>3, <1>4

\* The messages of a path are finitely many and each has an amount.
LEMMA PathMessages ==
    ASSUME NEW path \in Seq(Message)
    PROVE  /\ IsFiniteSet(Range(path))
           /\ \A m \in Range(path) : m.amount \in Nat
<1>1. path \in [1 .. Len(path) -> Message] /\ Len(path) \in Nat
  OBVIOUS
<1>2. IsFiniteSet(1 .. Len(path))
  BY <1>1, FS_Interval
<1>3. Range(path) = {path[i] : i \in 1 .. Len(path)}
  BY <1>1 DEF Range
<1>4. IsFiniteSet(Range(path))
  <2>1. path \in [1 .. Len(path) -> Range(path)]
    BY <1>1, <1>3
  <2>2. path \in Surjection(1 .. Len(path), Range(path))
    BY <1>3, <2>1 DEF Surjection
  <2> QED
    BY <1>2, <2>2, FS_Surjection
<1> QED
  BY <1>1, <1>3, <1>4 DEF Message

\* A path with a message more, and one less.
LEMMA RangeAppended ==
    ASSUME NEW path \in Seq(Message), NEW m \in Message
    PROVE  Range(Append(path, m)) = Range(path) \cup {m}
<1>1. /\ Len(path) \in Nat
      /\ DOMAIN Append(path, m) = 1 .. Len(path) + 1 /\ DOMAIN path = 1 .. Len(path)
      /\ \A i \in 1 .. Len(path) : Append(path, m)[i] = path[i]
      /\ Append(path, m)[Len(path) + 1] = m
  OBVIOUS
<1>2. 1 .. Len(path) + 1 = (1 .. Len(path)) \cup {Len(path) + 1}
  BY <1>1
<1> HIDE <1>1
<1> QED
  BY <1>1, <1>2 DEF Range

LEMMA RangeDelivered ==
    ASSUME NEW path \in Seq(Message), path # <<>>,
           \A i \in 2 .. Len(path) : path[i] # Head(path)
    PROVE  Range(Tail(path)) = Range(path) \ {Head(path)} /\ Head(path) \in Range(path)
<1>1. /\ Len(path) \in Nat /\ Len(path) >= 1
      /\ DOMAIN Tail(path) = 1 .. Len(path) - 1 /\ DOMAIN path = 1 .. Len(path)
      /\ \A i \in 1 .. Len(path) - 1 : Tail(path)[i] = path[i + 1]
      /\ Head(path) = path[1]
  OBVIOUS
<1>2. ASSUME NEW i \in 1 .. Len(path) - 1
      PROVE  Tail(path)[i] \in Range(path) \ {Head(path)}
  <2>1. i + 1 \in 2 .. Len(path) /\ i + 1 \in DOMAIN path /\ Tail(path)[i] = path[i + 1]
    BY <1>1
  <2> QED
    BY <2>1 DEF Range
<1>3. ASSUME NEW i \in 1 .. Len(path), path[i] # Head(path)
      PROVE  path[i] \in Range(Tail(path))
  <2>1. i # 1
    BY <1>1, <1>3
  <2>2. i - 1 \in 1 .. Len(path) - 1 /\ Tail(path)[i - 1] = path[i]
    BY <1>1, <2>1
  <2> QED
    BY <1>1, <2>2 DEF Range
<1>4. Head(path) \in Range(path)
  BY <1>1 DEF Range
<1> QED
  BY <1>1, <1>2, <1>3, <1>4 DEF Range

\* Sending adds the amount to the path.
LEMMA PathSend ==
    ASSUME NEW path \in Seq(Message), NEW m \in Message,
           \A i \in 1 .. Len(path) : path[i] # m
    PROVE  AmountIn(Range(Append(path, m))) = AmountIn(Range(path)) + m.amount
<1>1. Range(Append(path, m)) = Range(path) \cup {m}
  BY RangeAppended
<1>2. m \notin Range(path) /\ m.amount \in Nat
  BY DEF Range, Message
<1> QED
  BY <1>1, <1>2, PathMessages, AmountInAdd

\* Delivering takes it off.
LEMMA PathDeliver ==
    ASSUME NEW path \in Seq(Message), path # <<>>,
           \A i \in 2 .. Len(path) : path[i] # Head(path)
    PROVE  AmountIn(Range(Tail(path))) = AmountIn(Range(path)) - Head(path).amount
<1>1. Range(Tail(path)) = Range(path) \ {Head(path)} /\ Head(path) \in Range(path)
  BY RangeDelivered
<1> QED
  BY <1>1, PathMessages, AmountInRemove

-----------------------------------------------------------------------------
(* SWEEP and what minters account for: the calls of one contract *)

\* The call changes both alike.
Matched(t, u) == Supply(u) - Minted(u) = Supply(t) - Minted(t)

\* The call removes a minter and with it what it had minted.
Removed(t, u, m) ==
    /\ t.minters[m].isListed /\ ~u.minters[m].isListed
    /\ Supply(u) = Supply(t)
    /\ Minted(u) = Minted(t) - t.minters[m].mintedAmount

Booked(t, u) == Cleared(u) /\ (Matched(t, u) \/ \E m \in Accounts : Removed(t, u, m))

LEMMA SameBooked ==
    ASSUME NEW t, Cleared(t), NEW u, Supply(u) = Supply(t),
           \A a \in Accounts : /\ u.minters[a].isListed = t.minters[a].isListed
                              /\ u.minters[a].mintedAmount = t.minters[a].mintedAmount
    PROVE  Booked(t, u)
<1>1. Minted(u) = Minted(t)
  BY SameMinted
<1> QED
  BY <1>1 DEF Booked, Matched, Cleared

LEMMA AddMinterBooked ==
    ASSUME NEW t, Good(t), Cleared(t), NEW m \in Accounts, NEW amount \in Nat,
           NEW u \in AddMinter(t, m, amount)
    PROVE  Booked(t, u)
<1>1. /\ Good(u) /\ u.balanceOf = t.balanceOf /\ ~t.minters[m].isListed
      /\ u.minters[m].isListed /\ u.minters[m].mintedAmount = 0
      /\ \A a \in Accounts \ {m} : u.minters[a] = t.minters[a]
  BY AddMinterGood
<1>2. t.minters[m].mintedAmount = 0
  BY <1>1 DEF Cleared
<1>3. \A a \in Accounts : u.minters[a].mintedAmount = t.minters[a].mintedAmount
  BY <1>1, <1>2
<1>4. Minted(u) = Minted(t) /\ Supply(u) = Supply(t)
  BY <1>1, <1>3, SameMinted DEF Supply
<1>5. Cleared(u)
  BY <1>1 DEF Cleared
<1> QED
  BY <1>4, <1>5 DEF Booked, Matched

LEMMA RemoveMinterBooked ==
    ASSUME NEW t, Good(t), Cleared(t), NEW m \in Accounts, NEW u \in RemoveMinter(t, m)
    PROVE  Booked(t, u)
<1>1. /\ Good(u) /\ u.balanceOf = t.balanceOf /\ t.minters[m].isListed
      /\ ~u.minters[m].isListed /\ u.minters[m].mintedAmount = 0
      /\ \A a \in Accounts \ {m} : u.minters[a] = t.minters[a]
  BY RemoveMinterGood
<1>2. PICK n \in Int : n = 0 - t.minters[m].mintedAmount
  BY SumsAreInt
<1>3. u.minters[m].mintedAmount = t.minters[m].mintedAmount + n
  BY <1>1, <1>2, SumsAreInt
<1>4. Minted(u) = Minted(t) + n
  BY <1>1, <1>3, MintedChange
<1>5. Removed(t, u, m)
  BY <1>1, <1>2, <1>4, SumsAreInt DEF Removed, Supply
<1>6. Cleared(u)
  BY <1>1 DEF Cleared
<1> QED
  BY <1>5, <1>6 DEF Booked

\* Mint and burn: the minter's balance and its account change by the same amount.
LEMMA MintedBooked ==
    ASSUME NEW t, Good(t), Cleared(t), NEW u, Good(u), NEW m \in Accounts, NEW n \in Int,
           t.minters[m].isListed,
           u.balanceOf[m] = t.balanceOf[m] + n,
           \A a \in Accounts : a # m => u.balanceOf[a] = t.balanceOf[a],
           u.minters[m].mintedAmount = t.minters[m].mintedAmount + n,
           \A a \in Accounts : a # m => u.minters[a].mintedAmount = t.minters[a].mintedAmount,
           \A a \in Accounts : u.minters[a].isListed = t.minters[a].isListed
    PROVE  Booked(t, u)
<1>1. Supply(u) = Supply(t) + n
  BY SupplyChange
<1>2. Minted(u) = Minted(t) + n
  BY MintedChange
<1>3. Matched(t, u)
  BY <1>1, <1>2, SumsAreInt DEF Matched
<1>4. Cleared(u)
  BY DEF Cleared
<1> QED
  BY <1>3, <1>4 DEF Booked

LEMMA MintBooked ==
    ASSUME NEW t, Good(t), Cleared(t), NEW m \in Accounts, NEW amount \in Nat, NEW approves,
           NEW u \in Mint(t, m, amount, approves)
    PROVE  Booked(t, u)
<1>1. /\ Good(u) /\ t.minters[m].isListed
      /\ \A a \in Accounts :
            /\ u.minters[a].isListed = t.minters[a].isListed
            /\ u.minters[a].mintedAmount = IF a = m THEN t.minters[a].mintedAmount + amount
                                                   ELSE t.minters[a].mintedAmount
      /\ u.balanceOf[m] = t.balanceOf[m] + amount
      /\ \A b \in Accounts : b # m => u.balanceOf[b] = t.balanceOf[b]
  BY MintGood
<1>2. t.balanceOf \in [Accounts -> Int]
  BY SumsAreInt
<1>3. amount \in Int
  OBVIOUS
<1> QED
  BY <1>1, <1>2, <1>3, MintedBooked

LEMMA BurnBooked ==
    ASSUME NEW t, Good(t), Cleared(t), NEW m \in Accounts, NEW amount \in Nat, NEW approves,
           NEW u \in Burn(t, m, amount, approves)
    PROVE  Booked(t, u)
<1>1. /\ Good(u) /\ t.minters[m].isListed
      /\ \A a \in Accounts :
            /\ u.minters[a].isListed = t.minters[a].isListed
            /\ u.minters[a].mintedAmount = IF a = m THEN t.minters[a].mintedAmount - amount
                                                   ELSE t.minters[a].mintedAmount
      /\ u.balanceOf[m] = t.balanceOf[m] - amount
      /\ \A b \in Accounts : b # m => u.balanceOf[b] = t.balanceOf[b]
  BY BurnGood
<1>2. /\ t.balanceOf \in [Accounts -> Int]
      /\ \A a \in Accounts : t.minters[a].mintedAmount \in Nat
  BY SumsAreInt
<1>3. PICK n \in Int : n = 0 - amount
  OBVIOUS
<1>4. /\ u.balanceOf[m] = t.balanceOf[m] + n
      /\ u.minters[m].mintedAmount = t.minters[m].mintedAmount + n
  BY <1>1, <1>2, <1>3
<1> QED
  BY <1>1, <1>2, <1>4, MintedBooked

\* Whatever happens on one chain is one call of its contract, which is booked.
LEMMA OneChainBooked ==
    ASSUME IInv, NEW c \in Chains, Cleared(sweep[c]), OneChain(c)
    PROVE  \E t : Good(t) /\ Booked(sweep[c], t) /\ Commit(c, t)
<1> DEFINE Goal == \E t : Good(t) /\ Booked(sweep[c], t) /\ Commit(c, t)
<1>1. Good(sweep[c])
  BY IInvIsGood
<1>2. Amounts \subseteq Nat /\ Caps \subseteq Nat
  BY AmountsAssumption, CapsAssumption
<1>3. CASE pause(c) \/ unpause(c) \/ setTransferApprover(c)
  <2>1. PICK t \in Pause(sweep[c]) \cup Unpause(sweep[c]) \cup SetTransferApprover(sweep[c]) :
            Commit(c, t)
    BY <1>3 DEF pause, unpause, setTransferApprover
  <2>2. Good(t) /\ t.balanceOf = sweep[c].balanceOf /\ t.minters = sweep[c].minters
    BY <1>1, SwitchGood
  <2>3. Booked(sweep[c], t)
    BY <2>2, SameBooked DEF Supply
  <2> QED
    BY <2>1, <2>2, <2>3
<1>4. ASSUME NEW m \in Accounts, removeMinter(c, m)
      PROVE  Goal
  BY <1>1, <1>4, RemoveMinterGood, RemoveMinterBooked DEF removeMinter
<1>5. ASSUME NEW m \in Accounts, NEW enabled \in BOOLEAN, setMinterEnabled(c, m, enabled)
      PROVE  Goal
  <2>1. PICK t \in SetMinterEnabled(sweep[c], m, enabled) : Commit(c, t)
    BY <1>5 DEF setMinterEnabled
  <2>2. Good(t) /\ t.balanceOf = sweep[c].balanceOf /\ SameAmounts(sweep[c], t)
    BY <1>1, SetMinterEnabledGood
  <2>3. Booked(sweep[c], t)
    BY <2>2, SameBooked DEF Supply, SameAmounts
  <2> QED
    BY <2>1, <2>2, <2>3
<1>6. ASSUME NEW m \in Accounts, NEW cap \in Caps, addMinter(c, m, cap)
      PROVE  Goal
  BY <1>1, <1>2, <1>6, AddMinterGood, AddMinterBooked DEF addMinter
<1>7. ASSUME NEW m \in Accounts, NEW cap \in Caps, setMinterMaxAmount(c, m, cap)
      PROVE  Goal
  <2>1. PICK t \in SetMinterMaxAmount(sweep[c], m, cap) : Commit(c, t)
    BY <1>7 DEF setMinterMaxAmount
  <2>2. Good(t) /\ t.balanceOf = sweep[c].balanceOf /\ SameAmounts(sweep[c], t)
    BY <1>1, <1>2, SetMinterMaxAmountGood
  <2>3. Booked(sweep[c], t)
    BY <2>2, SameBooked DEF Supply, SameAmounts
  <2> QED
    BY <2>1, <2>2, <2>3
<1>8. ASSUME NEW m \in Accounts, NEW a \in Amounts, mint(c, m, a)
      PROVE  Goal
  <2>1. PICK t \in Mint(sweep[c], m, a, TRUE) : Commit(c, t)
    BY <1>8 DEF mint
  <2> QED
    BY <1>1, <1>2, <2>1, MintGood, MintBooked
<1>9. ASSUME NEW m \in Accounts, NEW a \in Amounts, burn(c, m, a)
      PROVE  Goal
  <2>1. PICK t \in Burn(sweep[c], m, a, TRUE) : Commit(c, t)
    BY <1>9 DEF burn
  <2> QED
    BY <1>1, <1>2, <2>1, BurnGood, BurnBooked
<1>10. ASSUME NEW from \in Accounts, NEW to \in Accounts, NEW a \in Amounts,
              transfer(c, from, to, a)
       PROVE  Goal
  <2>1. PICK t \in Transfer(sweep[c], from, to, a, TRUE) : Commit(c, t)
    BY <1>10 DEF transfer
  <2> a \in Nat
    BY <1>2
  <2>2. Good(t) /\ KeepsMinters(sweep[c], t)
    BY <1>1, <2>1, TransferGood
  <2>3. KeepsSupply(sweep[c], t)
    BY <1>1, <2>1, TransferKeepsSupply
  <2>4. Booked(sweep[c], t)
    BY <2>2, <2>3, SameBooked DEF KeepsMinters, KeepsSupply
  <2> QED
    BY <2>1, <2>2, <2>4
<1> QED
  BY <1>3, <1>4, <1>5, <1>6, <1>7, <1>8, <1>9, <1>10 DEF OneChain

-----------------------------------------------------------------------------
(* The invariant of the books *)

\* n messages were sent on the path, the last ones are still on it.
LastOnes(path, n) == \A i \in 1 .. Len(path) : path[i].nonce = n - Len(path) + i

\* The messages on a path are the last ones sent on it, in order; failed ones are older.
Numbered ==
    /\ \A s, d \in Chains : LastOnes(channel[s][d], nonce[s][d])
    /\ \A d \in Chains :
          /\ IsFiniteSet(failed[d])
          /\ \A f \in failed[d] : f.nonce <= nonce[f.src][d] - Len(channel[f.src][d])

Books == IInv /\ Numbered /\ \A c \in Chains : Cleared(sweep[c])

LEMMA InitBooks == Init => Books
<1> SUFFICES ASSUME Init PROVE Books
  OBVIOUS
<1>1. IInv
  BY InitIInv
<1>2. Numbered
  BY FS_EmptySet DEF Init, Numbered, LastOnes
<1>3. \A c \in Chains : Cleared(sweep[c])
  BY DEF Init, InitBaseSweep, NoMinter, Cleared
<1> QED
  BY <1>1, <1>2, <1>3 DEF Books

\* One contract moves on; its minters stay cleared, and so do the others'.
LEMMA OneContractCleared ==
    ASSUME Books, NEW c \in Chains, NEW t, Cleared(t), sweep' = [sweep EXCEPT ![c] = t]
    PROVE  (\A e \in Chains : Cleared(sweep[e]))'
<1>1. \A e \in Chains : sweep'[e] = IF e = c THEN t ELSE sweep[e]
  BY DEF Books, IInv, TypeOK
<1> QED
  BY <1>1 DEF Books

LEMMA ClearedBySameMinters ==
    ASSUME NEW t, Cleared(t), NEW u, KeepsMinters(t, u)
    PROVE  Cleared(u)
BY DEF Cleared, KeepsMinters

LEMMA OneChainBooks ==
    ASSUME Books, NEW c \in Chains, OneChain(c)
    PROVE  Books'
<1>1. PICK t : Booked(sweep[c], t) /\ Commit(c, t)
  BY OneChainBooked DEF Books
<1>2. (\A e \in Chains : Cleared(sweep[e]))'
  BY <1>1, OneContractCleared DEF Booked, Commit
<1>3. Numbered'
  BY <1>1 DEF Books, Numbered, Commit
<1> QED
  BY <1>2, <1>3, OneChainKeeps DEF Books

LEMMA SendNumbered ==
    ASSUME NEW path \in Seq(Message), NEW n \in Nat, LastOnes(path, n),
           NEW m \in Message, m.nonce = n + 1
    PROVE  /\ LastOnes(Append(path, m), n + 1)
           /\ (n + 1) - Len(Append(path, m)) = n - Len(path)
           /\ \A i \in 1 .. Len(path) : path[i] # m
<1>1. /\ Len(path) \in Nat /\ Len(Append(path, m)) = Len(path) + 1
      /\ \A i \in 1 .. Len(path) : Append(path, m)[i] = path[i]
      /\ Append(path, m)[Len(path) + 1] = m
  OBVIOUS
<1>2. \A i \in 1 .. Len(path) : path[i].nonce = n - Len(path) + i
  BY DEF LastOnes
<1>3. ASSUME NEW i \in 1 .. Len(path) + 1
      PROVE  Append(path, m)[i].nonce = (n + 1) - (Len(path) + 1) + i
  <2>1. CASE i = Len(path) + 1
    BY <1>1, <2>1
  <2>2. CASE i \in 1 .. Len(path)
    <3>1. path[i].nonce = n - Len(path) + i /\ Append(path, m)[i] = path[i]
      BY <1>1, <1>2, <2>2
    <3> QED
      BY <1>1, <2>2, <3>1
  <2> QED
    BY <1>1, <2>1, <2>2
<1>4. ASSUME NEW i \in 1 .. Len(path), path[i] = m
      PROVE  FALSE
  <2>1. n + 1 = n - Len(path) + i
    BY <1>2, <1>4
  <2> QED
    BY <1>1, <2>1
<1> QED
  BY <1>1, <1>3, <1>4 DEF LastOnes

LEMMA DeliverNumbered ==
    ASSUME NEW path \in Seq(Message), path # <<>>, NEW n \in Nat, LastOnes(path, n)
    PROVE  /\ LastOnes(Tail(path), n)
           /\ n - Len(Tail(path)) = n - Len(path) + 1
           /\ Head(path).nonce = n - Len(path) + 1
           /\ \A i \in 2 .. Len(path) : path[i] # Head(path)
<1>1. /\ Len(path) \in Nat /\ Len(path) >= 1 /\ Len(Tail(path)) = Len(path) - 1
      /\ \A i \in 1 .. Len(path) - 1 : Tail(path)[i] = path[i + 1]
      /\ Head(path) = path[1]
  OBVIOUS
<1>2. \A i \in 1 .. Len(path) : path[i].nonce = n - Len(path) + i
  BY DEF LastOnes
<1>3. ASSUME NEW i \in 1 .. Len(path) - 1
      PROVE  Tail(path)[i].nonce = n - (Len(path) - 1) + i
  <2>1. i + 1 \in 1 .. Len(path)
    BY <1>1
  <2>2. path[i + 1].nonce = n - Len(path) + (i + 1) /\ Tail(path)[i] = path[i + 1]
    BY <1>1, <1>2, <2>1
  <2> QED
    BY <1>1, <2>2
<1>4. path[1].nonce = n - Len(path) + 1
  BY <1>1, <1>2
<1>5. ASSUME NEW i \in 2 .. Len(path), path[i] = path[1]
      PROVE  FALSE
  <2>1. path[i].nonce = n - Len(path) + i
    BY <1>1, <1>2
  <2> QED
    BY <1>1, <1>4, <1>5, <2>1
<1> QED
  BY <1>1, <1>3, <1>4, <1>5 DEF LastOnes

LEMMA SendFromBooks ==
    ASSUME Books, NEW s \in Chains, NEW d \in Chains, NEW from \in Accounts,
           NEW to \in Accounts, NEW a \in Amounts, sendFrom(s, d, from, to, a)
    PROVE  Books'
<1>1. IInv'
  BY SendFromKeeps DEF Books
<1>2. PICK t \in DebitFrom(sweep[s], from, a, TRUE) : sweep' = [sweep EXCEPT ![s] = t]
  BY DEF sendFrom
<1>3. KeepsMinters(sweep[s], t)
  <2>1. Good(sweep[s]) /\ a \in Nat
    BY AmountsAssumption, IInvIsGood DEF Books
  <2> QED
    BY <1>2, <2>1, DebitFromGood
<1>4. (\A e \in Chains : Cleared(sweep[e]))'
  BY <1>2, <1>3, ClearedBySameMinters, OneContractCleared DEF Books
<1> DEFINE m == [nonce |-> nonce[s][d] + 1, to |-> to, amount |-> a]
<1>5. /\ \A r, e \in Chains :
            /\ channel[r][e] \in Seq(Message) /\ nonce[r][e] \in Nat
            /\ channel'[r][e] = IF r = s /\ e = d THEN Append(channel[r][e], m)
                                                  ELSE channel[r][e]
            /\ nonce'[r][e] = IF r = s /\ e = d THEN nonce[r][e] + 1 ELSE nonce[r][e]
      /\ failed' = failed
  <2>1. /\ channel \in [Chains -> [Chains -> Seq(Message)]]
        /\ nonce \in [Chains -> [Chains -> Nat]]
    BY DEF Books, IInv, TypeOK
  <2> HIDE DEF m
  <2>2. channel' = [channel EXCEPT ![s] = [channel[s] EXCEPT ![d] = Append(channel[s][d], m)]]
    BY <2>1 DEF sendFrom, m
  <2>3. nonce' = [nonce EXCEPT ![s] = [nonce[s] EXCEPT ![d] = nonce[s][d] + 1]]
    BY <2>1 DEF sendFrom
  <2>4. failed' = failed
    BY DEF sendFrom
  <2> QED
    BY <2>1, <2>2, <2>3, <2>4
<1>6. m \in Message /\ m.nonce = nonce[s][d] + 1
  BY <1>5, AmountsAssumption DEF Message
<1> HIDE DEF m
<1>7. \A r, e \in Chains :
        /\ LastOnes(channel'[r][e], nonce'[r][e])
        /\ nonce'[r][e] - Len(channel'[r][e]) = nonce[r][e] - Len(channel[r][e])
  <2>1. /\ LastOnes(Append(channel[s][d], m), nonce[s][d] + 1)
        /\ (nonce[s][d] + 1) - Len(Append(channel[s][d], m)) = nonce[s][d] - Len(channel[s][d])
    BY <1>5, <1>6, SendNumbered DEF Books, Numbered
  <2>2. \A r, e \in Chains : LastOnes(channel[r][e], nonce[r][e])
    BY DEF Books, Numbered
  <2> TAKE r, e \in Chains
  <2>3. CASE r = s /\ e = d
    <3>1. channel'[r][e] = Append(channel[s][d], m) /\ nonce'[r][e] = nonce[s][d] + 1
      BY <1>5, <2>3
    <3> QED
      BY <2>1, <2>3, <3>1
  <2>4. CASE ~(r = s /\ e = d)
    <3>1. channel'[r][e] = channel[r][e] /\ nonce'[r][e] = nonce[r][e]
      BY <1>5, <2>4
    <3> QED
      BY <2>2, <3>1
  <2> QED
    BY <2>3, <2>4
<1>8. ASSUME NEW e \in Chains
      PROVE  /\ IsFiniteSet(failed'[e])
             /\ \A f \in failed'[e] : f.nonce <= nonce'[f.src][e] - Len(channel'[f.src][e])
  <2>1. /\ IsFiniteSet(failed[e])
        /\ \A f \in failed[e] : f.nonce <= nonce[f.src][e] - Len(channel[f.src][e])
    BY DEF Books, Numbered
  <2>2. \A f \in failed[e] : f.src \in Chains
    BY DEF Books, IInv, TypeOK, FailedMessage
  <2> QED
    BY <1>5, <1>7, <2>1, <2>2
<1>9. Numbered'
  BY <1>7, <1>8 DEF Numbered
<1> QED
  BY <1>1, <1>4, <1>9 DEF Books

\* What a delivery does to the paths.
LEMMA Delivered ==
    ASSUME IInv, NEW s \in Chains, NEW d \in Chains, NEW approves \in BOOLEAN,
           lzReceive(s, d, approves)
    PROVE  /\ channel[s][d] # <<>>
           /\ \A r, e \in Chains :
                 /\ channel[r][e] \in Seq(Message) /\ nonce[r][e] \in Nat
                 /\ channel'[r][e] = IF r = s /\ e = d THEN Tail(channel[r][e])
                                                       ELSE channel[r][e]
           /\ nonce' = nonce
<1>1. /\ channel \in [Chains -> [Chains -> Seq(Message)]]
      /\ nonce \in [Chains -> [Chains -> Nat]]
  BY DEF IInv, TypeOK
<1>2. channel' = [channel EXCEPT ![s] = [channel[s] EXCEPT ![d] = Tail(channel[s][d])]]
  BY <1>1 DEF lzReceive
<1>3. channel[s][d] # <<>> /\ nonce' = nonce
  BY DEF lzReceive
<1> QED
  BY <1>1, <1>2, <1>3


\* A delivery keeps what is on the paths in order and leaves all other numbers alone.
LEMMA DeliveredNumbers ==
    ASSUME Books, NEW s \in Chains, NEW d \in Chains, NEW approves \in BOOLEAN,
           lzReceive(s, d, approves)
    PROVE  \A r, e \in Chains :
              /\ LastOnes(channel'[r][e], nonce'[r][e])
              /\ nonce'[r][e] - Len(channel'[r][e]) =
                    nonce[r][e] - Len(channel[r][e]) + (IF r = s /\ e = d THEN 1 ELSE 0)
<1>1. /\ channel[s][d] # <<>>
      /\ \A r, e \in Chains :
            /\ channel[r][e] \in Seq(Message) /\ nonce[r][e] \in Nat
            /\ channel'[r][e] = IF r = s /\ e = d THEN Tail(channel[r][e]) ELSE channel[r][e]
      /\ nonce' = nonce
  BY Delivered DEF Books
<1>2. \A r, e \in Chains : LastOnes(channel[r][e], nonce[r][e])
  BY DEF Books, Numbered
<1> TAKE r, e \in Chains
<1>3. CASE r = s /\ e = d
  <2>1. channel'[r][e] = Tail(channel[s][d]) /\ nonce'[r][e] = nonce[s][d]
    BY <1>1, <1>3
  <2>2. /\ LastOnes(Tail(channel[s][d]), nonce[s][d])
        /\ nonce[s][d] - Len(Tail(channel[s][d])) = nonce[s][d] - Len(channel[s][d]) + 1
    BY <1>1, <1>2, DeliverNumbered
  <2> QED
    BY <1>3, <2>1, <2>2
<1>4. CASE ~(r = s /\ e = d)
  <2>1. channel'[r][e] = channel[r][e] /\ nonce'[r][e] = nonce[r][e]
    BY <1>1, <1>4
  <2>2. channel[r][e] \in Seq(Message) /\ nonce[r][e] \in Nat
    BY <1>1
  <2>3. Len(channel[r][e]) \in Nat
    BY <2>2
  <2> QED
    BY <1>2, <1>4, <2>1, <2>2, <2>3
<1> QED
  BY <1>3, <1>4

LEMMA LzReceiveBooks ==
    ASSUME Books, NEW s \in Chains, NEW d \in Chains, NEW approves \in BOOLEAN,
           lzReceive(s, d, approves)
    PROVE  Books'
<1> DEFINE m == Head(channel[s][d])
           f == [src |-> s, nonce |-> m.nonce, to |-> m.to, amount |-> m.amount]
<1>1. IInv'
  BY LzReceiveKeeps DEF Books
<1>2. channel[s][d] # <<>> /\ m.to \in Accounts /\ m.amount \in Nat /\ m.nonce \in Nat
  BY Delivered, HeadIsMessage DEF Books
<1>3. \A r, e \in Chains :
        /\ LastOnes(channel'[r][e], nonce'[r][e])
        /\ nonce'[r][e] - Len(channel'[r][e]) =
              nonce[r][e] - Len(channel[r][e]) + (IF r = s /\ e = d THEN 1 ELSE 0)
  BY DeliveredNumbers
<1>4. m.nonce = nonce[s][d] - Len(channel[s][d]) + 1
  <2>1. channel[s][d] \in Seq(Message) /\ nonce[s][d] \in Nat
    BY DEF Books, IInv, TypeOK
  <2> QED
    BY <1>2, <2>1, DeliverNumbered DEF Books, Numbered
<1>5. \A e \in Chains :
        /\ IsFiniteSet(failed[e])
        /\ \A g \in failed[e] :
              g.src \in Chains /\ g.nonce \in Nat
                /\ g.nonce <= nonce[g.src][e] - Len(channel[g.src][e])
  BY DEF Books, Numbered, IInv, TypeOK, FailedMessage
<1>6. \A r, e \in Chains : nonce[r][e] - Len(channel[r][e]) \in Int
  <2>1. \A r, e \in Chains : channel[r][e] \in Seq(Message) /\ nonce[r][e] \in Nat
    BY DEF Books, IInv, TypeOK
  <2> QED
    BY <2>1
<1>7. failed' = failed \/ failed' = [failed EXCEPT ![d] = @ \cup {f}]
  BY DEF lzReceive
<1>8. f.src = s /\ f.nonce = m.nonce
  OBVIOUS
<1> HIDE DEF f, m
<1>9. ASSUME NEW e \in Chains
      PROVE  /\ IsFiniteSet(failed'[e])
             /\ \A g \in failed'[e] : g.nonce <= nonce'[g.src][e] - Len(channel'[g.src][e])
  <2>1. failed'[e] = failed[e] \/ (e = d /\ failed'[e] = failed[e] \cup {f})
    BY <1>7 DEF Books, IInv, TypeOK
  <2>2. IsFiniteSet(failed'[e])
    BY <1>5, <2>1, FS_AddElement
  <2>3. ASSUME NEW g \in failed[e]
        PROVE  g.nonce <= nonce'[g.src][e] - Len(channel'[g.src][e])
    <3>1. /\ g.src \in Chains /\ g.nonce \in Nat
          /\ g.nonce <= nonce[g.src][e] - Len(channel[g.src][e])
      BY <1>5
    <3>2. nonce'[g.src][e] - Len(channel'[g.src][e]) =
              nonce[g.src][e] - Len(channel[g.src][e]) + (IF g.src = s /\ e = d THEN 1 ELSE 0)
      BY <1>3, <3>1
    <3>3. PICK old \in Int : old = nonce[g.src][e] - Len(channel[g.src][e])
      BY <1>6, <3>1
    <3>4. PICK new : new = nonce'[g.src][e] - Len(channel'[g.src][e])
      OBVIOUS
    <3>5. g.nonce <= old /\ (new = old \/ new = old + 1)
      BY <3>1, <3>2, <3>3, <3>4
    <3>6. g.nonce <= new
      BY <3>1, <3>5
    <3> QED
      BY <3>4, <3>6
  <2>4. CASE e = d
    <3>1. nonce'[s][d] - Len(channel'[s][d]) = m.nonce
      BY <1>3, <1>4
    <3>2. f.nonce <= nonce'[f.src][e] - Len(channel'[f.src][e])
      BY <1>2, <1>8, <2>4, <3>1
    <3> QED
      BY <2>1, <2>2, <2>3, <3>2
  <2> QED
    BY <2>1, <2>2, <2>3, <2>4
<1>10. Numbered'
  BY <1>3, <1>9 DEF Numbered
<1>11. (\A e \in Chains : Cleared(sweep[e]))'
  <2>1. CASE UNCHANGED sweep
    BY <2>1 DEF Books
  <2>2. ASSUME NEW t \in CreditTo(sweep[d], m.to, m.amount, approves),
               sweep' = [sweep EXCEPT ![d] = t]
        PROVE  (\A e \in Chains : Cleared(sweep[e]))'
    <3>1. Good(sweep[d])
      BY IInvIsGood DEF Books
    <3>2. KeepsMinters(sweep[d], t)
      BY <1>2, <2>2, <3>1, CreditToGood
    <3> QED
      BY <2>2, <3>2, ClearedBySameMinters, OneContractCleared DEF Books
  <2> QED
    BY <2>1, <2>2 DEF lzReceive, m
<1> QED
  BY <1>1, <1>10, <1>11 DEF Books

LEMMA RetryMessageBooks ==
    ASSUME Books, NEW d \in Chains, NEW f \in failed[d], retryMessage(d, f)
    PROVE  Books'
<1>1. IInv'
  BY RetryMessageKeeps DEF Books
<1>2. PICK t \in CreditTo(sweep[d], f.to, f.amount, TRUE) : sweep' = [sweep EXCEPT ![d] = t]
  BY DEF retryMessage
<1>3. KeepsMinters(sweep[d], t)
  <2>1. Good(sweep[d]) /\ f.to \in Accounts /\ f.amount \in Nat
    BY IInvIsGood, FailedIsMessage DEF Books
  <2> QED
    BY <1>2, <2>1, CreditToGood
<1>4. (\A e \in Chains : Cleared(sweep[e]))'
  BY <1>2, <1>3, ClearedBySameMinters, OneContractCleared DEF Books
<1>5. /\ \A e \in Chains : failed'[e] = failed[e] \/ failed'[e] = failed[e] \ {f}
      /\ channel' = channel /\ nonce' = nonce
  BY DEF Books, IInv, TypeOK, retryMessage
<1>6. \A e \in Chains : IsFiniteSet(failed'[e])
  BY <1>5, FS_RemoveElement DEF Books, Numbered
<1>7. Numbered'
  BY <1>5, <1>6 DEF Books, Numbered
<1> QED
  BY <1>1, <1>4, <1>7 DEF Books

LEMMA NextBooks == Books /\ [Next]_vars => Books'
<1> SUFFICES ASSUME Books, [Next]_vars PROVE Books'
  OBVIOUS
<1>1. ASSUME NEW c \in Chains, OneChain(c)
      PROVE  Books'
  BY <1>1, OneChainBooks
<1>2. ASSUME NEW s \in Chains, NEW d \in Chains, NEW from \in Accounts,
             NEW to \in Accounts, NEW a \in Amounts, sendFrom(s, d, from, to, a)
      PROVE  Books'
  BY <1>2, SendFromBooks
<1>3. ASSUME NEW s \in Chains, NEW d \in Chains, NEW approves \in BOOLEAN,
             lzReceive(s, d, approves)
      PROVE  Books'
  BY <1>3, LzReceiveBooks
<1>4. ASSUME NEW d \in Chains, NEW f \in failed[d], retryMessage(d, f)
      PROVE  Books'
  BY <1>4, RetryMessageBooks
<1>5. CASE UNCHANGED vars
  <2>1. IInv'
    BY <1>5, NextIInv DEF Books
  <2> QED
    BY <1>5, <2>1 DEF vars, Books, Numbered
<1> QED
  BY <1>1, <1>2, <1>3, <1>4, <1>5 DEF Next

-----------------------------------------------------------------------------
(* What there is and what minters account for, on all chains *)

OnPath(s, d) == AmountIn(Range(channel[s][d]))
Waiting(d) == SumOf([s \in Chains |-> OnPath(s, d)])
Held(d) == Supply(sweep[d]) + AmountIn(failed[d]) + Waiting(d)

Numbers ==
    \A d \in Chains :
        /\ \A s \in Chains : OnPath(s, d) \in Int
        /\ AmountIn(failed[d]) \in Int /\ Waiting(d) \in Int /\ Held(d) \in Int
        /\ Supply(sweep[d]) \in Int /\ Minted(sweep[d]) \in Int

LEMMA BooksNumbers == Books => Numbers
<1> SUFFICES ASSUME Books, NEW d \in Chains
             PROVE  /\ \A s \in Chains : OnPath(s, d) \in Int
                    /\ AmountIn(failed[d]) \in Int /\ Waiting(d) \in Int /\ Held(d) \in Int
                    /\ Supply(sweep[d]) \in Int /\ Minted(sweep[d]) \in Int
  BY DEF Numbers
<1>1. Supply(sweep[d]) \in Int /\ Minted(sweep[d]) \in Int
  BY IInvIsGood, SumsAreInt DEF Books
<1>2. \A s \in Chains : OnPath(s, d) \in Int
  <2>1. \A s \in Chains : channel[s][d] \in Seq(Message)
    BY DEF Books, IInv, TypeOK
  <2> QED
    BY <2>1, PathMessages, AmountInInt DEF OnPath
<1>3. AmountIn(failed[d]) \in Int
  <2>1. IsFiniteSet(failed[d]) /\ \A f \in failed[d] : f.amount \in Nat
    BY DEF Books, Numbered, IInv, TypeOK, FailedMessage
  <2> QED
    BY <2>1, AmountInInt
<1>4. Waiting(d) \in Int
  <2>1. [s \in Chains |-> OnPath(s, d)] \in [Chains -> Int]
    BY <1>2
  <2> QED
    BY <2>1, FiniteAssumption, SumInt DEF Waiting
<1> QED
  BY <1>1, <1>2, <1>3, <1>4 DEF Held

LEMMA CirculatingIsHeld == Circulating = SumOf([d \in Chains |-> Held(d)])
BY DEF Circulating, Held, Waiting, OnPath

LEMMA AccountedIsMinted == Accounted = SumOf([c \in Chains |-> Minted(sweep[c])])
BY DEF Accounted, Minted

\* The sums of the next state are as much about numbers as those of this one.
LEMMA NextNumbers ==
    ASSUME Books, [Next]_vars
    PROVE  /\ Numbers /\ Numbers'
           /\ Circulating' = SumOf([d \in Chains |-> Held(d)'])
           /\ Accounted' = SumOf([c \in Chains |-> Minted(sweep'[c])])
<1>1. Books'
  BY NextBooks
<1>2. Numbers
  BY BooksNumbers
<1>3. Books' => Numbers'
  BY BooksNumbers, PTL
<1>4. Circulating' = SumOf([d \in Chains |-> Held(d)'])
  BY DEF Circulating, Held, Waiting, OnPath
<1>5. Accounted' = SumOf([c \in Chains |-> Minted(sweep'[c])])
  BY DEF Accounted, Minted
<1> QED
  BY <1>1, <1>2, <1>3, <1>4, <1>5

\* What one chain holds changes by n, and so does what there is.
LEMMA HeldChange ==
    ASSUME Books, [Next]_vars, NEW d \in Chains, NEW n \in Int,
           Held(d)' = Held(d) + n, \A e \in Chains : e # d => Held(e)' = Held(e)
    PROVE  Circulating' = Circulating + n /\ Circulating \in Int
<1> DEFINE f == [e \in Chains |-> Held(e)]
           g == [e \in Chains |-> Held(e)']
<1>1. Numbers /\ Numbers' /\ Circulating = SumOf(f) /\ Circulating' = SumOf(g)
  BY NextNumbers, CirculatingIsHeld
<1>2. /\ \A e \in Chains : Held(e) \in Int
      /\ \A e \in Chains : Held(e)' \in Int
  BY <1>1 DEF Numbers
<1>3. f \in [Chains -> Int] /\ g \in [Chains -> Int]
  BY <1>2
<1>4. g[d] = f[d] + n /\ f[d] \in Int /\ \A e \in Chains : e # d => g[e] = f[e]
  BY <1>2
<1> HIDE DEF f, g
<1>5. SumOf(g) = SumOf(f) - f[d] + g[d] /\ SumOf(f) \in Int
  BY <1>3, <1>4, FiniteAssumption, SumChange, SumInt
<1> QED
  BY <1>1, <1>4, <1>5

\* SWEEP moves from what one chain holds to what another does.
LEMMA HeldMove ==
    ASSUME Books, [Next]_vars, NEW s \in Chains, NEW d \in Chains, s # d, NEW n \in Int,
           Held(s)' = Held(s) - n, Held(d)' = Held(d) + n,
           \A e \in Chains : e # s /\ e # d => Held(e)' = Held(e)
    PROVE  Circulating' = Circulating
<1> DEFINE f == [e \in Chains |-> Held(e)]
           g == [e \in Chains |-> Held(e)']
<1>1. Numbers /\ Numbers' /\ Circulating = SumOf(f) /\ Circulating' = SumOf(g)
  BY NextNumbers, CirculatingIsHeld
<1>2. /\ \A e \in Chains : Held(e) \in Int
      /\ \A e \in Chains : Held(e)' \in Int
  BY <1>1 DEF Numbers
<1>3. f \in [Chains -> Int] /\ g \in [Chains -> Int]
  BY <1>2
<1>4. /\ g[s] = f[s] - n /\ g[d] = f[d] + n
      /\ \A e \in Chains : e # s /\ e # d => g[e] = f[e]
  OBVIOUS
<1> HIDE DEF f, g
<1>5. SumOf(g) = SumOf(f)
  BY <1>3, <1>4, FiniteAssumption, SumMove
<1> QED
  BY <1>1, <1>5

LEMMA AccountedChange ==
    ASSUME Books, [Next]_vars, NEW c \in Chains, NEW n \in Int,
           Minted(sweep'[c]) = Minted(sweep[c]) + n,
           \A e \in Chains : e # c => Minted(sweep'[e]) = Minted(sweep[e])
    PROVE  Accounted' = Accounted + n /\ Accounted \in Int
<1> DEFINE f == [e \in Chains |-> Minted(sweep[e])]
           g == [e \in Chains |-> Minted(sweep'[e])]
<1>1. Numbers /\ Numbers' /\ Accounted = SumOf(f) /\ Accounted' = SumOf(g)
  BY NextNumbers, AccountedIsMinted
<1>2. /\ \A e \in Chains : Minted(sweep[e]) \in Int
      /\ \A e \in Chains : Minted(sweep'[e]) \in Int
  BY <1>1 DEF Numbers
<1>3. f \in [Chains -> Int] /\ g \in [Chains -> Int]
  BY <1>2
<1>4. g[c] = f[c] + n /\ f[c] \in Int /\ \A e \in Chains : e # c => g[e] = f[e]
  BY <1>2
<1> HIDE DEF f, g
<1>5. SumOf(g) = SumOf(f) - f[c] + g[c] /\ SumOf(f) \in Int
  BY <1>3, <1>4, FiniteAssumption, SumChange, SumInt
<1> QED
  BY <1>1, <1>4, <1>5

\* Minters that stay as they are on every chain keep what is accounted for.
LEMMA SameAccounted ==
    ASSUME \A e \in Chains : KeepsMinters(sweep[e], sweep'[e])
    PROVE  Accounted' = Accounted
<1>1. \A e \in Chains : Minted(sweep'[e]) = Minted(sweep[e])
  BY SameMinted DEF KeepsMinters
<1>2. [e \in Chains |-> Minted(sweep'[e])] = [e \in Chains |-> Minted(sweep[e])]
  BY <1>1
<1>3. /\ Accounted = SumOf([c \in Chains |-> Minted(sweep[c])])
      /\ Accounted' = SumOf([c \in Chains |-> Minted(sweep'[c])])
  BY DEF Accounted, Minted
<1> QED
  BY <1>2, <1>3

\* What waits for a chain changes with what is on one path to it.
LEMMA WaitingChange ==
    ASSUME Books, [Next]_vars, NEW s \in Chains, NEW d \in Chains, NEW n \in Int,
           OnPath(s, d)' = OnPath(s, d) + n,
           \A r \in Chains : r # s => OnPath(r, d)' = OnPath(r, d)
    PROVE  Waiting(d)' = Waiting(d) + n
<1> DEFINE f == [r \in Chains |-> OnPath(r, d)]
           g == [r \in Chains |-> OnPath(r, d)']
<1>1. Numbers /\ Numbers'
  BY NextNumbers
<1>2. Waiting(d) = SumOf(f) /\ Waiting(d)' = SumOf(g)
  BY DEF Waiting
<1>3. /\ \A r \in Chains : OnPath(r, d) \in Int
      /\ \A r \in Chains : OnPath(r, d)' \in Int
  BY <1>1 DEF Numbers
<1>4. f \in [Chains -> Int] /\ g \in [Chains -> Int]
  BY <1>3
<1>5. g[s] = f[s] + n /\ f[s] \in Int /\ \A r \in Chains : r # s => g[r] = f[r]
  BY <1>3
<1> HIDE DEF f, g
<1>6. SumOf(g) = SumOf(f) - f[s] + g[s] /\ SumOf(f) \in Int
  BY <1>4, <1>5, FiniteAssumption, SumChange, SumInt
<1> QED
  BY <1>2, <1>5, <1>6

LEMMA WaitingSame ==
    ASSUME NEW d \in Chains, \A r \in Chains : channel'[r][d] = channel[r][d]
    PROVE  Waiting(d)' = Waiting(d)
<1>1. \A r \in Chains : OnPath(r, d)' = OnPath(r, d)
  BY DEF OnPath
<1>2. [r \in Chains |-> OnPath(r, d)'] = [r \in Chains |-> OnPath(r, d)]
  BY <1>1
<1>3. Waiting(d) = SumOf([r \in Chains |-> OnPath(r, d)])
  BY DEF Waiting
<1>4. Waiting(d)' = SumOf([r \in Chains |-> OnPath(r, d)'])
  BY DEF Waiting
<1> QED
  BY <1>2, <1>3, <1>4

-----------------------------------------------------------------------------
(* Backing *)

BackingKept ==
    \/ Circulating' - Accounted' = Circulating - Accounted
    \/ \E c \in Chains, m \in Accounts :
          /\ sweep[c].minters[m].isListed /\ ~sweep'[c].minters[m].isListed
          /\ Circulating' - Accounted' =
                Circulating - Accounted + sweep[c].minters[m].mintedAmount

\* One call of a contract: both sides change by what it books, or a minter goes.
LEMMA OneChainBacking ==
    ASSUME Books, NEW c \in Chains, OneChain(c)
    PROVE  BackingKept
<1>1. PICK t : Good(t) /\ Booked(sweep[c], t) /\ Commit(c, t)
  BY OneChainBooked DEF Books
<1>2. [Next]_vars
  BY DEF Next
<1>3. Numbers /\ Numbers'
  BY <1>2, NextNumbers
<1>4. /\ sweep'[c] = t /\ \A e \in Chains : e # c => sweep'[e] = sweep[e]
      /\ failed' = failed /\ channel' = channel
  BY <1>1 DEF Commit, Books, IInv, TypeOK
<1>5. Supply(t) \in Int /\ Minted(t) \in Int
  BY <1>1, SumsAreInt
<1>6. Supply(sweep[c]) \in Int /\ Minted(sweep[c]) \in Int
  BY <1>3 DEF Numbers
<1>7. PICK n \in Int : n = Supply(t) - Supply(sweep[c])
  BY <1>5, <1>6
<1>8. PICK k \in Int : k = Minted(t) - Minted(sweep[c])
  BY <1>5, <1>6
<1>9. /\ Held(c)' = Held(c) + n
      /\ \A e \in Chains : e # c => Held(e)' = Held(e)
  <2>1. \A e \in Chains : /\ Waiting(e)' = Waiting(e)
                         /\ AmountIn(failed'[e]) = AmountIn(failed[e])
    BY <1>4, WaitingSame
  <2>2. \A e \in Chains : Waiting(e) \in Int /\ AmountIn(failed[e]) \in Int
    BY <1>3 DEF Numbers
  <2> QED
    BY <1>4, <1>5, <1>6, <1>7, <2>1, <2>2 DEF Held
<1>10. Circulating' = Circulating + n /\ Circulating \in Int
  BY <1>2, <1>9, HeldChange
<1>11. Accounted' = Accounted + k /\ Accounted \in Int
  <2>1. Minted(sweep'[c]) = Minted(sweep[c]) + k
    BY <1>4, <1>5, <1>6, <1>8
  <2> QED
    BY <1>2, <1>4, <2>1, AccountedChange
<1>12. CASE Matched(sweep[c], t)
  <2>1. n = k
    BY <1>5, <1>6, <1>7, <1>8, <1>12 DEF Matched
  <2> QED
    BY <1>10, <1>11, <2>1 DEF BackingKept
<1>13. ASSUME NEW m \in Accounts, Removed(sweep[c], t, m)
       PROVE  BackingKept
  <2>1. sweep[c].minters[m].mintedAmount \in Int
    BY IInvIsGood, SumsAreInt DEF Books
  <2>2. n = 0 /\ k = 0 - sweep[c].minters[m].mintedAmount
    BY <1>5, <1>6, <1>7, <1>8, <1>13, <2>1 DEF Removed
  <2>3. Circulating' - Accounted' =
            Circulating - Accounted + sweep[c].minters[m].mintedAmount
    BY <1>10, <1>11, <2>1, <2>2
  <2>4. sweep[c].minters[m].isListed /\ ~sweep'[c].minters[m].isListed
    BY <1>4, <1>13 DEF Removed
  <2> QED
    BY <2>3, <2>4 DEF BackingKept
<1> QED
  BY <1>1, <1>12, <1>13 DEF Booked

\* What a contract's balances change by is what its supply does.
LEMMA MovedSupply ==
    ASSUME NEW t, Good(t), NEW u, Good(u), NEW a \in Accounts, NEW n \in Int,
           BalanceMoves(t, u, a, n)
    PROVE  Supply(u) = Supply(t) + n
BY SupplyChange DEF BalanceMoves

\* SWEEP that leaves a chain waits for the other one.
LEMMA SendFromBacking ==
    ASSUME Books, NEW s \in Chains, NEW d \in Chains, NEW from \in Accounts,
           NEW to \in Accounts, NEW a \in Amounts, sendFrom(s, d, from, to, a)
    PROVE  BackingKept
<1>1. PICK t \in DebitFrom(sweep[s], from, a, TRUE) : sweep' = [sweep EXCEPT ![s] = t]
  BY DEF sendFrom
<1>2. [Next]_vars
  BY DEF Next
<1>3. Numbers /\ Numbers'
  BY <1>2, NextNumbers
<1>4. a \in Nat /\ Good(sweep[s]) /\ s # d
  BY AmountsAssumption, IInvIsGood DEF Books, sendFrom
<1>5. Good(t) /\ KeepsMinters(sweep[s], t)
  BY <1>1, <1>4, DebitFromGood
<1>6. BalanceMoves(sweep[s], t, from, 0 - a)
  BY <1>1, <1>4, DebitFromGood
<1>7. Supply(t) = Supply(sweep[s]) + (0 - a)
  BY <1>4, <1>5, <1>6, MovedSupply
<1>8. sweep'[s] = t /\ \A e \in Chains : e # s => sweep'[e] = sweep[e]
  BY <1>1 DEF Books, IInv, TypeOK
<1> DEFINE m == [nonce |-> nonce[s][d] + 1, to |-> to, amount |-> a]
<1>9. /\ channel[s][d] \in Seq(Message) /\ nonce[s][d] \in Nat
      /\ channel'[s][d] = Append(channel[s][d], m)
      /\ \A r, e \in Chains : ~(r = s /\ e = d) => channel'[r][e] = channel[r][e]
      /\ failed' = failed
  BY DEF Books, IInv, TypeOK, sendFrom
<1>10. m \in Message /\ m.nonce = nonce[s][d] + 1 /\ m.amount = a
  BY <1>4, <1>9 DEF Message
<1> HIDE DEF m
<1>11. OnPath(s, d)' = OnPath(s, d) + a
  <2>1. LastOnes(channel[s][d], nonce[s][d])
    BY DEF Books, Numbered
  <2>2. \A i \in 1 .. Len(channel[s][d]) : channel[s][d][i] # m
    BY <1>9, <1>10, <2>1, SendNumbered
  <2> QED
    BY <1>9, <1>10, <2>2, PathSend DEF OnPath
<1>12. Waiting(d)' = Waiting(d) + a
  <2>1. \A r \in Chains : r # s => OnPath(r, d)' = OnPath(r, d)
    BY <1>9 DEF OnPath
  <2>2. a \in Int
    BY <1>4
  <2> QED
    BY <1>2, <1>11, <2>1, <2>2, WaitingChange
<1>13. \A e \in Chains : e # d => Waiting(e)' = Waiting(e)
  BY <1>9, WaitingSame
<1>14. /\ Held(s)' = Held(s) - a /\ Held(d)' = Held(d) + a
       /\ \A e \in Chains : e # s /\ e # d => Held(e)' = Held(e)
  <2>1. \A e \in Chains : /\ Waiting(e) \in Int /\ AmountIn(failed[e]) \in Int
                         /\ Supply(sweep[e]) \in Int
    BY <1>3 DEF Numbers
  <2> QED
    BY <1>4, <1>7, <1>8, <1>9, <1>12, <1>13, <2>1 DEF Held
<1>15. Circulating' = Circulating
  <2>1. a \in Int
    BY <1>4
  <2> QED
    BY <1>2, <1>4, <1>14, <2>1, HeldMove
<1>16. Accounted' = Accounted
  <2>1. \A e \in Chains : KeepsMinters(sweep[e], sweep'[e])
    BY <1>5, <1>8 DEF KeepsMinters
  <2> QED
    BY <2>1, SameAccounted
<1> QED
  BY <1>15, <1>16 DEF BackingKept

\* A step that credits d, or stores the message there, out of what waited for d.
LEMMA CreditedBacking ==
    ASSUME Books, [Next]_vars, NEW d \in Chains,
           Held(d)' = Held(d),
           \A e \in Chains : e # d => Held(e)' = Held(e),
           \A e \in Chains : KeepsMinters(sweep[e], sweep'[e])
    PROVE  BackingKept
<1>1. Circulating' = Circulating
  <2>1. Held(d) \in Int
    BY NextNumbers DEF Numbers
  <2>2. Held(d)' = Held(d) + 0 /\ 0 \in Int
    BY <2>1
  <2>3. Circulating' = Circulating + 0 /\ Circulating \in Int
    BY <2>2, HeldChange
  <2> QED
    BY <2>3
<1>2. Accounted' = Accounted
  BY SameAccounted
<1> QED
  BY <1>1, <1>2 DEF BackingKept

LEMMA LzReceiveBacking ==
    ASSUME Books, NEW s \in Chains, NEW d \in Chains, NEW approves \in BOOLEAN,
           lzReceive(s, d, approves)
    PROVE  BackingKept
<1> DEFINE m == Head(channel[s][d])
           f == [src |-> s, nonce |-> m.nonce, to |-> m.to, amount |-> m.amount]
<1>1. [Next]_vars
  BY DEF Next
<1>2. Numbers /\ Numbers'
  BY <1>1, NextNumbers
<1>3. /\ channel[s][d] # <<>> /\ channel[s][d] \in Seq(Message) /\ nonce[s][d] \in Nat
      /\ channel'[s][d] = Tail(channel[s][d])
      /\ \A r, e \in Chains : ~(r = s /\ e = d) => channel'[r][e] = channel[r][e]
  BY Delivered DEF Books
<1>4. m.to \in Accounts /\ m.amount \in Nat /\ m.nonce \in Nat
  BY <1>3, HeadIsMessage DEF Books
<1>5. /\ m.nonce = nonce[s][d] - Len(channel[s][d]) + 1
      /\ \A i \in 2 .. Len(channel[s][d]) : channel[s][d][i] # m
  BY <1>3, DeliverNumbered DEF Books, Numbered
<1>6. OnPath(s, d)' = OnPath(s, d) - m.amount
  BY <1>3, <1>5, PathDeliver DEF OnPath
<1>7. f.src = s /\ f.nonce = m.nonce /\ f.amount = m.amount
  OBVIOUS
<1>8. \/ /\ \E t \in CreditTo(sweep[d], m.to, m.amount, approves) :
                sweep' = [sweep EXCEPT ![d] = t]
         /\ failed' = failed
      \/ failed' = [failed EXCEPT ![d] = @ \cup {f}] /\ sweep' = sweep
  BY DEF lzReceive
<1> HIDE DEF f, m
<1>9. Waiting(d)' = Waiting(d) - m.amount
  <2>1. \A r \in Chains : r # s => OnPath(r, d)' = OnPath(r, d)
    BY <1>3 DEF OnPath
  <2>2. PICK n \in Int : n = 0 - m.amount
    BY <1>4
  <2>3. OnPath(s, d)' = OnPath(s, d) + n /\ Waiting(d) \in Int
    BY <1>2, <1>4, <1>6, <2>2 DEF Numbers
  <2>4. Waiting(d)' = Waiting(d) + n
    BY <1>1, <2>1, <2>3, WaitingChange
  <2> QED
    BY <1>4, <2>2, <2>3, <2>4
<1>10. \A e \in Chains : e # d => Waiting(e)' = Waiting(e)
  BY <1>3, WaitingSame
<1>11. \A e \in Chains : /\ Waiting(e) \in Int /\ AmountIn(failed[e]) \in Int
                        /\ Supply(sweep[e]) \in Int
  BY <1>2 DEF Numbers
<1>12. ASSUME NEW t \in CreditTo(sweep[d], m.to, m.amount, approves),
              sweep' = [sweep EXCEPT ![d] = t], failed' = failed
       PROVE  BackingKept
  <2>1. Good(sweep[d])
    BY IInvIsGood DEF Books
  <2>2. Good(t) /\ KeepsMinters(sweep[d], t)
    BY <1>4, <1>12, <2>1, CreditToGood
  <2>3. BalanceMoves(sweep[d], t, m.to, m.amount)
    BY <1>4, <1>12, <2>1, CreditToGood
  <2>4. Supply(t) = Supply(sweep[d]) + m.amount
    BY <1>4, <2>1, <2>2, <2>3, MovedSupply
  <2>5. sweep'[d] = t /\ \A e \in Chains : e # d => sweep'[e] = sweep[e]
    BY <1>12 DEF Books, IInv, TypeOK
  <2>6. Held(d)' = Held(d) /\ \A e \in Chains : e # d => Held(e)' = Held(e)
    BY <1>4, <1>9, <1>10, <1>11, <1>12, <2>4, <2>5 DEF Held
  <2>7. \A e \in Chains : KeepsMinters(sweep[e], sweep'[e])
    BY <2>2, <2>5 DEF KeepsMinters
  <2> QED
    BY <1>1, <2>6, <2>7, CreditedBacking
<1>13. CASE failed' = [failed EXCEPT ![d] = @ \cup {f}] /\ sweep' = sweep
  <2>1. failed'[d] = failed[d] \cup {f} /\ \A e \in Chains : e # d => failed'[e] = failed[e]
    BY <1>13 DEF Books, IInv, TypeOK
  <2>2. f \notin failed[d]
    <3>1. f \in failed[d] => f.nonce <= nonce[f.src][d] - Len(channel[f.src][d])
      BY DEF Books, Numbered
    <3>2. Len(channel[s][d]) \in Nat
      BY <1>3
    <3> QED
      BY <1>3, <1>5, <1>7, <3>1, <3>2
  <2>3. IsFiniteSet(failed[d]) /\ \A g \in failed[d] : g.amount \in Nat
    BY DEF Books, Numbered, IInv, TypeOK, FailedMessage
  <2>4. AmountIn(failed[d] \cup {f}) = AmountIn(failed[d]) + f.amount
    BY <1>4, <1>7, <2>2, <2>3, AmountInAdd
  <2>5. AmountIn(failed'[d]) = AmountIn(failed[d]) + m.amount
    BY <1>7, <2>1, <2>4
  <2>6. Held(d)' = Held(d) /\ \A e \in Chains : e # d => Held(e)' = Held(e)
    BY <1>4, <1>9, <1>10, <1>11, <1>13, <2>1, <2>5 DEF Held
  <2>7. \A e \in Chains : KeepsMinters(sweep[e], sweep'[e])
    BY <1>13 DEF KeepsMinters
  <2> QED
    BY <1>1, <2>6, <2>7, CreditedBacking
<1> QED
  BY <1>8, <1>12, <1>13

LEMMA RetryMessageBacking ==
    ASSUME Books, NEW d \in Chains, NEW f \in failed[d], retryMessage(d, f)
    PROVE  BackingKept
<1>1. [Next]_vars
  BY DEF Next
<1>2. Numbers /\ Numbers'
  BY <1>1, NextNumbers
<1>3. PICK t \in CreditTo(sweep[d], f.to, f.amount, TRUE) : sweep' = [sweep EXCEPT ![d] = t]
  BY DEF retryMessage
<1>4. Good(sweep[d]) /\ f.to \in Accounts /\ f.amount \in Nat
  BY IInvIsGood, FailedIsMessage DEF Books
<1>5. Good(t) /\ KeepsMinters(sweep[d], t)
  BY <1>3, <1>4, CreditToGood
<1>6. BalanceMoves(sweep[d], t, f.to, f.amount)
  BY <1>3, <1>4, CreditToGood
<1>7. Supply(t) = Supply(sweep[d]) + f.amount
  BY <1>4, <1>5, <1>6, MovedSupply
<1>8. sweep'[d] = t /\ \A e \in Chains : e # d => sweep'[e] = sweep[e]
  BY <1>3 DEF Books, IInv, TypeOK
<1>9. /\ failed'[d] = failed[d] \ {f} /\ \A e \in Chains : e # d => failed'[e] = failed[e]
      /\ channel' = channel
  BY DEF retryMessage, Books, IInv, TypeOK
<1>10. AmountIn(failed'[d]) = AmountIn(failed[d]) - f.amount
  <2>1. IsFiniteSet(failed[d]) /\ \A g \in failed[d] : g.amount \in Nat
    BY DEF Books, Numbered, IInv, TypeOK, FailedMessage
  <2>2. AmountIn(failed[d] \ {f}) = AmountIn(failed[d]) - f.amount
    BY <2>1, AmountInRemove
  <2> QED
    BY <1>9, <2>2
<1>11. Held(d)' = Held(d) /\ \A e \in Chains : e # d => Held(e)' = Held(e)
  <2>1. \A e \in Chains : /\ Waiting(e) \in Int /\ AmountIn(failed[e]) \in Int
                         /\ Supply(sweep[e]) \in Int
    BY <1>2 DEF Numbers
  <2>2. \A e \in Chains : Waiting(e)' = Waiting(e)
    BY <1>9, WaitingSame
  <2> QED
    BY <1>4, <1>7, <1>8, <1>9, <1>10, <2>1, <2>2 DEF Held
<1>12. \A e \in Chains : KeepsMinters(sweep[e], sweep'[e])
  BY <1>5, <1>8 DEF KeepsMinters
<1> QED
  BY <1>1, <1>11, <1>12, CreditedBacking

LEMMA NextBacking ==
    ASSUME Books, Next
    PROVE  BackingKept
<1>1. ASSUME NEW c \in Chains, OneChain(c)
      PROVE  BackingKept
  BY <1>1, OneChainBacking
<1>2. ASSUME NEW s \in Chains, NEW d \in Chains, NEW from \in Accounts,
             NEW to \in Accounts, NEW a \in Amounts, sendFrom(s, d, from, to, a)
      PROVE  BackingKept
  BY <1>2, SendFromBacking
<1>3. ASSUME NEW s \in Chains, NEW d \in Chains, NEW approves \in BOOLEAN,
             lzReceive(s, d, approves)
      PROVE  BackingKept
  BY <1>3, LzReceiveBacking
<1>4. ASSUME NEW d \in Chains, NEW f \in failed[d], retryMessage(d, f)
      PROVE  BackingKept
  BY <1>4, RetryMessageBacking
<1> QED
  BY <1>1, <1>2, <1>3, <1>4 DEF Next

\* What exists of SWEEP, on chains, on the way and in failed messages, and what the
\* minters account for move together: only removeMinter parts them, by exactly what
\* the minter had minted.  No bridging, failure or retry does, on any number of chains.
THEOREM BackingCorrect == Spec => BackingChangesOnlyByRemoval
<1>1. Books /\ [Next]_vars => Books'
  BY NextBooks
<1>2. Books /\ [Next]_vars => [BackingKept]_vars
  BY NextBacking
<1>3. Spec => [][BackingKept]_vars
  BY <1>1, <1>2, InitBooks, PTL DEF Spec
<1> QED
  BY <1>3, PTL DEF BackingChangesOnlyByRemoval, BackingKept

-----------------------------------------------------------------------------
(* One ledger: what each account holds, what is due to it, what it answers for *)

\* What is on its way to account a from s to d, on its way to d, and due to it on d.
OnPathTo(a, s, d) == AmountTo(a, Range(channel[s][d]))
Coming(a, d) == SumOf([s \in Chains |-> OnPathTo(a, s, d)])
DueOn(a, d) == AmountTo(a, failed[d]) + Coming(a, d)

LEMMA LedgerEntries ==
    ASSUME NEW a \in Accounts
    PROVE  /\ held[a] = SumOf([d \in Chains |-> sweep[d].balanceOf[a]])
           /\ held'[a] = SumOf([d \in Chains |-> sweep'[d].balanceOf[a]])
           /\ due[a] = SumOf([d \in Chains |-> DueOn(a, d)])
           /\ due'[a] = SumOf([d \in Chains |-> DueOn(a, d)'])
           /\ issued[a] = SumOf([c \in Chains |-> sweep[c].minters[a].mintedAmount])
           /\ issued'[a] = SumOf([c \in Chains |-> sweep'[c].minters[a].mintedAmount])
<1>1. /\ held[a] = SumOf([d \in Chains |-> sweep[d].balanceOf[a]])
      /\ held'[a] = SumOf([d \in Chains |-> sweep'[d].balanceOf[a]])
  BY DEF held
<1>2. due[a] = SumOf([d \in Chains |-> DueOn(a, d)])
  BY DEF due, DueOn, Coming, OnPathTo
<1>3. due'[a] = SumOf([d \in Chains |-> DueOn(a, d)'])
  BY DEF due, DueOn, Coming, OnPathTo
<1>4. /\ issued[a] = SumOf([c \in Chains |-> sweep[c].minters[a].mintedAmount])
      /\ issued'[a] = SumOf([c \in Chains |-> sweep'[c].minters[a].mintedAmount])
  BY DEF issued
<1> QED
  BY <1>1, <1>2, <1>3, <1>4

LEMMA LedgerFunctions ==
    /\ DOMAIN held = Accounts /\ held = [a \in Accounts |-> held[a]]
    /\ DOMAIN due = Accounts /\ due = [a \in Accounts |-> due[a]]
    /\ DOMAIN issued = Accounts /\ issued = [a \in Accounts |-> issued[a]]
    /\ held' = [a \in Accounts |-> held'[a]]
    /\ due' = [a \in Accounts |-> due'[a]]
    /\ issued' = [a \in Accounts |-> issued'[a]]
<1>1. DOMAIN held = Accounts /\ held = [a \in Accounts |-> held[a]]
  BY DEF held
<1>2. DOMAIN due = Accounts /\ due = [a \in Accounts |-> due[a]]
  BY DEF due
<1>3. DOMAIN issued = Accounts /\ issued = [a \in Accounts |-> issued[a]]
  BY DEF issued
<1>4. held' = [a \in Accounts |-> held'[a]]
  BY DEF held
<1>5. due' = [a \in Accounts |-> due'[a]]
  BY DEF due
<1>6. issued' = [a \in Accounts |-> issued'[a]]
  BY DEF issued
<1> QED
  BY <1>1, <1>2, <1>3, <1>4, <1>5, <1>6

\* The messages to one account.
LEMMA AmountToNat ==
    ASSUME NEW S, IsFiniteSet(S), \A m \in S : m.amount \in Nat, NEW a
    PROVE  AmountTo(a, S) \in Nat
<1> DEFINE T == {m \in S : m.to = a}
<1>1. IsFiniteSet(T) /\ [m \in T |-> m.amount] \in [T -> Nat]
  BY FS_Subset
<1> QED
  BY <1>1, SumNat DEF AmountTo, AmountIn

LEMMA AmountToAdd ==
    ASSUME NEW S, IsFiniteSet(S), \A m \in S : m.amount \in Nat,
           NEW x, x \notin S, x.amount \in Nat, NEW a
    PROVE  AmountTo(a, S \cup {x}) = AmountTo(a, S) + (IF x.to = a THEN x.amount ELSE 0)
<1> DEFINE T == {m \in S : m.to = a}
<1>1. IsFiniteSet(T) /\ (\A m \in T : m.amount \in Nat) /\ x \notin T
  BY FS_Subset
<1>2. AmountTo(a, S) \in Nat /\ AmountTo(a, S) = AmountIn(T)
  BY AmountToNat DEF AmountTo
<1>3. CASE x.to = a
  <2>1. {m \in S \cup {x} : m.to = a} = T \cup {x}
    BY <1>3
  <2>2. AmountIn(T \cup {x}) = AmountIn(T) + x.amount
    BY <1>1, AmountInAdd
  <2> QED
    BY <1>2, <1>3, <2>1, <2>2 DEF AmountTo
<1>4. CASE x.to # a
  <2>1. {m \in S \cup {x} : m.to = a} = T
    BY <1>4
  <2> QED
    BY <1>2, <1>4, <2>1 DEF AmountTo
<1> QED
  BY <1>3, <1>4

LEMMA AmountToRemove ==
    ASSUME NEW S, IsFiniteSet(S), \A m \in S : m.amount \in Nat, NEW x \in S, NEW a
    PROVE  AmountTo(a, S \ {x}) = AmountTo(a, S) - (IF x.to = a THEN x.amount ELSE 0)
<1>1. IsFiniteSet(S \ {x}) /\ (S \ {x}) \cup {x} = S /\ x.amount \in Nat
  BY FS_Subset
<1>2. AmountTo(a, (S \ {x}) \cup {x}) =
          AmountTo(a, S \ {x}) + (IF x.to = a THEN x.amount ELSE 0)
  BY <1>1, AmountToAdd
<1>3. AmountTo(a, S \ {x}) \in Nat
  BY <1>1, AmountToNat
<1>4. AmountTo(a, S) = AmountTo(a, S \ {x}) + (IF x.to = a THEN x.amount ELSE 0)
  BY <1>1, <1>2, Zenon
<1> QED
  BY <1>1, <1>3, <1>4

\* What a path has for each account after a message is sent on it, and delivered.
LEMMA PathSendTo ==
    ASSUME NEW path \in Seq(Message), NEW m \in Message,
           \A i \in 1 .. Len(path) : path[i] # m, NEW a
    PROVE  AmountTo(a, Range(Append(path, m))) =
               AmountTo(a, Range(path)) + (IF m.to = a THEN m.amount ELSE 0)
<1>1. Range(Append(path, m)) = Range(path) \cup {m}
  BY RangeAppended
<1>2. m \notin Range(path) /\ m.amount \in Nat
  BY DEF Range, Message
<1>3. IsFiniteSet(Range(path)) /\ \A k \in Range(path) : k.amount \in Nat
  BY PathMessages
<1>4. AmountTo(a, Range(path) \cup {m}) =
          AmountTo(a, Range(path)) + (IF m.to = a THEN m.amount ELSE 0)
  BY <1>2, <1>3, AmountToAdd
<1> QED
  BY <1>1, <1>4, Zenon

LEMMA PathDeliverTo ==
    ASSUME NEW path \in Seq(Message), path # <<>>,
           \A i \in 2 .. Len(path) : path[i] # Head(path), NEW a
    PROVE  AmountTo(a, Range(Tail(path))) =
               AmountTo(a, Range(path)) - (IF Head(path).to = a THEN Head(path).amount ELSE 0)
<1>1. Range(Tail(path)) = Range(path) \ {Head(path)} /\ Head(path) \in Range(path)
  BY RangeDelivered
<1>2. IsFiniteSet(Range(path)) /\ \A k \in Range(path) : k.amount \in Nat
  BY PathMessages
<1> DEFINE m == Head(path)
<1> HIDE DEF m
<1>3. m \in Range(path) /\ Range(Tail(path)) = Range(path) \ {m}
  BY <1>1 DEF m
<1>4. AmountTo(a, Range(path) \ {m}) =
          AmountTo(a, Range(path)) - (IF m.to = a THEN m.amount ELSE 0)
  BY <1>2, <1>3, AmountToRemove
<1>5. AmountTo(a, Range(Tail(path))) =
          AmountTo(a, Range(path)) - (IF m.to = a THEN m.amount ELSE 0)
  BY <1>3, <1>4, Zenon
<1> QED
  BY <1>5 DEF m

\* Every number of the books is a natural one.
OwnNumbers ==
    \A a \in Accounts, d \in Chains :
        /\ \A s \in Chains : OnPathTo(a, s, d) \in Nat
        /\ AmountTo(a, failed[d]) \in Nat /\ Coming(a, d) \in Nat /\ DueOn(a, d) \in Nat
        /\ sweep[d].balanceOf[a] \in Nat /\ sweep[d].minters[a].mintedAmount \in Nat

LEMMA BooksOwnNumbers == Books => OwnNumbers
<1> SUFFICES ASSUME Books, NEW a \in Accounts, NEW d \in Chains
             PROVE  /\ \A s \in Chains : OnPathTo(a, s, d) \in Nat
                    /\ AmountTo(a, failed[d]) \in Nat /\ Coming(a, d) \in Nat
                    /\ DueOn(a, d) \in Nat
                    /\ sweep[d].balanceOf[a] \in Nat
                    /\ sweep[d].minters[a].mintedAmount \in Nat
  BY DEF OwnNumbers
<1>1. \A s \in Chains : OnPathTo(a, s, d) \in Nat
  <2>1. \A s \in Chains : channel[s][d] \in Seq(Message)
    BY DEF Books, IInv, TypeOK
  <2> QED
    BY <2>1, PathMessages, AmountToNat DEF OnPathTo
<1>2. AmountTo(a, failed[d]) \in Nat
  <2>1. IsFiniteSet(failed[d]) /\ \A f \in failed[d] : f.amount \in Nat
    BY DEF Books, Numbered, IInv, TypeOK, FailedMessage
  <2> QED
    BY <2>1, AmountToNat
<1>3. Coming(a, d) \in Nat
  <2>1. [s \in Chains |-> OnPathTo(a, s, d)] \in [Chains -> Nat]
    BY <1>1
  <2> QED
    BY <2>1, FiniteAssumption, SumNat DEF Coming
<1>4. sweep[d].balanceOf[a] \in Nat /\ sweep[d].minters[a].mintedAmount \in Nat
  BY DEF Books, IInv, TypeOK, BaseSweepStorage, Minter
<1> QED
  BY <1>1, <1>2, <1>3, <1>4 DEF DueOn

LEMMA NextOwnNumbers ==
    ASSUME Books, [Next]_vars
    PROVE  OwnNumbers /\ OwnNumbers'
<1>1. Books'
  BY NextBooks
<1>2. OwnNumbers
  BY BooksOwnNumbers
<1>3. Books' => OwnNumbers'
  BY BooksOwnNumbers, PTL
<1> QED
  BY <1>1, <1>2, <1>3

LEMMA LedgerNat ==
    ASSUME Books, NEW a \in Accounts
    PROVE  held[a] \in Nat /\ due[a] \in Nat /\ issued[a] \in Nat
<1>1. OwnNumbers
  BY BooksOwnNumbers
<1>2. /\ [d \in Chains |-> sweep[d].balanceOf[a]] \in [Chains -> Nat]
      /\ [d \in Chains |-> DueOn(a, d)] \in [Chains -> Nat]
      /\ [d \in Chains |-> sweep[d].minters[a].mintedAmount] \in [Chains -> Nat]
  BY <1>1 DEF OwnNumbers
<1> DEFINE f == [d \in Chains |-> sweep[d].balanceOf[a]]
           g == [d \in Chains |-> DueOn(a, d)]
           h == [d \in Chains |-> sweep[d].minters[a].mintedAmount]
<1>3. held[a] = SumOf(f) /\ due[a] = SumOf(g) /\ issued[a] = SumOf(h)
  BY LedgerEntries
<1>4. f \in [Chains -> Nat] /\ g \in [Chains -> Nat] /\ h \in [Chains -> Nat]
  BY <1>2
<1> HIDE DEF f, g, h
<1>5. SumOf(f) \in Nat /\ SumOf(g) \in Nat /\ SumOf(h) \in Nat
  BY <1>4, FiniteAssumption, SumNat
<1> QED
  BY <1>3, <1>5

\* On all chains there is at least what there is on one.
LEMMA LedgerAtLeast ==
    ASSUME Books, NEW a \in Accounts, NEW c \in Chains
    PROVE  /\ sweep[c].balanceOf[a] <= held[a]
           /\ DueOn(a, c) <= due[a]
           /\ sweep[c].minters[a].mintedAmount <= issued[a]
<1>1. OwnNumbers
  BY BooksOwnNumbers
<1> DEFINE f == [d \in Chains |-> sweep[d].balanceOf[a]]
           g == [d \in Chains |-> DueOn(a, d)]
           h == [d \in Chains |-> sweep[d].minters[a].mintedAmount]
<1>2. f \in [Chains -> Nat] /\ g \in [Chains -> Nat] /\ h \in [Chains -> Nat]
  BY <1>1 DEF OwnNumbers
<1>3. /\ f[c] = sweep[c].balanceOf[a] /\ g[c] = DueOn(a, c)
      /\ h[c] = sweep[c].minters[a].mintedAmount
  OBVIOUS
<1>4. held[a] = SumOf(f) /\ due[a] = SumOf(g) /\ issued[a] = SumOf(h)
  BY LedgerEntries
<1> HIDE DEF f, g, h
<1>5. f[c] <= SumOf(f) /\ g[c] <= SumOf(g) /\ h[c] <= SumOf(h)
  BY <1>2, FiniteAssumption, SumAtLeast
<1> QED
  BY <1>3, <1>4, <1>5

\* What an account holds on all chains changes by what its balance on one does.
LEMMA HeldOnChange ==
    ASSUME Books, [Next]_vars, NEW a \in Accounts, NEW d \in Chains, NEW n \in Int,
           sweep'[d].balanceOf[a] = sweep[d].balanceOf[a] + n,
           \A e \in Chains : e # d => sweep'[e] = sweep[e]
    PROVE  held'[a] = held[a] + n
<1> DEFINE f == [e \in Chains |-> sweep[e].balanceOf[a]]
           g == [e \in Chains |-> sweep'[e].balanceOf[a]]
<1>1. OwnNumbers /\ OwnNumbers' /\ held[a] = SumOf(f) /\ held'[a] = SumOf(g)
  BY NextOwnNumbers, LedgerEntries
<1>2. /\ \A e \in Chains : sweep[e].balanceOf[a] \in Int
      /\ \A e \in Chains : sweep'[e].balanceOf[a] \in Int
  BY <1>1 DEF OwnNumbers
<1>3. f \in [Chains -> Int] /\ g \in [Chains -> Int]
  BY <1>2
<1>4. g[d] = f[d] + n /\ f[d] \in Int /\ \A e \in Chains : e # d => g[e] = f[e]
  BY <1>2
<1> HIDE DEF f, g
<1>5. SumOf(g) = SumOf(f) - f[d] + g[d] /\ SumOf(f) \in Int
  BY <1>3, <1>4, FiniteAssumption, SumChange, SumInt
<1> QED
  BY <1>1, <1>4, <1>5

LEMMA SameHeld ==
    ASSUME \A e \in Chains : sweep'[e].balanceOf = sweep[e].balanceOf
    PROVE  held' = held
<1>1. \A a \in Accounts : [d \in Chains |-> sweep'[d].balanceOf[a]]
                          = [d \in Chains |-> sweep[d].balanceOf[a]]
  OBVIOUS
<1>2. held = [a \in Accounts |-> SumOf([d \in Chains |-> sweep[d].balanceOf[a]])]
  BY DEF held
<1>3. held' = [a \in Accounts |-> SumOf([d \in Chains |-> sweep'[d].balanceOf[a]])]
  BY DEF held
<1>4. \A a \in Accounts : SumOf([d \in Chains |-> sweep'[d].balanceOf[a]])
                        = SumOf([d \in Chains |-> sweep[d].balanceOf[a]])
  BY <1>1
<1> HIDE <1>1
<1> QED
  BY <1>2, <1>3, <1>4

\* What is due to an account changes by what is due to it on one chain.
LEMMA DueChange ==
    ASSUME Books, [Next]_vars, NEW a \in Accounts, NEW d \in Chains, NEW n \in Int,
           DueOn(a, d)' = DueOn(a, d) + n,
           \A e \in Chains : e # d => DueOn(a, e)' = DueOn(a, e)
    PROVE  due'[a] = due[a] + n
<1> DEFINE f == [e \in Chains |-> DueOn(a, e)]
           g == [e \in Chains |-> DueOn(a, e)']
<1>1. OwnNumbers /\ OwnNumbers' /\ due[a] = SumOf(f) /\ due'[a] = SumOf(g)
  BY NextOwnNumbers, LedgerEntries
<1>2. /\ \A e \in Chains : DueOn(a, e) \in Int
      /\ \A e \in Chains : DueOn(a, e)' \in Int
  BY <1>1 DEF OwnNumbers
<1>3. f \in [Chains -> Int] /\ g \in [Chains -> Int]
  BY <1>2
<1>4. g[d] = f[d] + n /\ f[d] \in Int /\ \A e \in Chains : e # d => g[e] = f[e]
  BY <1>2
<1> HIDE DEF f, g
<1>5. SumOf(g) = SumOf(f) - f[d] + g[d] /\ SumOf(f) \in Int
  BY <1>3, <1>4, FiniteAssumption, SumChange, SumInt
<1> QED
  BY <1>1, <1>4, <1>5

LEMMA SameDue ==
    ASSUME failed' = failed, channel' = channel
    PROVE  due' = due
BY DEF due

\* What a minter answers for changes with its account on one chain.
LEMMA IssuedChange ==
    ASSUME Books, [Next]_vars, NEW c \in Chains, NEW m \in Accounts, NEW k \in Int,
           sweep'[c].minters[m].mintedAmount = sweep[c].minters[m].mintedAmount + k,
           \A e \in Chains : e # c => sweep'[e] = sweep[e]
    PROVE  issued'[m] = issued[m] + k
<1> DEFINE f == [e \in Chains |-> sweep[e].minters[m].mintedAmount]
           g == [e \in Chains |-> sweep'[e].minters[m].mintedAmount]
<1>1. OwnNumbers /\ OwnNumbers' /\ issued[m] = SumOf(f) /\ issued'[m] = SumOf(g)
  BY NextOwnNumbers, LedgerEntries
<1>2. /\ \A e \in Chains : sweep[e].minters[m].mintedAmount \in Int
      /\ \A e \in Chains : sweep'[e].minters[m].mintedAmount \in Int
  BY <1>1 DEF OwnNumbers
<1>3. f \in [Chains -> Int] /\ g \in [Chains -> Int]
  BY <1>2
<1>4. g[c] = f[c] + k /\ f[c] \in Int /\ \A e \in Chains : e # c => g[e] = f[e]
  BY <1>2
<1> HIDE DEF f, g
<1>5. SumOf(g) = SumOf(f) - f[c] + g[c] /\ SumOf(f) \in Int
  BY <1>3, <1>4, FiniteAssumption, SumChange, SumInt
<1> QED
  BY <1>1, <1>4, <1>5

LEMMA ComingSame ==
    ASSUME NEW a \in Accounts, NEW d \in Chains, \A r \in Chains : channel'[r][d] = channel[r][d]
    PROVE  Coming(a, d)' = Coming(a, d)
<1>1. [r \in Chains |-> OnPathTo(a, r, d)'] = [r \in Chains |-> OnPathTo(a, r, d)]
  BY DEF OnPathTo
<1>2. Coming(a, d) = SumOf([r \in Chains |-> OnPathTo(a, r, d)])
  BY DEF Coming
<1>3. Coming(a, d)' = SumOf([r \in Chains |-> OnPathTo(a, r, d)'])
  BY DEF Coming
<1> QED
  BY <1>1, <1>2, <1>3

LEMMA ComingChange ==
    ASSUME Books, [Next]_vars, NEW a \in Accounts, NEW s \in Chains, NEW d \in Chains,
           NEW n \in Int, OnPathTo(a, s, d)' = OnPathTo(a, s, d) + n,
           \A r \in Chains : r # s => OnPathTo(a, r, d)' = OnPathTo(a, r, d)
    PROVE  Coming(a, d)' = Coming(a, d) + n
<1> DEFINE f == [r \in Chains |-> OnPathTo(a, r, d)]
           g == [r \in Chains |-> OnPathTo(a, r, d)']
<1>1. OwnNumbers /\ OwnNumbers'
  BY NextOwnNumbers
<1>2. Coming(a, d) = SumOf(f) /\ Coming(a, d)' = SumOf(g)
  BY DEF Coming
<1>3. /\ \A r \in Chains : OnPathTo(a, r, d) \in Int
      /\ \A r \in Chains : OnPathTo(a, r, d)' \in Int
  BY <1>1 DEF OwnNumbers
<1>4. f \in [Chains -> Int] /\ g \in [Chains -> Int]
  BY <1>3
<1>5. g[s] = f[s] + n /\ f[s] \in Int /\ \A r \in Chains : r # s => g[r] = f[r]
  BY <1>3
<1> HIDE DEF f, g
<1>6. SumOf(g) = SumOf(f) - f[s] + g[s] /\ SumOf(f) \in Int
  BY <1>4, <1>5, FiniteAssumption, SumChange, SumInt
<1> QED
  BY <1>2, <1>5, <1>6

\* A call of one contract changes what is due to nobody.
LEMMA OneContractDue ==
    ASSUME NEW c \in Chains, NEW t, Commit(c, t)
    PROVE  due' = due
BY SameDue DEF Commit

LEMMA OneContractHeld ==
    ASSUME Books, [Next]_vars, NEW c \in Chains, NEW t, Commit(c, t),
           NEW a \in Accounts, NEW n \in Int, t.balanceOf[a] = sweep[c].balanceOf[a] + n
    PROVE  held'[a] = held[a] + n
<1>1. sweep'[c] = t /\ \A e \in Chains : e # c => sweep'[e] = sweep[e]
  BY DEF Commit, Books, IInv, TypeOK
<1> QED
  BY <1>1, HeldOnChange

LEMMA OneContractIssued ==
    ASSUME Books, [Next]_vars, NEW c \in Chains, NEW t, Commit(c, t),
           NEW a \in Accounts, NEW n \in Int,
           t.minters[a].mintedAmount = sweep[c].minters[a].mintedAmount + n
    PROVE  issued'[a] = issued[a] + n
<1>1. sweep'[c] = t /\ \A e \in Chains : e # c => sweep'[e] = sweep[e]
  BY DEF Commit, Books, IInv, TypeOK
<1> QED
  BY <1>1, IssuedChange

LEMMA SameIssued ==
    ASSUME \A e \in Chains, a \in Accounts :
               sweep'[e].minters[a].mintedAmount = sweep[e].minters[a].mintedAmount
    PROVE  issued' = issued
<1>1. \A a \in Accounts : [c \in Chains |-> sweep'[c].minters[a].mintedAmount]
                          = [c \in Chains |-> sweep[c].minters[a].mintedAmount]
  OBVIOUS
<1>2. issued = [a \in Accounts |-> SumOf([c \in Chains |-> sweep[c].minters[a].mintedAmount])]
  BY DEF issued
<1>3. issued' = [a \in Accounts |-> SumOf([c \in Chains |-> sweep'[c].minters[a].mintedAmount])]
  BY DEF issued
<1>4. \A a \in Accounts : SumOf([c \in Chains |-> sweep'[c].minters[a].mintedAmount])
                        = SumOf([c \in Chains |-> sweep[c].minters[a].mintedAmount])
  BY <1>1
<1> HIDE <1>1
<1> QED
  BY <1>2, <1>3, <1>4

-----------------------------------------------------------------------------
(* The steps of the one ledger, by the entry of each account *)

Step == Whole!Next \/ UNCHANGED <<held, due, issued>>

LEMMA EntryMore ==
    ASSUME NEW f, DOMAIN f = Accounts, f = [a \in Accounts |-> f[a]],
           NEW g, g = [a \in Accounts |-> g[a]], NEW m \in Accounts, NEW n,
           \A a \in Accounts : f[a] \in Nat /\ g[a] = f[a] + (IF a = m THEN n ELSE 0)
    PROVE  g = [f EXCEPT ![m] = @ + n]
OBVIOUS

LEMMA EntryLess ==
    ASSUME NEW f, DOMAIN f = Accounts, f = [a \in Accounts |-> f[a]],
           NEW g, g = [a \in Accounts |-> g[a]], NEW m \in Accounts, NEW n \in Nat,
           \A a \in Accounts : f[a] \in Nat /\ g[a] = f[a] + (IF a = m THEN 0 - n ELSE 0)
    PROVE  g = [f EXCEPT ![m] = @ - n]
OBVIOUS

\* Entries that change at one account, by more or by less.
LEMMA HeldMore ==
    ASSUME Books, NEW m \in Accounts, NEW n,
           \A a \in Accounts : held'[a] = held[a] + (IF a = m THEN n ELSE 0)
    PROVE  held' = [held EXCEPT ![m] = @ + n]
BY LedgerFunctions, LedgerNat, EntryMore

LEMMA HeldLess ==
    ASSUME Books, NEW m \in Accounts, NEW n \in Nat,
           \A a \in Accounts : held'[a] = held[a] + (IF a = m THEN 0 - n ELSE 0)
    PROVE  held' = [held EXCEPT ![m] = @ - n]
BY LedgerFunctions, LedgerNat, EntryLess

LEMMA DueMore ==
    ASSUME Books, NEW m \in Accounts, NEW n,
           \A a \in Accounts : due'[a] = due[a] + (IF a = m THEN n ELSE 0)
    PROVE  due' = [due EXCEPT ![m] = @ + n]
BY LedgerFunctions, LedgerNat, EntryMore

LEMMA DueLess ==
    ASSUME Books, NEW m \in Accounts, NEW n \in Nat,
           \A a \in Accounts : due'[a] = due[a] + (IF a = m THEN 0 - n ELSE 0)
    PROVE  due' = [due EXCEPT ![m] = @ - n]
BY LedgerFunctions, LedgerNat, EntryLess

LEMMA IssuedMore ==
    ASSUME Books, NEW m \in Accounts, NEW n,
           \A a \in Accounts : issued'[a] = issued[a] + (IF a = m THEN n ELSE 0)
    PROVE  issued' = [issued EXCEPT ![m] = @ + n]
BY LedgerFunctions, LedgerNat, EntryMore

LEMMA IssuedLess ==
    ASSUME Books, NEW m \in Accounts, NEW n \in Nat,
           \A a \in Accounts : issued'[a] = issued[a] + (IF a = m THEN 0 - n ELSE 0)
    PROVE  issued' = [issued EXCEPT ![m] = @ - n]
BY LedgerFunctions, LedgerNat, EntryLess

LEMMA PayStep ==
    ASSUME Books, NEW from \in Accounts, NEW to \in Accounts, NEW amount \in Amounts,
           held[from] >= amount, due' = due, issued' = issued,
           \A a \in Accounts : held'[a] = held[a] + (IF a = from THEN 0 - amount ELSE 0)
                                               + (IF a = to THEN amount ELSE 0)
    PROVE  Step
<1>1. amount \in Nat /\ \A a \in Accounts : held[a] \in Nat
  BY AmountsAssumption, LedgerNat
<1>2. held' = Moved(held, from, to, amount)
  <2> DEFINE o == held
             p == held'
  <2>1. /\ DOMAIN o = Accounts /\ o = [a \in Accounts |-> o[a]]
        /\ p = [a \in Accounts |-> p[a]]
    BY LedgerFunctions
  <2>2. \A a \in Accounts : p[a] = o[a] + (IF a = from THEN 0 - amount ELSE 0)
                                        + (IF a = to THEN amount ELSE 0)
    OBVIOUS
  <2>3. \A a \in Accounts : o[a] \in Nat
    BY <1>1
  <2> HIDE DEF o, p
  <2>4. p = Moved(o, from, to, amount)
    BY <1>1, <2>1, <2>2, <2>3 DEF Moved
  <2> QED
    BY <2>4 DEF o, p
<1>3. Whole!Pay(from, to, amount)
  BY <1>2 DEF Whole!Pay, Whole!Moved, Moved
<1> QED
  BY <1>3 DEF Step, Whole!Next

LEMMA SendStep ==
    ASSUME Books, NEW from \in Accounts, NEW to \in Accounts, NEW amount \in Amounts,
           held[from] >= amount, issued' = issued,
           \A a \in Accounts : held'[a] = held[a] + (IF a = from THEN 0 - amount ELSE 0),
           \A a \in Accounts : due'[a] = due[a] + (IF a = to THEN amount ELSE 0)
    PROVE  Step
<1>1. amount \in Nat
  BY AmountsAssumption
<1>2. held' = [held EXCEPT ![from] = @ - amount]
  BY <1>1, HeldLess
<1>3. due' = [due EXCEPT ![to] = @ + amount]
  BY DueMore
<1>4. Whole!Send(from, to, amount)
  BY <1>2, <1>3 DEF Whole!Send
<1> QED
  BY <1>4 DEF Step, Whole!Next

LEMMA ArriveStep ==
    ASSUME Books, NEW to \in Accounts, NEW amount \in Nat,
           amount <= due[to], issued' = issued,
           \A a \in Accounts : held'[a] = held[a] + (IF a = to THEN amount ELSE 0),
           \A a \in Accounts : due'[a] = due[a] + (IF a = to THEN 0 - amount ELSE 0)
    PROVE  Step
<1>1. amount \in 0 .. due[to]
  BY LedgerNat
<1>2. held' = [held EXCEPT ![to] = @ + amount]
  BY HeldMore
<1>3. due' = [due EXCEPT ![to] = @ - amount]
  BY DueLess
<1>4. Whole!Arrive(to)
  BY <1>1, <1>2, <1>3 DEF Whole!Arrive
<1> QED
  BY <1>4 DEF Step, Whole!Next

LEMMA IssueStep ==
    ASSUME Books, NEW m \in Accounts, NEW amount \in Amounts, due' = due,
           \A a \in Accounts : held'[a] = held[a] + (IF a = m THEN amount ELSE 0),
           \A a \in Accounts : issued'[a] = issued[a] + (IF a = m THEN amount ELSE 0)
    PROVE  Step
<1>1. held' = [held EXCEPT ![m] = @ + amount]
  BY HeldMore
<1>2. issued' = [issued EXCEPT ![m] = @ + amount]
  BY IssuedMore
<1>3. Whole!Issue(m, amount)
  BY <1>1, <1>2 DEF Whole!Issue
<1> QED
  BY <1>3 DEF Step, Whole!Next

LEMMA RedeemStep ==
    ASSUME Books, NEW m \in Accounts, NEW amount \in Amounts, due' = due,
           held[m] >= amount, issued[m] >= amount,
           \A a \in Accounts : held'[a] = held[a] + (IF a = m THEN 0 - amount ELSE 0),
           \A a \in Accounts : issued'[a] = issued[a] + (IF a = m THEN 0 - amount ELSE 0)
    PROVE  Step
<1>1. amount \in Nat
  BY AmountsAssumption
<1>2. held' = [held EXCEPT ![m] = @ - amount]
  BY <1>1, HeldLess
<1>3. issued' = [issued EXCEPT ![m] = @ - amount]
  BY <1>1, IssuedLess
<1>4. Whole!Redeem(m, amount)
  BY <1>2, <1>3 DEF Whole!Redeem
<1> QED
  BY <1>4 DEF Step, Whole!Next

LEMMA ReleaseStep ==
    ASSUME Books, NEW m \in Accounts, NEW amount \in Nat, amount <= issued[m],
           held' = held, due' = due,
           \A a \in Accounts : issued'[a] = issued[a] + (IF a = m THEN 0 - amount ELSE 0)
    PROVE  Step
<1>1. amount \in 0 .. issued[m]
  BY LedgerNat
<1>2. issued' = [issued EXCEPT ![m] = @ - amount]
  BY IssuedLess
<1>3. Whole!Release(m)
  BY <1>1, <1>2 DEF Whole!Release
<1> QED
  BY <1>3 DEF Step, Whole!Next

-----------------------------------------------------------------------------
(* The steps of the chains are steps of the one ledger *)

\* The calls of governance, but for a removal, change no balance and no account.
LEMMA QuietStep ==
    ASSUME Books, [Next]_vars, NEW c \in Chains, NEW t, Good(t), Commit(c, t),
           t.balanceOf = sweep[c].balanceOf,
           \A a \in Accounts : t.minters[a].mintedAmount = sweep[c].minters[a].mintedAmount
    PROVE  Step
<1>1. sweep'[c] = t /\ \A e \in Chains : e # c => sweep'[e] = sweep[e]
  BY DEF Commit, Books, IInv, TypeOK
<1>2. issued' = issued
  BY <1>1, SameIssued
<1>3. held' = held
  BY <1>1, SameHeld
<1>4. due' = due
  BY OneContractDue
<1> QED
  BY <1>2, <1>3, <1>4 DEF Step

LEMMA RemoveMinterStep ==
    ASSUME Books, [Next]_vars, NEW c \in Chains, NEW m \in Accounts, removeMinter(c, m)
    PROVE  Step
<1>1. PICK t \in RemoveMinter(sweep[c], m) : Commit(c, t)
  BY DEF removeMinter
<1>2. Good(sweep[c])
  BY IInvIsGood DEF Books
<1>3. /\ Good(t) /\ t.balanceOf = sweep[c].balanceOf
      /\ t.minters[m].mintedAmount = 0
      /\ \A a \in Accounts \ {m} : t.minters[a] = sweep[c].minters[a]
  BY <1>1, <1>2, RemoveMinterGood
<1>4. PICK k \in Nat : k = sweep[c].minters[m].mintedAmount
  BY <1>2, NextOwnNumbers DEF OwnNumbers
<1>5. ASSUME NEW a \in Accounts
      PROVE  issued'[a] = issued[a] + (IF a = m THEN 0 - k ELSE 0)
  <2>1. PICK n \in Int : n = IF a = m THEN 0 - k ELSE 0
    OBVIOUS
  <2>2. sweep[c].minters[a].mintedAmount \in Nat
    BY NextOwnNumbers DEF OwnNumbers
  <2>3. t.minters[a].mintedAmount = sweep[c].minters[a].mintedAmount + n
    <3>1. CASE a = m
      BY <1>3, <1>4, <2>1, <3>1
    <3>2. CASE a # m
      <4>1. t.minters[a] = sweep[c].minters[a] /\ n = 0
        BY <1>3, <2>1, <3>2
      <4> QED
        BY <2>2, <4>1
    <3> QED
      BY <3>1, <3>2
  <2>4. issued'[a] = issued[a] + n
    BY <1>1, <2>3, OneContractIssued
  <2> QED
    BY <2>1, <2>4
<1>6. held' = held
  <2>1. sweep'[c] = t /\ \A e \in Chains : e # c => sweep'[e] = sweep[e]
    BY <1>1 DEF Commit, Books, IInv, TypeOK
  <2> QED
    BY <1>3, <2>1, SameHeld
<1>7. due' = due
  BY <1>1, OneContractDue
<1>8. k <= issued[m]
  BY <1>4, LedgerAtLeast
<1> QED
  BY <1>5, <1>6, <1>7, <1>8, ReleaseStep

\* Mint and burn: the minter's balance and its account change by n.
BookedBy(t, u, m, n) ==
    /\ Good(u) /\ u.balanceOf[m] = t.balanceOf[m] + n
    /\ \A a \in Accounts : a # m => u.balanceOf[a] = t.balanceOf[a]
    /\ u.minters[m].mintedAmount = t.minters[m].mintedAmount + n
    /\ \A a \in Accounts : a # m => u.minters[a].mintedAmount = t.minters[a].mintedAmount

LEMMA MintBookedBy ==
    ASSUME NEW t, Good(t), NEW m \in Accounts, NEW amount \in Nat, NEW approves,
           NEW u \in Mint(t, m, amount, approves)
    PROVE  BookedBy(t, u, m, amount)
<1>1. /\ Good(u) /\ t.minters[m].isListed
      /\ \A a \in Accounts :
            /\ u.minters[a].isListed = t.minters[a].isListed
            /\ u.minters[a].mintedAmount = IF a = m THEN t.minters[a].mintedAmount + amount
                                                   ELSE t.minters[a].mintedAmount
      /\ u.balanceOf[m] = t.balanceOf[m] + amount
      /\ \A b \in Accounts : b # m => u.balanceOf[b] = t.balanceOf[b]
  BY MintGood
<1> QED
  BY <1>1 DEF BookedBy

LEMMA BurnBookedBy ==
    ASSUME NEW t, Good(t), NEW m \in Accounts, NEW amount \in Nat, NEW approves,
           NEW u \in Burn(t, m, amount, approves)
    PROVE  /\ BookedBy(t, u, m, 0 - amount)
           /\ t.balanceOf[m] >= amount /\ t.minters[m].mintedAmount >= amount
<1>1. /\ Good(u) /\ t.minters[m].isListed
      /\ \A a \in Accounts :
            /\ u.minters[a].isListed = t.minters[a].isListed
            /\ u.minters[a].mintedAmount = IF a = m THEN t.minters[a].mintedAmount - amount
                                                   ELSE t.minters[a].mintedAmount
      /\ u.balanceOf[m] = t.balanceOf[m] - amount
      /\ \A b \in Accounts : b # m => u.balanceOf[b] = t.balanceOf[b]
  BY BurnGood
<1>2. t.balanceOf[m] \in Nat /\ t.minters[m].mintedAmount \in Nat
  BY DEF Good, BaseSweepStorage, Minter
<1>3. t.balanceOf[m] >= amount /\ t.minters[m].mintedAmount >= amount
  BY DEF Burn, Call
<1> QED
  BY <1>1, <1>2, <1>3 DEF BookedBy

LEMMA BookedByMoves ==
    ASSUME Books, [Next]_vars, NEW c \in Chains, NEW m \in Accounts, NEW n \in Int,
           NEW t, BookedBy(sweep[c], t, m, n), Commit(c, t), NEW a \in Accounts
    PROVE  /\ held'[a] = held[a] + (IF a = m THEN n ELSE 0)
           /\ issued'[a] = issued[a] + (IF a = m THEN n ELSE 0)
<1>1. PICK k \in Int : k = IF a = m THEN n ELSE 0
  OBVIOUS
<1>2. sweep[c].minters[a].mintedAmount \in Nat /\ sweep[c].balanceOf[a] \in Nat
  BY NextOwnNumbers DEF OwnNumbers
<1>3. /\ t.minters[a].mintedAmount = sweep[c].minters[a].mintedAmount + k
      /\ t.balanceOf[a] = sweep[c].balanceOf[a] + k
  BY <1>1, <1>2 DEF BookedBy
<1>4. issued'[a] = issued[a] + k
  BY <1>3, OneContractIssued
<1>5. held'[a] = held[a] + k
  BY <1>3, OneContractHeld
<1> QED
  BY <1>1, <1>4, <1>5

LEMMA MintStep ==
    ASSUME Books, [Next]_vars, NEW c \in Chains, NEW m \in Accounts, NEW amount \in Amounts,
           mint(c, m, amount)
    PROVE  Step
<1>1. PICK t \in Mint(sweep[c], m, amount, TRUE) : Commit(c, t)
  BY DEF mint
<1>2. Good(sweep[c]) /\ amount \in Nat /\ amount \in Int
  BY AmountsAssumption, IInvIsGood DEF Books
<1>3. BookedBy(sweep[c], t, m, amount)
  BY <1>1, <1>2, MintBookedBy, Zenon
<1>4. \A a \in Accounts : /\ held'[a] = held[a] + (IF a = m THEN amount ELSE 0)
                          /\ issued'[a] = issued[a] + (IF a = m THEN amount ELSE 0)
  BY <1>1, <1>2, <1>3, BookedByMoves
<1>5. due' = due
  BY <1>1, OneContractDue
<1> QED
  BY <1>4, <1>5, IssueStep

LEMMA BurnStep ==
    ASSUME Books, [Next]_vars, NEW c \in Chains, NEW m \in Accounts, NEW amount \in Amounts,
           burn(c, m, amount)
    PROVE  Step
<1>1. PICK t \in Burn(sweep[c], m, amount, TRUE) : Commit(c, t)
  BY DEF burn
<1>2. Good(sweep[c]) /\ amount \in Nat /\ 0 - amount \in Int
  BY AmountsAssumption, IInvIsGood DEF Books
<1>3. /\ BookedBy(sweep[c], t, m, 0 - amount)
      /\ sweep[c].balanceOf[m] >= amount /\ sweep[c].minters[m].mintedAmount >= amount
  BY <1>1, <1>2, BurnBookedBy, Zenon
<1>4. \A a \in Accounts : /\ held'[a] = held[a] + (IF a = m THEN 0 - amount ELSE 0)
                          /\ issued'[a] = issued[a] + (IF a = m THEN 0 - amount ELSE 0)
  BY <1>1, <1>2, <1>3, BookedByMoves
<1>5. held[m] >= amount /\ issued[m] >= amount
  <2>1. /\ held[m] \in Nat /\ issued[m] \in Nat
        /\ sweep[c].balanceOf[m] \in Nat /\ sweep[c].minters[m].mintedAmount \in Nat
    BY LedgerNat, NextOwnNumbers DEF OwnNumbers
  <2>2. sweep[c].balanceOf[m] <= held[m] /\ sweep[c].minters[m].mintedAmount <= issued[m]
    BY LedgerAtLeast
  <2> QED
    BY <1>2, <1>3, <2>1, <2>2
<1>6. due' = due
  BY <1>1, OneContractDue
<1> QED
  BY <1>4, <1>5, <1>6, RedeemStep

\* A transfer: from pays to, who may be the same account.
PaidBy(t, u, from, to, amount) ==
    /\ t.balanceOf[from] >= amount
    /\ \A a \in Accounts :
          u.balanceOf[a] = t.balanceOf[a] + (IF a = from THEN 0 - amount ELSE 0)
                                          + (IF a = to THEN amount ELSE 0)

LEMMA TransferPaidBy ==
    ASSUME NEW t, Good(t), NEW from \in Accounts, NEW to \in Accounts,
           NEW amount \in Nat, NEW approves,
           NEW u \in Transfer(t, from, to, amount, approves)
    PROVE  PaidBy(t, u, from, to, amount)
<1> DEFINE o == t.balanceOf
           p == u.balanceOf
<1>1. p = Moved(o, from, to, amount) /\ o[from] >= amount
  BY TransferMoves
<1>2. o \in [Accounts -> Nat]
  BY DEF Good, BaseSweepStorage
<1> HIDE DEF o, p
<1>3. \A a \in Accounts : p[a] = o[a] + (IF a = from THEN 0 - amount ELSE 0)
                                      + (IF a = to THEN amount ELSE 0)
  BY <1>1, <1>2 DEF Moved
<1> QED
  BY <1>1, <1>3 DEF o, p, PaidBy

LEMMA TransferStep ==
    ASSUME Books, [Next]_vars, NEW c \in Chains, NEW from \in Accounts, NEW to \in Accounts,
           NEW amount \in Amounts, transfer(c, from, to, amount)
    PROVE  Step
<1>1. PICK t \in Transfer(sweep[c], from, to, amount, TRUE) : Commit(c, t)
  BY DEF transfer
<1>2. Good(sweep[c]) /\ amount \in Nat
  BY AmountsAssumption, IInvIsGood DEF Books
<1>3. Good(t) /\ KeepsMinters(sweep[c], t)
  BY <1>1, <1>2, TransferGood
<1>4. PaidBy(sweep[c], t, from, to, amount)
  BY <1>1, <1>2, TransferPaidBy, Zenon
<1>5. sweep[c].balanceOf \in [Accounts -> Nat]
  BY <1>2 DEF Good, BaseSweepStorage
<1>6. /\ sweep[c].balanceOf[from] >= amount
      /\ \A a \in Accounts :
            t.balanceOf[a] = sweep[c].balanceOf[a] + (IF a = from THEN 0 - amount ELSE 0)
                                                   + (IF a = to THEN amount ELSE 0)
  BY <1>4 DEF PaidBy
<1>7. ASSUME NEW a \in Accounts
      PROVE  held'[a] = held[a] + (IF a = from THEN 0 - amount ELSE 0)
                                  + (IF a = to THEN amount ELSE 0)
  <2>1. PICK n \in Int : n = (IF a = from THEN 0 - amount ELSE 0) + (IF a = to THEN amount ELSE 0)
    BY <1>2
  <2>2. sweep[c].balanceOf[a] \in Nat
    BY <1>5
  <2>3. t.balanceOf[a] = sweep[c].balanceOf[a] + n
    BY <1>2, <1>6, <2>1, <2>2
  <2>4. held'[a] = held[a] + n
    BY <1>1, <1>2, <1>3, <2>3, OneContractHeld
  <2> QED
    BY <1>2, <2>1, <2>4, LedgerNat
<1>8. issued' = issued
  <2>1. sweep'[c] = t /\ \A e \in Chains : e # c => sweep'[e] = sweep[e]
    BY <1>1 DEF Commit, Books, IInv, TypeOK
  <2> QED
    BY <1>3, <2>1, SameIssued DEF KeepsMinters
<1>9. held[from] >= amount
  <2>1. sweep[c].balanceOf[from] <= held[from] /\ held[from] \in Nat
    BY LedgerAtLeast, LedgerNat
  <2> QED
    BY <1>2, <1>5, <1>6, <2>1
<1>10. due' = due
  BY <1>1, OneContractDue
<1> QED
  BY <1>7, <1>8, <1>9, <1>10, PayStep

LEMMA OneChainStep ==
    ASSUME Books, NEW c \in Chains, OneChain(c)
    PROVE  Step
<1>1. Good(sweep[c]) /\ Cleared(sweep[c])
  BY IInvIsGood DEF Books
<1>2. [Next]_vars
  BY DEF Next
<1>3. Amounts \subseteq Nat /\ Caps \subseteq Nat
  BY AmountsAssumption, CapsAssumption
<1>4. CASE pause(c) \/ unpause(c) \/ setTransferApprover(c)
  <2>1. PICK t \in Pause(sweep[c]) \cup Unpause(sweep[c]) \cup SetTransferApprover(sweep[c]) :
            Commit(c, t)
    BY <1>4 DEF pause, unpause, setTransferApprover
  <2>2. Good(t) /\ t.balanceOf = sweep[c].balanceOf /\ t.minters = sweep[c].minters
    BY <1>1, SwitchGood
  <2> QED
    BY <1>2, <2>1, <2>2, QuietStep
<1>5. ASSUME NEW m \in Accounts, removeMinter(c, m)
      PROVE  Step
  BY <1>2, <1>5, RemoveMinterStep
<1>6. ASSUME NEW m \in Accounts, NEW enabled \in BOOLEAN, setMinterEnabled(c, m, enabled)
      PROVE  Step
  <2>1. PICK t \in SetMinterEnabled(sweep[c], m, enabled) : Commit(c, t)
    BY <1>6 DEF setMinterEnabled
  <2>2. Good(t) /\ t.balanceOf = sweep[c].balanceOf /\ SameAmounts(sweep[c], t)
    BY <1>1, SetMinterEnabledGood
  <2> QED
    BY <1>2, <2>1, <2>2, QuietStep DEF SameAmounts
<1>7. ASSUME NEW m \in Accounts, NEW cap \in Caps, addMinter(c, m, cap)
      PROVE  Step
  <2>1. PICK t \in AddMinter(sweep[c], m, cap) : Commit(c, t)
    BY <1>7 DEF addMinter
  <2>2. /\ Good(t) /\ t.balanceOf = sweep[c].balanceOf /\ ~sweep[c].minters[m].isListed
        /\ t.minters[m].mintedAmount = 0
        /\ \A a \in Accounts \ {m} : t.minters[a] = sweep[c].minters[a]
    BY <1>1, <1>3, <2>1, AddMinterGood
  <2>3. \A a \in Accounts : t.minters[a].mintedAmount = sweep[c].minters[a].mintedAmount
    BY <1>1, <2>2 DEF Cleared
  <2> QED
    BY <1>2, <2>1, <2>2, <2>3, QuietStep
<1>8. ASSUME NEW m \in Accounts, NEW cap \in Caps, setMinterMaxAmount(c, m, cap)
      PROVE  Step
  <2>1. PICK t \in SetMinterMaxAmount(sweep[c], m, cap) : Commit(c, t)
    BY <1>8 DEF setMinterMaxAmount
  <2>2. Good(t) /\ t.balanceOf = sweep[c].balanceOf /\ SameAmounts(sweep[c], t)
    BY <1>1, <1>3, SetMinterMaxAmountGood
  <2> QED
    BY <1>2, <2>1, <2>2, QuietStep DEF SameAmounts
<1>9. ASSUME NEW m \in Accounts, NEW a \in Amounts, mint(c, m, a)
      PROVE  Step
  BY <1>2, <1>9, MintStep
<1>10. ASSUME NEW m \in Accounts, NEW a \in Amounts, burn(c, m, a)
       PROVE  Step
  BY <1>2, <1>10, BurnStep
<1>11. ASSUME NEW from \in Accounts, NEW to \in Accounts, NEW a \in Amounts,
              transfer(c, from, to, a)
       PROVE  Step
  BY <1>2, <1>11, TransferStep
<1> QED
  BY <1>4, <1>5, <1>6, <1>7, <1>8, <1>9, <1>10, <1>11 DEF OneChain

\* A transfer to another chain takes the amount from what from holds to what is due to to.
LEMMA SendFromStep ==
    ASSUME Books, NEW s \in Chains, NEW d \in Chains, NEW from \in Accounts,
           NEW to \in Accounts, NEW amount \in Amounts, sendFrom(s, d, from, to, amount)
    PROVE  Step
<1>1. PICK t \in DebitFrom(sweep[s], from, amount, TRUE) : sweep' = [sweep EXCEPT ![s] = t]
  BY DEF sendFrom
<1>2. [Next]_vars
  BY DEF Next
<1>3. amount \in Nat /\ Good(sweep[s]) /\ s # d
  BY AmountsAssumption, IInvIsGood DEF Books, sendFrom
<1>4. Good(t) /\ KeepsMinters(sweep[s], t)
  BY <1>1, <1>3, DebitFromGood
<1>5. BalanceMoves(sweep[s], t, from, 0 - amount)
  BY <1>1, <1>3, DebitFromGood
<1>6. sweep[s].balanceOf[from] >= amount
  BY <1>1 DEF DebitFrom, Call
<1>7. sweep'[s] = t /\ \A e \in Chains : e # s => sweep'[e] = sweep[e]
  BY <1>1 DEF Books, IInv, TypeOK
<1> DEFINE m == [nonce |-> nonce[s][d] + 1, to |-> to, amount |-> amount]
<1>8. /\ channel[s][d] \in Seq(Message) /\ nonce[s][d] \in Nat
      /\ channel'[s][d] = Append(channel[s][d], m)
      /\ \A r, e \in Chains : ~(r = s /\ e = d) => channel'[r][e] = channel[r][e]
      /\ failed' = failed
  BY DEF Books, IInv, TypeOK, sendFrom
<1>9. m \in Message /\ m.nonce = nonce[s][d] + 1 /\ m.amount = amount /\ m.to = to
  BY <1>3, <1>8 DEF Message
<1> HIDE DEF m
<1>10. \A i \in 1 .. Len(channel[s][d]) : channel[s][d][i] # m
  <2>1. LastOnes(channel[s][d], nonce[s][d])
    BY DEF Books, Numbered
  <2> QED
    BY <1>8, <1>9, <2>1, SendNumbered
<1>11. \A r, e \in Chains, a \in Accounts :
          ~(r = s /\ e = d) => OnPathTo(a, r, e)' = OnPathTo(a, r, e)
  BY <1>8 DEF OnPathTo
<1>12. ASSUME NEW a \in Accounts
       PROVE  held'[a] = held[a] + (IF a = from THEN 0 - amount ELSE 0)
  <2>1. PICK n \in Int : n = IF a = from THEN 0 - amount ELSE 0
    BY <1>3
  <2>2. sweep[s].balanceOf[a] \in Int
    BY <1>2, NextOwnNumbers DEF OwnNumbers
  <2>3. sweep'[s].balanceOf[a] = sweep[s].balanceOf[a] + n
    BY <1>5, <1>7, <2>1, <2>2 DEF BalanceMoves
  <2>4. held'[a] = held[a] + n
    BY <1>2, <1>7, <2>3, HeldOnChange
  <2> QED
    BY <2>1, <2>4
<1>13. ASSUME NEW a \in Accounts
       PROVE  due'[a] = due[a] + (IF a = to THEN amount ELSE 0)
  <2>1. PICK n \in Int : n = IF a = to THEN amount ELSE 0
    BY <1>3
  <2>2. AmountTo(a, failed[d]) \in Int /\ Coming(a, d) \in Int
    BY <1>2, NextOwnNumbers DEF OwnNumbers
  <2>3. OnPathTo(a, s, d)' = OnPathTo(a, s, d) + n
    <3>1. AmountTo(a, Range(Append(channel[s][d], m))) =
              AmountTo(a, Range(channel[s][d])) + (IF m.to = a THEN m.amount ELSE 0)
      BY <1>8, <1>9, <1>10, PathSendTo
    <3>2. (IF m.to = a THEN m.amount ELSE 0) = n
      BY <1>9, <2>1
    <3> QED
      BY <1>8, <3>1, <3>2 DEF OnPathTo
  <2>4. Coming(a, d)' = Coming(a, d) + n
    BY <1>2, <1>11, <2>3, ComingChange
  <2>5. DueOn(a, d)' = DueOn(a, d) + n
    BY <1>8, <2>2, <2>4 DEF DueOn
  <2>6. \A e \in Chains : e # d => DueOn(a, e)' = DueOn(a, e)
    BY <1>8, ComingSame DEF DueOn
  <2>7. due'[a] = due[a] + n
    BY <1>2, <2>5, <2>6, DueChange
  <2> QED
    BY <2>1, <2>7
<1>14. issued' = issued
  BY <1>4, <1>7, SameIssued DEF KeepsMinters
<1>15. held[from] >= amount
  <2>1. /\ sweep[s].balanceOf[from] <= held[from] /\ held[from] \in Nat
        /\ sweep[s].balanceOf[from] \in Nat
    BY <1>2, LedgerAtLeast, LedgerNat, NextOwnNumbers DEF OwnNumbers
  <2> QED
    BY <1>3, <1>6, <2>1
<1> QED
  BY <1>12, <1>13, <1>14, <1>15, SendStep

\* A credit on d out of what is due there to its receiver.
LEMMA CreditStep ==
    ASSUME Books, [Next]_vars, NEW d \in Chains, NEW to \in Accounts, NEW amount \in Nat,
           NEW t, KeepsMinters(sweep[d], t), BalanceMoves(sweep[d], t, to, amount),
           sweep'[d] = t, \A e \in Chains : e # d => sweep'[e] = sweep[e],
           \A a \in Accounts : DueOn(a, d)' = DueOn(a, d) + (IF a = to THEN 0 - amount ELSE 0),
           \A a \in Accounts, e \in Chains : e # d => DueOn(a, e)' = DueOn(a, e)
    PROVE  Step
<1>1. OwnNumbers /\ OwnNumbers'
  BY NextOwnNumbers
<1>2. ASSUME NEW a \in Accounts
      PROVE  held'[a] = held[a] + (IF a = to THEN amount ELSE 0)
  <2>1. PICK n \in Int : n = IF a = to THEN amount ELSE 0
    OBVIOUS
  <2>2. sweep[d].balanceOf[a] \in Int
    BY <1>1 DEF OwnNumbers
  <2>3. sweep'[d].balanceOf[a] = sweep[d].balanceOf[a] + n
    BY <2>1, <2>2 DEF BalanceMoves
  <2>4. held'[a] = held[a] + n
    BY <2>3, HeldOnChange
  <2> QED
    BY <2>1, <2>4
<1>3. ASSUME NEW a \in Accounts
      PROVE  due'[a] = due[a] + (IF a = to THEN 0 - amount ELSE 0)
  <2>1. PICK n \in Int : n = IF a = to THEN 0 - amount ELSE 0
    OBVIOUS
  <2>2. DueOn(a, d)' = DueOn(a, d) + n
    BY <2>1
  <2>3. due'[a] = due[a] + n
    BY <2>2, DueChange
  <2> QED
    BY <2>1, <2>3
<1>4. issued' = issued
  BY SameIssued DEF KeepsMinters
<1>5. amount <= due[to]
  <2>1. /\ DueOn(to, d) \in Nat /\ DueOn(to, d)' \in Nat
        /\ DueOn(to, d)' = DueOn(to, d) + (0 - amount)
    BY <1>1 DEF OwnNumbers
  <2>2. DueOn(to, d) <= due[to] /\ due[to] \in Nat
    BY LedgerAtLeast, LedgerNat
  <2> QED
    BY <2>1, <2>2
<1> QED
  BY <1>2, <1>3, <1>4, <1>5, ArriveStep

LEMMA RetryMessageStep ==
    ASSUME Books, NEW d \in Chains, NEW f \in failed[d], retryMessage(d, f)
    PROVE  Step
<1>1. [Next]_vars
  BY DEF Next
<1>2. PICK t \in CreditTo(sweep[d], f.to, f.amount, TRUE) : sweep' = [sweep EXCEPT ![d] = t]
  BY DEF retryMessage
<1>3. Good(sweep[d]) /\ f.to \in Accounts /\ f.amount \in Nat
  BY IInvIsGood, FailedIsMessage DEF Books
<1>4. KeepsMinters(sweep[d], t)
  BY <1>2, <1>3, CreditToGood
<1>5. BalanceMoves(sweep[d], t, f.to, f.amount)
  BY <1>2, <1>3, CreditToGood
<1>6. sweep'[d] = t /\ \A e \in Chains : e # d => sweep'[e] = sweep[e]
  BY <1>2 DEF Books, IInv, TypeOK
<1>7. /\ failed'[d] = failed[d] \ {f} /\ \A e \in Chains : e # d => failed'[e] = failed[e]
      /\ channel' = channel
  BY DEF retryMessage, Books, IInv, TypeOK
<1>8. \A a \in Accounts, e \in Chains : Coming(a, e)' = Coming(a, e)
  BY <1>7, ComingSame
<1>9. ASSUME NEW a \in Accounts
      PROVE  DueOn(a, d)' = DueOn(a, d) + (IF a = f.to THEN 0 - f.amount ELSE 0)
  <2>1. PICK n \in Int : n = IF f.to = a THEN f.amount ELSE 0
    BY <1>3
  <2>2. AmountTo(a, failed[d]) \in Int /\ Coming(a, d) \in Int
    BY <1>1, NextOwnNumbers DEF OwnNumbers
  <2>3. IsFiniteSet(failed[d]) /\ \A g \in failed[d] : g.amount \in Nat
    BY DEF Books, Numbered, IInv, TypeOK, FailedMessage
  <2>4. AmountTo(a, failed[d] \ {f}) = AmountTo(a, failed[d]) - n
    BY <2>1, <2>3, AmountToRemove
  <2>5. AmountTo(a, failed'[d]) = AmountTo(a, failed[d]) - n
    BY <1>7, <2>4
  <2>6. DueOn(a, d)' = DueOn(a, d) - n
    BY <1>8, <2>2, <2>5 DEF DueOn
  <2> QED
    BY <1>3, <2>1, <2>2, <2>6 DEF DueOn
<1>10. \A a \in Accounts, e \in Chains : e # d => DueOn(a, e)' = DueOn(a, e)
  BY <1>7, <1>8 DEF DueOn
<1> QED
  BY <1>1, <1>3, <1>4, <1>5, <1>6, <1>9, <1>10, CreditStep

LEMMA LzReceiveStep ==
    ASSUME Books, NEW s \in Chains, NEW d \in Chains, NEW approves \in BOOLEAN,
           lzReceive(s, d, approves)
    PROVE  Step
<1> DEFINE m == Head(channel[s][d])
           f == [src |-> s, nonce |-> m.nonce, to |-> m.to, amount |-> m.amount]
<1>1. [Next]_vars
  BY DEF Next
<1>2. /\ channel[s][d] # <<>> /\ channel[s][d] \in Seq(Message) /\ nonce[s][d] \in Nat
      /\ channel'[s][d] = Tail(channel[s][d])
      /\ \A r, e \in Chains : ~(r = s /\ e = d) => channel'[r][e] = channel[r][e]
  BY Delivered DEF Books
<1>3. m.to \in Accounts /\ m.amount \in Nat /\ m.nonce \in Nat
  BY <1>2, HeadIsMessage DEF Books
<1>4. /\ m.nonce = nonce[s][d] - Len(channel[s][d]) + 1
      /\ \A i \in 2 .. Len(channel[s][d]) : channel[s][d][i] # m
  BY <1>2, DeliverNumbered DEF Books, Numbered
<1>5. \A a \in Accounts :
         AmountTo(a, Range(Tail(channel[s][d]))) =
             AmountTo(a, Range(channel[s][d])) - (IF m.to = a THEN m.amount ELSE 0)
  BY <1>2, <1>4, PathDeliverTo
<1>6. f.src = s /\ f.nonce = m.nonce /\ f.amount = m.amount /\ f.to = m.to
  OBVIOUS
<1>7. \/ /\ \E t \in CreditTo(sweep[d], m.to, m.amount, approves) :
                sweep' = [sweep EXCEPT ![d] = t]
         /\ failed' = failed
      \/ failed' = [failed EXCEPT ![d] = @ \cup {f}] /\ sweep' = sweep
  BY DEF lzReceive
<1> HIDE DEF f, m
<1>8. \A a \in Accounts, e \in Chains : e # d => Coming(a, e)' = Coming(a, e)
  BY <1>2, ComingSame
<1>9. ASSUME NEW a \in Accounts, NEW x \in Int, x = IF m.to = a THEN m.amount ELSE 0
      PROVE  Coming(a, d)' = Coming(a, d) - x
  <2>1. \A r \in Chains : r # s => OnPathTo(a, r, d)' = OnPathTo(a, r, d)
    BY <1>2 DEF OnPathTo
  <2>2. PICK n \in Int : n = 0 - x
    OBVIOUS
  <2>3. OnPathTo(a, s, d)' = OnPathTo(a, s, d) - x
    BY <1>2, <1>5, <1>9 DEF OnPathTo
  <2>4. OnPathTo(a, s, d) \in Int /\ Coming(a, d) \in Int
    BY <1>1, NextOwnNumbers DEF OwnNumbers
  <2>5. OnPathTo(a, s, d)' = OnPathTo(a, s, d) + n
    BY <2>2, <2>3, <2>4
  <2>6. Coming(a, d)' = Coming(a, d) + n
    BY <1>1, <2>1, <2>5, ComingChange
  <2> QED
    BY <2>2, <2>4, <2>6
<1>10. \A a \in Accounts : AmountTo(a, failed[d]) \in Int /\ Coming(a, d) \in Int
  BY <1>1, NextOwnNumbers DEF OwnNumbers
<1>11. ASSUME NEW t \in CreditTo(sweep[d], m.to, m.amount, approves),
              sweep' = [sweep EXCEPT ![d] = t], failed' = failed
       PROVE  Step
  <2>1. Good(sweep[d])
    BY IInvIsGood DEF Books
  <2>2. KeepsMinters(sweep[d], t)
    BY <1>3, <1>11, <2>1, CreditToGood
  <2>3. BalanceMoves(sweep[d], t, m.to, m.amount)
    BY <1>3, <1>11, <2>1, CreditToGood
  <2>4. sweep'[d] = t /\ \A e \in Chains : e # d => sweep'[e] = sweep[e]
    BY <1>11 DEF Books, IInv, TypeOK
  <2>5. ASSUME NEW a \in Accounts
        PROVE  DueOn(a, d)' = DueOn(a, d) + (IF a = m.to THEN 0 - m.amount ELSE 0)
    <3>1. PICK x \in Int : x = IF m.to = a THEN m.amount ELSE 0
      BY <1>3
    <3>2. Coming(a, d)' = Coming(a, d) - x
      BY <1>9, <3>1
    <3> QED
      BY <1>3, <1>10, <1>11, <3>1, <3>2 DEF DueOn
  <2>6. \A a \in Accounts, e \in Chains : e # d => DueOn(a, e)' = DueOn(a, e)
    BY <1>8, <1>11 DEF DueOn
  <2> QED
    BY <1>1, <1>3, <2>2, <2>3, <2>4, <2>5, <2>6, CreditStep
<1>12. CASE failed' = [failed EXCEPT ![d] = @ \cup {f}] /\ sweep' = sweep
  <2>1. failed'[d] = failed[d] \cup {f} /\ \A e \in Chains : e # d => failed'[e] = failed[e]
    BY <1>12 DEF Books, IInv, TypeOK
  <2>2. f \notin failed[d]
    <3>1. f \in failed[d] => f.nonce <= nonce[f.src][d] - Len(channel[f.src][d])
      BY DEF Books, Numbered
    <3>2. Len(channel[s][d]) \in Nat
      BY <1>2
    <3> QED
      BY <1>2, <1>4, <1>6, <3>1, <3>2
  <2>3. IsFiniteSet(failed[d]) /\ \A g \in failed[d] : g.amount \in Nat
    BY DEF Books, Numbered, IInv, TypeOK, FailedMessage
  <2>4. ASSUME NEW a \in Accounts
        PROVE  DueOn(a, d)' = DueOn(a, d)
    <3>1. PICK x \in Int : x = IF m.to = a THEN m.amount ELSE 0
      BY <1>3
    <3>2. AmountTo(a, failed[d] \cup {f}) =
              AmountTo(a, failed[d]) + (IF f.to = a THEN f.amount ELSE 0)
      BY <1>3, <1>6, <2>2, <2>3, AmountToAdd
    <3>3. AmountTo(a, failed'[d]) = AmountTo(a, failed[d]) + x
      BY <1>6, <2>1, <3>1, <3>2
    <3>4. Coming(a, d)' = Coming(a, d) - x
      BY <1>9, <3>1
    <3> QED
      BY <1>10, <3>3, <3>4 DEF DueOn
  <2>5. \A a \in Accounts, e \in Chains : e # d => DueOn(a, e)' = DueOn(a, e)
    BY <1>8, <2>1 DEF DueOn
  <2>6. due' = due
    <3>1. ASSUME NEW a \in Accounts
          PROVE  due'[a] = due[a]
      <4>1. [e \in Chains |-> DueOn(a, e)'] = [e \in Chains |-> DueOn(a, e)]
        BY <2>4, <2>5
      <4>2. due[a] = SumOf([e \in Chains |-> DueOn(a, e)])
        BY LedgerEntries
      <4>3. due'[a] = SumOf([e \in Chains |-> DueOn(a, e)'])
        BY LedgerEntries
      <4> QED
        BY <4>1, <4>2, <4>3
    <3>2. due = [a \in Accounts |-> due[a]] /\ due' = [a \in Accounts |-> due'[a]]
      BY LedgerFunctions
    <3> QED
      BY <3>1, <3>2
  <2>7. held' = held /\ issued' = issued
    BY <1>12, SameHeld, SameIssued
  <2> QED
    BY <2>6, <2>7 DEF Step
<1> QED
  BY <1>7, <1>11, <1>12

LEMMA NextStep ==
    ASSUME Books, [Next]_vars
    PROVE  Step
<1>1. ASSUME NEW c \in Chains, OneChain(c)
      PROVE  Step
  BY <1>1, OneChainStep
<1>2. ASSUME NEW s \in Chains, NEW d \in Chains, NEW from \in Accounts,
             NEW to \in Accounts, NEW a \in Amounts, sendFrom(s, d, from, to, a)
      PROVE  Step
  BY <1>2, SendFromStep
<1>3. ASSUME NEW s \in Chains, NEW d \in Chains, NEW approves \in BOOLEAN,
             lzReceive(s, d, approves)
      PROVE  Step
  BY <1>3, LzReceiveStep
<1>4. ASSUME NEW d \in Chains, NEW f \in failed[d], retryMessage(d, f)
      PROVE  Step
  BY <1>4, RetryMessageStep
<1>5. CASE UNCHANGED vars
  BY <1>5 DEF vars, held, due, issued, Step
<1> QED
  BY <1>1, <1>2, <1>3, <1>4, <1>5 DEF Next

LEMMA InitStep == Init => Whole!Init
<1> SUFFICES ASSUME Init PROVE Whole!Init
  OBVIOUS
<1>1. \A a \in Accounts, d \in Chains :
         /\ sweep[d].balanceOf[a] = 0 /\ sweep[d].minters[a].mintedAmount = 0
         /\ failed[d] = {} /\ \A s \in Chains : channel[s][d] = <<>>
  BY DEF Init, InitBaseSweep, NoMinter
<1>2. \A a \in Accounts : AmountTo(a, {}) = 0
  <2>1. IsFiniteSet({}) /\ [m \in {} |-> m.amount] = [m \in {} |-> 0]
    BY FS_EmptySet
  <2>2. SumOf([m \in {} |-> 0]) = 0
    BY <2>1, SumZero
  <2>3. \A a : {m \in {} : m.to = a} = {}
    OBVIOUS
  <2> QED
    BY <2>1, <2>2, <2>3 DEF AmountTo, AmountIn
<1>3. ASSUME NEW a \in Accounts
      PROVE  held[a] = 0 /\ due[a] = 0 /\ issued[a] = 0
  <2>1. SumOf([c \in Chains |-> 0]) = 0
    BY FiniteAssumption, SumZero
  <2>2. \A d, s \in Chains : OnPathTo(a, s, d) = 0
    <3>1. Range(<<>>) = {}
      BY DEF Range
    <3> QED
      BY <1>1, <1>2, <3>1 DEF OnPathTo
  <2>3. ASSUME NEW d \in Chains
        PROVE  DueOn(a, d) = 0
    <3>1. [s \in Chains |-> OnPathTo(a, s, d)] = [s \in Chains |-> 0]
      BY <2>2
    <3>2. Coming(a, d) = 0
      BY <2>1, <3>1 DEF Coming
    <3>3. AmountTo(a, failed[d]) = 0
      BY <1>1, <1>2
    <3> QED
      BY <3>2, <3>3 DEF DueOn
  <2>4. /\ [d \in Chains |-> sweep[d].balanceOf[a]] = [c \in Chains |-> 0]
        /\ [d \in Chains |-> DueOn(a, d)] = [c \in Chains |-> 0]
        /\ [c \in Chains |-> sweep[c].minters[a].mintedAmount] = [c \in Chains |-> 0]
    BY <1>1, <2>3
  <2>5. held[a] = 0
    BY <2>1, <2>4, LedgerEntries
  <2>6. due[a] = 0
    BY <2>1, <2>4, LedgerEntries
  <2>7. issued[a] = 0
    BY <2>1, <2>4, LedgerEntries
  <2> QED
    BY <2>5, <2>6, <2>7
<1>4. /\ held = [a \in Accounts |-> held[a]] /\ due = [a \in Accounts |-> due[a]]
      /\ issued = [a \in Accounts |-> issued[a]]
  BY LedgerFunctions
<1> QED
  BY <1>3, <1>4 DEF Whole!Init

\* The SWEEP contracts of any number of chains implement one ledger: what is sent to
\* another chain is due to its receiver from then on, and arrives there once, whatever of
\* its delivery is late, reverts, is stored or retried; only minters bring SWEEP into the
\* ledger or out of it, each on its own account.
THEOREM OneLedgerRefined == Spec => ImplementsOneLedger
<1>1. Init => Whole!Init
  BY InitStep
<1>2. Books /\ [Next]_vars => [Whole!Next]_<<held, due, issued>>
  BY NextStep DEF Step
<1>3. Books /\ [Next]_vars => Books'
  BY NextBooks
<1> QED
  BY <1>1, <1>2, <1>3, InitBooks, PTL DEF Spec, ImplementsOneLedger, Whole!Spec
=============================================================================

-------------------------- MODULE BaseSweepProofs --------------------------
(***************************************************************************)
(* Lemmas about the operations of one SWEEP contract: each keeps the       *)
(* storage well typed and the minter list consistent, settings move no     *)
(* balance, and what moves balances needs the contract unpaused.           *)
(***************************************************************************)
EXTENDS BaseSweep, TLAPS

-----------------------------------------------------------------------------
(* The list operations of addMinter and removeMinter *)

\* Appending a new entry keeps a list free of repetitions and adds just that entry.
LEMMA AppendEntry ==
    ASSUME NEW S, NEW list \in Seq(S), NEW m \in S,
           Injective(list), m \notin Entries(list)
    PROVE  /\ Injective(Append(list, m))
           /\ Entries(Append(list, m)) = Entries(list) \cup {m}
<1> DEFINE new == Append(list, m)
<1>1. /\ Len(new) = Len(list) + 1
      /\ Len(list) \in Nat
      /\ \A k \in 1 .. Len(list) : new[k] = list[k]
      /\ new[Len(list) + 1] = m
  OBVIOUS
<1> HIDE DEF new
<1>2. Injective(new)
  BY <1>1 DEF Injective, Entries
<1>3. Entries(new) = Entries(list) \cup {m}
  <2>1. ASSUME NEW k \in 1 .. Len(new)
        PROVE  new[k] \in Entries(list) \cup {m}
    BY <1>1 DEF Entries
  <2>2. ASSUME NEW k \in 1 .. Len(list)
        PROVE  list[k] \in Entries(new)
    BY <1>1 DEF Entries
  <2>3. m \in Entries(new)
    BY <1>1 DEF Entries
  <2> QED
    BY <2>1, <2>2, <2>3 DEF Entries
<1> QED
  BY <1>2, <1>3 DEF new

\* The swap-and-pop of removeMinter takes exactly the entry at i out of a list free of
\* repetitions.
LEMMA SwapRemoveEntry ==
    ASSUME NEW S, NEW list \in Seq(S), NEW i \in 1 .. Len(list), Injective(list)
    PROVE  /\ SwapRemove(list, i) \in Seq(S)
           /\ Injective(SwapRemove(list, i))
           /\ Entries(SwapRemove(list, i)) = Entries(list) \ {list[i]}
<1> DEFINE n == Len(list)
           new == SwapRemove(list, i)
<1>1. n \in Nat \ {0} /\ \A k \in 1 .. n : list[k] \in S
  OBVIOUS
<1>2. new = [k \in 1 .. n - 1 |-> IF k = i THEN list[n] ELSE list[k]]
  BY DEF SwapRemove
<1>3. new \in Seq(S) /\ Len(new) = n - 1
  BY <1>1, <1>2
<1>4. \A k \in 1 .. n - 1 : new[k] = IF k = i THEN list[n] ELSE list[k]
  BY <1>2
<1> HIDE DEF new
<1>5. Injective(new)
  BY <1>1, <1>3, <1>4 DEF Injective
<1>6. ASSUME NEW k \in 1 .. Len(new)
      PROVE  new[k] \in Entries(list) \ {list[i]}
  BY <1>1, <1>3, <1>4 DEF Injective, Entries
<1>7. ASSUME NEW k \in 1 .. n, list[k] # list[i]
      PROVE  list[k] \in Entries(new)
  <2>1. CASE k = n
    <3>1. i \in 1 .. n - 1 /\ new[i] = list[n]
      BY <2>1, <1>1, <1>4, <1>7
    <3> QED
      BY <3>1, <2>1, <1>3 DEF Entries
  <2>2. CASE k # n
    <3>1. k \in 1 .. n - 1 /\ new[k] = list[k]
      BY <2>2, <1>1, <1>4, <1>7
    <3> QED
      BY <3>1, <1>3 DEF Entries
  <2> QED
    BY <2>1, <2>2
<1>8. Entries(new) = Entries(list) \ {list[i]}
  BY <1>6, <1>7 DEF Entries
<1> QED
  BY <1>3, <1>5, <1>8 DEF new

\* The loop of removeMinter, on a list that names m: exactly m leaves the list.
LEMMA WithoutMinterEntry ==
    ASSUME NEW S, NEW list \in Seq(S), NEW m \in Entries(list), Injective(list)
    PROVE  /\ WithoutMinter(list, m) \in Seq(S)
           /\ Injective(WithoutMinter(list, m))
           /\ Entries(WithoutMinter(list, m)) = Entries(list) \ {m}
<1> DEFINE First(i) == list[i] = m /\ \A j \in 1 .. i - 1 : list[j] # m
           at == CHOOSE i \in 1 .. Len(list) : First(i)
<1>1. PICK i \in 1 .. Len(list) : list[i] = m
  BY DEF Entries
<1>2. First(i)
  BY <1>1 DEF Injective
<1>3. at \in 1 .. Len(list) /\ list[at] = m
  BY <1>2
<1>4. WithoutMinter(list, m) = SwapRemove(list, at)
  BY <1>1 DEF WithoutMinter
<1> HIDE DEF at
<1> QED
  BY <1>3, <1>4, SwapRemoveEntry

-----------------------------------------------------------------------------
(* Storage *)

Good(t) == t \in BaseSweepStorage /\ ListConsistent(t)

\* Minters stay listed or not, with what they have minted.
SameAmounts(t, u) ==
    \A a \in Accounts : /\ u.minters[a].isListed = t.minters[a].isListed
                        /\ u.minters[a].mintedAmount = t.minters[a].mintedAmount

KeepsMinters(t, u) == u.minters = t.minters

\* One balance changes by n, the others stay.
BalanceMoves(t, u, a, n) ==
    /\ u.balanceOf[a] = t.balanceOf[a] + n
    /\ \A b \in Accounts : b # a => u.balanceOf[b] = t.balanceOf[b]

LEMMA SetMinters ==
    ASSUME NEW t \in BaseSweepStorage, NEW minters \in [Accounts -> Minter]
    PROVE  LET u == [t EXCEPT !.minters = minters]
           IN  /\ u \in BaseSweepStorage
               /\ u.minters = minters /\ u.balanceOf = t.balanceOf
               /\ u.minterAddresses = t.minterAddresses
               /\ u.paused = t.paused
BY DEF BaseSweepStorage

LEMMA SetList ==
    ASSUME NEW t \in BaseSweepStorage, NEW list \in Seq(Accounts)
    PROVE  LET u == [t EXCEPT !.minterAddresses = list]
           IN  /\ u \in BaseSweepStorage
               /\ u.minters = t.minters /\ u.balanceOf = t.balanceOf
               /\ u.minterAddresses = list
               /\ u.paused = t.paused
BY DEF BaseSweepStorage

LEMMA SetBalances ==
    ASSUME NEW t \in BaseSweepStorage, NEW balances \in [Accounts -> Nat]
    PROVE  LET u == [t EXCEPT !.balanceOf = balances]
           IN  /\ u \in BaseSweepStorage
               /\ u.minters = t.minters /\ u.balanceOf = balances
               /\ u.minterAddresses = t.minterAddresses
               /\ u.paused = t.paused
BY DEF BaseSweepStorage

\* Minters that stay listed, or unlisted, keep the list consistent.
LEMMA SameListed ==
    ASSUME NEW t, Good(t), NEW minters \in [Accounts -> Minter],
           \A a \in Accounts : minters[a].isListed = t.minters[a].isListed
    PROVE  LET u == [t EXCEPT !.minters = minters]
           IN  Good(u) /\ u.minters = minters /\ u.balanceOf = t.balanceOf
<1> DEFINE u == [t EXCEPT !.minters = minters]
<1>1. /\ u \in BaseSweepStorage /\ u.minters = minters
      /\ u.balanceOf = t.balanceOf /\ u.minterAddresses = t.minterAddresses
  BY SetMinters DEF Good
<1> HIDE DEF u
<1>2. ListConsistent(u)
  BY <1>1 DEF Good, ListConsistent
<1> QED
  BY <1>1, <1>2 DEF Good, u

\* Balances have no part in the list.
LEMMA NewBalances ==
    ASSUME NEW t, Good(t), NEW balances \in [Accounts -> Nat]
    PROVE  LET u == [t EXCEPT !.balanceOf = balances]
           IN  Good(u) /\ u.minters = t.minters /\ u.balanceOf = balances
<1> DEFINE u == [t EXCEPT !.balanceOf = balances]
<1>1. /\ u \in BaseSweepStorage /\ u.minters = t.minters /\ u.balanceOf = balances
      /\ u.minterAddresses = t.minterAddresses
  BY SetBalances DEF Good
<1> HIDE DEF u
<1>2. ListConsistent(u)
  BY <1>1 DEF Good, ListConsistent
<1> QED
  BY <1>1, <1>2 DEF Good, u

-----------------------------------------------------------------------------
(* Settings *)

\* addMinter
LEMMA AddMinterGood ==
    ASSUME NEW t, Good(t), NEW m \in Accounts, NEW amount \in Nat,
           NEW u \in AddMinter(t, m, amount)
    PROVE  /\ Good(u) /\ u.balanceOf = t.balanceOf
           /\ ~t.minters[m].isListed
           /\ u.minters[m].isListed /\ u.minters[m].mintedAmount = 0
           /\ \A a \in Accounts \ {m} : u.minters[a] = t.minters[a]
<1> DEFINE v == [maxAmount |-> amount, mintedAmount |-> 0,
                 isListed |-> TRUE, isEnabled |-> TRUE]
           minters == [t.minters EXCEPT ![m] = v]
           list == Append(t.minterAddresses, m)
           w == [t EXCEPT !.minterAddresses = list]
<1>1. /\ t \in BaseSweepStorage /\ t.minters \in [Accounts -> Minter]
      /\ t.minterAddresses \in Seq(Accounts)
  BY DEF Good, BaseSweepStorage
<1>2. ~t.minters[m].isListed /\ u = [w EXCEPT !.minters[m] = v]
  BY DEF AddMinter, Call
<1>3. m \notin Entries(t.minterAddresses)
  BY <1>2 DEF Good, ListConsistent
<1>4. /\ list \in Seq(Accounts) /\ Injective(list)
      /\ Entries(list) = Entries(t.minterAddresses) \cup {m}
  BY <1>1, <1>3, AppendEntry DEF Good, ListConsistent
<1>5. v \in Minter /\ v.isListed /\ v.mintedAmount = 0
  BY DEF Minter
<1> HIDE DEF v, list
<1>6. /\ w \in BaseSweepStorage /\ w.minters = t.minters
      /\ w.balanceOf = t.balanceOf /\ w.minterAddresses = list
  BY <1>1, <1>4, SetList
<1> HIDE DEF w
<1>7. u = [w EXCEPT !.minters = minters]
  BY <1>2, <1>6
<1>8. /\ minters \in [Accounts -> Minter]
      /\ {a \in Accounts : minters[a].isListed} =
           {a \in Accounts : t.minters[a].isListed} \cup {m}
      /\ minters[m] = v /\ \A a \in Accounts \ {m} : minters[a] = t.minters[a]
  BY <1>1, <1>5
<1> HIDE DEF minters
<1>9. /\ u \in BaseSweepStorage /\ u.minters = minters
      /\ u.balanceOf = w.balanceOf /\ u.minterAddresses = w.minterAddresses
  BY <1>6, <1>7, <1>8, SetMinters
<1>10. ListConsistent(u)
  BY <1>4, <1>6, <1>8, <1>9 DEF Good, ListConsistent
<1> QED
  BY <1>2, <1>5, <1>6, <1>8, <1>9, <1>10 DEF Good

\* removeMinter
LEMMA RemoveMinterGood ==
    ASSUME NEW t, Good(t), NEW m \in Accounts, NEW u \in RemoveMinter(t, m)
    PROVE  /\ Good(u) /\ u.balanceOf = t.balanceOf
           /\ t.minters[m].isListed
           /\ ~u.minters[m].isListed /\ u.minters[m].mintedAmount = 0
           /\ \A a \in Accounts \ {m} : u.minters[a] = t.minters[a]
<1> DEFINE minters == [t.minters EXCEPT ![m] = NoMinter]
           list == WithoutMinter(t.minterAddresses, m)
           w == [t EXCEPT !.minters = minters]
<1>1. /\ t \in BaseSweepStorage /\ t.minters \in [Accounts -> Minter]
      /\ t.minterAddresses \in Seq(Accounts)
  BY DEF Good, BaseSweepStorage
<1>2. t.minters[m].isListed /\ u = [w EXCEPT !.minterAddresses = list]
  BY DEF RemoveMinter, Call
<1>3. m \in Entries(t.minterAddresses)
  BY <1>2 DEF Good, ListConsistent
<1>4. /\ list \in Seq(Accounts) /\ Injective(list)
      /\ Entries(list) = Entries(t.minterAddresses) \ {m}
  BY <1>1, <1>3, WithoutMinterEntry DEF Good, ListConsistent
<1>5. NoMinter \in Minter /\ ~NoMinter.isListed /\ NoMinter.mintedAmount = 0
  BY DEF Minter, NoMinter
<1> HIDE DEF list
<1>6. /\ minters \in [Accounts -> Minter]
      /\ {a \in Accounts : minters[a].isListed} =
           {a \in Accounts : t.minters[a].isListed} \ {m}
      /\ minters[m] = NoMinter /\ \A a \in Accounts \ {m} : minters[a] = t.minters[a]
  BY <1>1, <1>5
<1> HIDE DEF minters
<1>7. /\ w \in BaseSweepStorage /\ w.minters = minters /\ w.balanceOf = t.balanceOf
  BY <1>1, <1>6, SetMinters
<1> HIDE DEF w
<1>8. /\ u \in BaseSweepStorage /\ u.minters = w.minters
      /\ u.balanceOf = w.balanceOf /\ u.minterAddresses = list
  BY <1>2, <1>4, <1>7, SetList
<1>9. ListConsistent(u)
  BY <1>4, <1>6, <1>7, <1>8 DEF Good, ListConsistent
<1> QED
  BY <1>2, <1>5, <1>6, <1>7, <1>8, <1>9 DEF Good

\* setMinterMaxAmount
LEMMA SetMinterMaxAmountGood ==
    ASSUME NEW t, Good(t), NEW m \in Accounts, NEW amount \in Nat,
           NEW u \in SetMinterMaxAmount(t, m, amount)
    PROVE  Good(u) /\ u.balanceOf = t.balanceOf /\ SameAmounts(t, u)
<1> DEFINE v == [t.minters[m] EXCEPT !.maxAmount = amount]
           minters == [t.minters EXCEPT ![m] = v]
<1>1. t.minters \in [Accounts -> Minter]
  BY DEF Good, BaseSweepStorage
<1>2. /\ v \in Minter /\ v.isListed = t.minters[m].isListed
      /\ v.mintedAmount = t.minters[m].mintedAmount
  BY <1>1 DEF Minter
<1>3. u = [t EXCEPT !.minters = minters]
  BY DEF SetMinterMaxAmount, Call
<1> HIDE DEF v
<1>4. /\ minters \in [Accounts -> Minter]
      /\ \A a \in Accounts : minters[a].isListed = t.minters[a].isListed
      /\ \A a \in Accounts : minters[a].mintedAmount = t.minters[a].mintedAmount
  BY <1>1, <1>2
<1> HIDE DEF minters
<1> QED
  BY <1>3, <1>4, SameListed DEF SameAmounts

\* setMinterEnabled
LEMMA SetMinterEnabledGood ==
    ASSUME NEW t, Good(t), NEW m \in Accounts, NEW enabled \in BOOLEAN,
           NEW u \in SetMinterEnabled(t, m, enabled)
    PROVE  Good(u) /\ u.balanceOf = t.balanceOf /\ SameAmounts(t, u)
<1> DEFINE v == [t.minters[m] EXCEPT !.isEnabled = enabled]
           minters == [t.minters EXCEPT ![m] = v]
<1>1. t.minters \in [Accounts -> Minter]
  BY DEF Good, BaseSweepStorage
<1>2. /\ v \in Minter /\ v.isListed = t.minters[m].isListed
      /\ v.mintedAmount = t.minters[m].mintedAmount
  BY <1>1 DEF Minter
<1>3. u = [t EXCEPT !.minters = minters]
  BY DEF SetMinterEnabled, Call
<1> HIDE DEF v
<1>4. /\ minters \in [Accounts -> Minter]
      /\ \A a \in Accounts : minters[a].isListed = t.minters[a].isListed
      /\ \A a \in Accounts : minters[a].mintedAmount = t.minters[a].mintedAmount
  BY <1>1, <1>2
<1> HIDE DEF minters
<1> QED
  BY <1>3, <1>4, SameListed DEF SameAmounts

\* pause, unpause and setTransferApprover
LEMMA SwitchGood ==
    ASSUME NEW t, Good(t),
           NEW u \in Pause(t) \cup Unpause(t) \cup SetTransferApprover(t)
    PROVE  Good(u) /\ u.balanceOf = t.balanceOf /\ u.minters = t.minters
<1>1. t \in BaseSweepStorage
  BY DEF Good
<1>2. /\ u \in BaseSweepStorage
      /\ u.minterAddresses = t.minterAddresses
      /\ u.minters = t.minters
      /\ u.balanceOf = t.balanceOf
  BY <1>1 DEF Pause, Unpause, SetTransferApprover, Call, BaseSweepStorage
<1> QED
  BY <1>2 DEF Good, ListConsistent

-----------------------------------------------------------------------------
(* Moving SWEEP *)

\* mint
LEMMA MintGood ==
    ASSUME NEW t, Good(t), NEW m \in Accounts, NEW amount \in Nat, NEW approves,
           NEW u \in Mint(t, m, amount, approves)
    PROVE  /\ Good(u) /\ ~t.paused /\ t.minters[m].isListed
           /\ \A a \in Accounts :
                 /\ u.minters[a].isListed = t.minters[a].isListed
                 /\ u.minters[a].mintedAmount =
                       IF a = m THEN t.minters[a].mintedAmount + amount
                                ELSE t.minters[a].mintedAmount
           /\ u.balanceOf[m] = t.balanceOf[m] + amount
           /\ \A b \in Accounts : b # m => u.balanceOf[b] = t.balanceOf[b]
<1> DEFINE v == [t.minters[m] EXCEPT !.mintedAmount = @ + amount]
           minters == [t.minters EXCEPT ![m] = v]
           balances == [t.balanceOf EXCEPT ![m] = @ + amount]
           w == [t EXCEPT !.minters = minters]
<1>1. t.minters \in [Accounts -> Minter] /\ t.balanceOf \in [Accounts -> Nat]
  BY DEF Good, BaseSweepStorage
<1>2. ~t.paused /\ t.minters[m].isListed
  BY DEF Mint, Call
<1>3. u = [t EXCEPT !.minters = minters, !.balanceOf = balances]
  BY DEF Mint, Call
<1>4. /\ v \in Minter /\ v.isListed = t.minters[m].isListed
      /\ v.mintedAmount = t.minters[m].mintedAmount + amount
  <2>1. PICK z \in Minter : z = t.minters[m]
    BY <1>1
  <2>2. PICK minted \in Nat : minted = z.mintedAmount + amount
    BY <1>2, <2>1 DEF Minter
  <2>3. v = [z EXCEPT !.mintedAmount = minted]
    BY <2>1, <2>2
  <2> HIDE DEF v
  <2>4. v \in Minter /\ v.isListed = z.isListed /\ v.mintedAmount = minted
    BY <2>3 DEF Minter
  <2> QED
    BY <2>1, <2>2, <2>4
<1>5. /\ balances \in [Accounts -> Nat]
      /\ balances[m] = t.balanceOf[m] + amount
      /\ \A b \in Accounts : b # m => balances[b] = t.balanceOf[b]
  BY <1>1, <1>2
<1> HIDE DEF v, balances
<1>6. /\ minters \in [Accounts -> Minter]
      /\ \A a \in Accounts : minters[a] = IF a = m THEN v ELSE t.minters[a]
      /\ \A a \in Accounts : minters[a].isListed = t.minters[a].isListed
  BY <1>1, <1>4
<1> HIDE DEF minters
<1>7. Good(w) /\ w.minters = minters
  BY <1>6, SameListed
<1>8. u = [w EXCEPT !.balanceOf = balances]
  BY <1>3
<1> HIDE DEF w
<1>9. Good(u) /\ u.minters = w.minters /\ u.balanceOf = balances
  BY <1>5, <1>7, <1>8, NewBalances
<1> QED
  BY <1>2, <1>4, <1>5, <1>6, <1>7, <1>9

\* burn
LEMMA BurnGood ==
    ASSUME NEW t, Good(t), NEW m \in Accounts, NEW amount \in Nat, NEW approves,
           NEW u \in Burn(t, m, amount, approves)
    PROVE  /\ Good(u) /\ ~t.paused /\ t.minters[m].isListed
           /\ \A a \in Accounts :
                 /\ u.minters[a].isListed = t.minters[a].isListed
                 /\ u.minters[a].mintedAmount =
                       IF a = m THEN t.minters[a].mintedAmount - amount
                                ELSE t.minters[a].mintedAmount
           /\ u.balanceOf[m] = t.balanceOf[m] - amount
           /\ \A b \in Accounts : b # m => u.balanceOf[b] = t.balanceOf[b]
<1> DEFINE v == [t.minters[m] EXCEPT !.mintedAmount = @ - amount]
           minters == [t.minters EXCEPT ![m] = v]
           balances == [t.balanceOf EXCEPT ![m] = @ - amount]
           w == [t EXCEPT !.minters = minters]
<1>1. t.minters \in [Accounts -> Minter] /\ t.balanceOf \in [Accounts -> Nat]
  BY DEF Good, BaseSweepStorage
<1>2. ~t.paused /\ t.minters[m].isListed /\ t.minters[m].mintedAmount >= amount /\ t.balanceOf[m] >= amount
  BY DEF Burn, Call
<1>3. u = [t EXCEPT !.minters = minters, !.balanceOf = balances]
  BY DEF Burn, Call
<1>4. /\ v \in Minter /\ v.isListed = t.minters[m].isListed
      /\ v.mintedAmount = t.minters[m].mintedAmount - amount
  <2>1. PICK z \in Minter : z = t.minters[m]
    BY <1>1
  <2>2. PICK minted \in Nat : minted = z.mintedAmount - amount
    BY <1>2, <2>1 DEF Minter
  <2>3. v = [z EXCEPT !.mintedAmount = minted]
    BY <2>1, <2>2
  <2> HIDE DEF v
  <2>4. v \in Minter /\ v.isListed = z.isListed /\ v.mintedAmount = minted
    BY <2>3 DEF Minter
  <2> QED
    BY <2>1, <2>2, <2>4
<1>5. /\ balances \in [Accounts -> Nat]
      /\ balances[m] = t.balanceOf[m] - amount
      /\ \A b \in Accounts : b # m => balances[b] = t.balanceOf[b]
  BY <1>1, <1>2
<1> HIDE DEF v, balances
<1>6. /\ minters \in [Accounts -> Minter]
      /\ \A a \in Accounts : minters[a] = IF a = m THEN v ELSE t.minters[a]
      /\ \A a \in Accounts : minters[a].isListed = t.minters[a].isListed
  BY <1>1, <1>4
<1> HIDE DEF minters
<1>7. Good(w) /\ w.minters = minters
  BY <1>6, SameListed
<1>8. u = [w EXCEPT !.balanceOf = balances]
  BY <1>3
<1> HIDE DEF w
<1>9. Good(u) /\ u.minters = w.minters /\ u.balanceOf = balances
  BY <1>5, <1>7, <1>8, NewBalances
<1> QED
  BY <1>2, <1>4, <1>5, <1>6, <1>7, <1>9

\* A transfer of no more than there is keeps a ledger well typed.
LEMMA MovedType ==
    ASSUME NEW ledger \in [Accounts -> Nat], NEW from \in Accounts, NEW to \in Accounts,
           NEW amount \in Nat, ledger[from] >= amount
    PROVE  Moved(ledger, from, to, amount) \in [Accounts -> Nat]
BY DEF Moved

\* transfer
LEMMA TransferGood ==
    ASSUME NEW t, Good(t), NEW from \in Accounts, NEW to \in Accounts,
           NEW amount \in Nat, NEW approves,
           NEW u \in Transfer(t, from, to, amount, approves)
    PROVE  /\ Good(u) /\ ~t.paused /\ KeepsMinters(t, u)
<1> DEFINE balances == Moved(t.balanceOf, from, to, amount)
<1>1. t.balanceOf \in [Accounts -> Nat]
  BY DEF Good, BaseSweepStorage
<1>2. ~t.paused /\ t.balanceOf[from] >= amount
  BY DEF Transfer, Call, BeforeTokenTransfer
<1>3. u = [t EXCEPT !.balanceOf = balances]
  BY DEF Transfer, Call
<1>4. balances \in [Accounts -> Nat]
  BY <1>1, <1>2, MovedType
<1> HIDE DEF balances
<1> QED
  BY <1>2, <1>3, <1>4, NewBalances DEF KeepsMinters, balances

LEMMA TransferMoves ==
    ASSUME NEW t, Good(t), NEW from \in Accounts, NEW to \in Accounts,
           NEW amount \in Nat, NEW approves,
           NEW u \in Transfer(t, from, to, amount, approves)
    PROVE  /\ t.balanceOf[from] >= amount
           /\ u.balanceOf = Moved(t.balanceOf, from, to, amount)
<1>1. u = [t EXCEPT !.balanceOf = Moved(t.balanceOf, from, to, amount)]
  BY DEF Transfer, Call
<1>2. t \in BaseSweepStorage
  BY DEF Good
<1> QED
  BY <1>1, <1>2 DEF Transfer, Call, BaseSweepStorage

\* _debitFrom
LEMMA DebitFromGood ==
    ASSUME NEW t, Good(t), NEW from \in Accounts, NEW amount \in Nat, NEW approves,
           NEW u \in DebitFrom(t, from, amount, approves)
    PROVE  /\ Good(u) /\ ~t.paused /\ KeepsMinters(t, u)
           /\ BalanceMoves(t, u, from, 0 - amount)
<1> DEFINE balances == [t.balanceOf EXCEPT ![from] = @ - amount]
<1>1. t.balanceOf \in [Accounts -> Nat]
  BY DEF Good, BaseSweepStorage
<1>2. ~t.paused /\ t.balanceOf[from] >= amount
  BY DEF DebitFrom, Call, BeforeTokenTransfer
<1>3. u = [t EXCEPT !.balanceOf = balances]
  BY DEF DebitFrom, Call
<1>4. /\ balances \in [Accounts -> Nat]
      /\ balances[from] = t.balanceOf[from] + (0 - amount)
      /\ \A b \in Accounts : b # from => balances[b] = t.balanceOf[b]
  BY <1>1, <1>2
<1> HIDE DEF balances
<1> QED
  BY <1>2, <1>3, <1>4, NewBalances DEF KeepsMinters, BalanceMoves

\* _creditTo
LEMMA CreditToGood ==
    ASSUME NEW t, Good(t), NEW to \in Accounts, NEW amount \in Nat, NEW approves,
           NEW u \in CreditTo(t, to, amount, approves)
    PROVE  /\ Good(u) /\ ~t.paused /\ KeepsMinters(t, u)
           /\ BalanceMoves(t, u, to, amount)
<1> DEFINE balances == [t.balanceOf EXCEPT ![to] = @ + amount]
<1>1. t.balanceOf \in [Accounts -> Nat]
  BY DEF Good, BaseSweepStorage
<1>2. ~t.paused /\ u = [t EXCEPT !.balanceOf = balances]
  BY DEF CreditTo, Call, BeforeTokenTransfer
<1>3. /\ balances \in [Accounts -> Nat]
      /\ balances[to] = t.balanceOf[to] + amount
      /\ \A b \in Accounts : b # to => balances[b] = t.balanceOf[b]
  BY <1>1
<1> HIDE DEF balances
<1> QED
  BY <1>2, <1>3, NewBalances DEF KeepsMinters, BalanceMoves
=============================================================================

----------------------------- MODULE BaseSweep -----------------------------
(***************************************************************************)
(* The SWEEP token contract on one chain: contracts/Sweep/BaseSweep.sol.   *)
(* The storage of the contract is a record and every function is an        *)
(* operator from the storage before the call to the SET of storages it can *)
(* leave: one element when the call succeeds, none when it reverts.  The   *)
(* modules that compose contracts chain such calls with \E, so a           *)
(* transaction that reverts anywhere is simply not a step.                 *)
(*                                                                         *)
(* Who may call is not a parameter: onlyGov and onlyMultisigOrGov          *)
(* functions are called by governance only, mint and burn by the minter.   *)
(***************************************************************************)
EXTENDS TokenBalances, Sequences

CONSTANT Accounts          \* addresses that can hold SWEEP or be minters

Call(require, result) == IF require THEN {result} ELSE {}

Minter == [maxAmount : Nat, mintedAmount : Nat, isListed : BOOLEAN, isEnabled : BOOLEAN]

NoMinter == [maxAmount |-> 0, mintedAmount |-> 0, isListed |-> FALSE, isEnabled |-> FALSE]

\* transferApprover is whether an approver contract is set; its answers are external.
BaseSweepStorage ==
    [minters : [Accounts -> Minter], minterAddresses : Seq(Accounts),
     balanceOf : [Accounts -> Nat], paused : BOOLEAN, transferApprover : BOOLEAN]

InitBaseSweep ==
    [minters |-> [a \in Accounts |-> NoMinter], minterAddresses |-> <<>>,
     balanceOf |-> [a \in Accounts |-> 0], paused |-> FALSE, transferApprover |-> FALSE]

-----------------------------------------------------------------------------
(* Settings *)

\* A whitelisted minter starts with nothing minted, whatever it minted before.
AddMinter(t, m, amount) ==
    Call(/\ amount > 0
         /\ ~t.minters[m].isListed,
         [t EXCEPT !.minterAddresses = Append(@, m),
                   !.minters[m] = [maxAmount |-> amount, mintedAmount |-> 0,
                                   isListed |-> TRUE, isEnabled |-> TRUE]])

\* The last address takes the place of the one at i, and the list loses its tail.
SwapRemove(list, i) ==
    [k \in 1 .. Len(list) - 1 |-> IF k = i THEN list[Len(list)] ELSE list[k]]

\* Mutant: pops the tail without moving it to the freed place.
WithoutMinterPopOnly(list, m) ==
    IF list = <<>> THEN list ELSE SubSeq(list, 1, Len(list) - 1)

\* The loop over minterAddresses: the first occurrence is removed, then break.
WithoutMinter(list, m) ==
    IF \E i \in 1 .. Len(list) : list[i] = m
    THEN SwapRemove(list, CHOOSE i \in 1 .. Len(list) :
                              list[i] = m /\ \A j \in 1 .. i - 1 : list[j] # m)
    ELSE list

RemoveMinter(t, m) ==
    Call(t.minters[m].isListed,
         [t EXCEPT !.minters[m] = NoMinter, !.minterAddresses = WithoutMinter(@, m)])

SetMinterMaxAmount(t, m, amount) ==
    Call(t.minters[m].isListed, [t EXCEPT !.minters[m].maxAmount = amount])

SetMinterEnabled(t, m, enabled) ==
    Call(t.minters[m].isListed, [t EXCEPT !.minters[m].isEnabled = enabled])

Pause(t) == Call(~t.paused, [t EXCEPT !.paused = TRUE])

Unpause(t) == Call(t.paused, [t EXCEPT !.paused = FALSE])

SetTransferApprover(t) == {[t EXCEPT !.transferApprover = TRUE]}

-----------------------------------------------------------------------------
(* Moving SWEEP *)

\* Mutant: the hook forgets whenNotPaused.
BeforeTokenTransferUnpausable(t, approves) == t.transferApprover => approves

\* The ERC20 hook of every transfer, mint and burn; approves is the approver's answer.
BeforeTokenTransfer(t, approves) ==
    /\ ~t.paused
    /\ t.transferApprover => approves

isValidMinter(t, m) == t.minters[m].isListed /\ t.minters[m].maxAmount > 0

Mint(t, m, amount, approves) ==
    Call(/\ t.minters[m].isListed /\ ~t.paused
         /\ t.minters[m].isEnabled
         /\ t.minters[m].mintedAmount + amount =< t.minters[m].maxAmount
         /\ BeforeTokenTransfer(t, approves),
         [t EXCEPT !.minters[m].mintedAmount = @ + amount, !.balanceOf[m] = @ + amount])

\* Mutant: a burn that does not look at what the minter has minted.
BurnUnchecked(t, m, amount, approves) ==
    Call(/\ t.minters[m].isListed /\ t.balanceOf[m] >= amount
         /\ BeforeTokenTransfer(t, approves),
         [t EXCEPT !.minters[m].mintedAmount = @ - amount, !.balanceOf[m] = @ - amount])

Burn(t, m, amount, approves) ==
    Call(/\ t.minters[m].isListed /\ ~t.paused
         /\ t.minters[m].mintedAmount >= amount
         /\ t.balanceOf[m] >= amount
         /\ BeforeTokenTransfer(t, approves),
         [t EXCEPT !.minters[m].mintedAmount = @ - amount, !.balanceOf[m] = @ - amount])

Transfer(t, from, to, amount, approves) ==
    Call(/\ t.balanceOf[from] >= amount
         /\ BeforeTokenTransfer(t, approves),
         [t EXCEPT !.balanceOf = Moved(@, from, to, amount)])

\* Mutant: the debit goes through the minters' burn.
DebitFromMinted(t, from, amount, approves) == Burn(t, from, amount, approves)

\* SWEEP that leaves the chain is burnt, but no minter's mintedAmount moves.
DebitFrom(t, from, amount, approves) ==
    Call(/\ t.balanceOf[from] >= amount
         /\ BeforeTokenTransfer(t, approves),
         [t EXCEPT !.balanceOf[from] = @ - amount])

CreditTo(t, to, amount, approves) ==
    Call(BeforeTokenTransfer(t, approves), [t EXCEPT !.balanceOf[to] = @ + amount])

-----------------------------------------------------------------------------
(* What the list of minters should be *)

Injective(list) == \A i, j \in 1 .. Len(list) : list[i] = list[j] => i = j
Entries(list) == {list[i] : i \in 1 .. Len(list)}

\* minterAddresses, the list writeOff and resetCalls walk, names every listed
\* minter once and nobody else.
ListConsistent(t) ==
    /\ Injective(t.minterAddresses)
    /\ Entries(t.minterAddresses) = {m \in Accounts : t.minters[m].isListed}
=============================================================================

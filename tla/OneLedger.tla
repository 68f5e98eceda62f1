------------------------------- MODULE OneLedger -------------------------------
(***************************************************************************)
(* What SWEEP on several chains promises its holders and governance: there *)
(* is one ledger.  An account holds SWEEP, wherever it is, and has SWEEP   *)
(* due to it that was sent to it; a minter answers for the amount it       *)
(* minted.  What is sent arrives at who it was sent to, sooner or later,   *)
(* once.  SWEEP comes and goes only with a minter's minting and burning,   *)
(* which the minter's account books.                                       *)
(***************************************************************************)
EXTENDS TokenBalances

CONSTANTS Accounts, Amounts

VARIABLES held,        \* held[a]: what account a holds
          due,         \* due[a]: what was sent to a and has not arrived
          issued       \* issued[a]: what minter a answers for

Init ==
    /\ held = [a \in Accounts |-> 0]
    /\ due = [a \in Accounts |-> 0]
    /\ issued = [a \in Accounts |-> 0]

\* On one chain.
Pay(from, to, amount) ==
    /\ held[from] >= amount
    /\ held' = Moved(held, from, to, amount)
    /\ UNCHANGED <<due, issued>>

\* To another chain.
Send(from, to, amount) ==
    /\ held[from] >= amount
    /\ held' = [held EXCEPT ![from] = @ - amount]
    /\ due' = [due EXCEPT ![to] = @ + amount]
    /\ UNCHANGED issued

Arrive(to) ==
    /\ \E amount \in 0 .. due[to] :
          /\ held' = [held EXCEPT ![to] = @ + amount]
          /\ due' = [due EXCEPT ![to] = @ - amount]
    /\ UNCHANGED issued

Issue(m, amount) ==
    /\ held' = [held EXCEPT ![m] = @ + amount]
    /\ issued' = [issued EXCEPT ![m] = @ + amount]
    /\ UNCHANGED due

Redeem(m, amount) ==
    /\ held[m] >= amount /\ issued[m] >= amount
    /\ held' = [held EXCEPT ![m] = @ - amount]
    /\ issued' = [issued EXCEPT ![m] = @ - amount]
    /\ UNCHANGED due

\* Governance stops holding a minter to some of what it minted, which stays there.
Release(m) ==
    /\ \E amount \in 0 .. issued[m] : issued' = [issued EXCEPT ![m] = @ - amount]
    /\ UNCHANGED <<held, due>>

Next ==
    \E a \in Accounts :
        \/ Arrive(a) \/ Release(a)
        \/ \E amount \in Amounts :
              \/ Issue(a, amount) \/ Redeem(a, amount)
              \/ \E b \in Accounts : Pay(a, b, amount) \/ Send(a, b, amount)

Spec == Init /\ [][Next]_<<held, due, issued>>
================================================================================

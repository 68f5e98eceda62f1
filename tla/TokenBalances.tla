---- MODULE TokenBalances ----
(* Who has how much of a token: SWEEP, or a token of the world outside. *)
EXTENDS Integers

Least(a, b) == IF a < b THEN a ELSE b

\* The balances after a transfer; from and to may be the same account.
Moved(balanceOf, from, to, amount) ==
    LET debited == [balanceOf EXCEPT ![from] = @ - amount]
    IN  [debited EXCEPT ![to] = @ + amount]
====

----------------------------- MODULE BinarySearch -----------------------------
\* scripts/sweep/binary_search.js: how much SWEEP the balancer has to sell to, or
\* to buy from, the AMM to bring the price back into the band around the target
\* price, by swapping trial amounts on a fork of the chain that is reset after
\* each. Of the AMM's price after a swap only its place matters: above, within
\* or below the band; it moves one way with the amount. The AMM is the one whose
\* address the older book has: the AMM and the SWEEP of this commit refuse every
\* trial, which is funds = 0 (UniswapAMM.checkRate the minimum of zero,
\* SweepCoin._checkLimit the price the tester is to mint at).
EXTENDS Integers

CONSTANTS
    MaxBound,       \* the pool's balances, in whole SWEEP, at most
    MAX_ROUNDS

ASSUME SearchAssumption == MaxBound \in Nat /\ MAX_ROUNDS \in Nat

VARIABLES
    swap,           \* "sell", "buy", or "none": the price is within the band
    bound,          \* the pool's balances, in whole SWEEP
    first, last,    \* the amounts from first to last bring the price into the band
    funds,          \* the largest amount a swap takes
    X, min, max, round,
    result          \* "searching", "found", "undefined", "thrown", "idle"

curve == <<swap, bound, first, last, funds>>
searchVars == <<swap, bound, first, last, funds, X, min, max, round, result>>

\* sweep.ammPrice() after a swap of amount x: 1 above maxPrice, -1 below minPrice.
ammPrice(x) ==
    IF x \in first..last THEN 0
    ELSE IF (x < first) = (swap = "sell") THEN 1 ELSE -1

\* The price before any swap decides what to do: zero swapped is not enough.
SearchInit ==
    /\ swap \in {"sell", "buy", "none"}
    /\ bound \in 0..MaxBound
    /\ first \in 1..MaxBound + 1 /\ last \in 0..MaxBound + 1 /\ first <= last + 1
    /\ funds \in {0, MaxBound \div 2, MaxBound}
    /\ min = IF swap = "sell" THEN bound ELSE 0
    /\ max = IF swap = "sell" THEN 0 ELSE bound
    /\ X = (min + max) \div 2
    /\ round = 0
    /\ result = IF swap = "none" THEN "idle" ELSE "searching"

\* Mutants: the trial amount is doubled, not halved; the interval shrinks past the
\* trial amount; the price is looked at one amount too early; the sides exchanged.
AttemptSum ==
    /\ result = "searching" /\ round < MAX_ROUNDS /\ X \in 1..funds
    /\ CASE ammPrice(X) = 1  -> /\ max' = X /\ X' = X + min
                                /\ round' = round + 1
                                /\ UNCHANGED <<min, result>>
         [] ammPrice(X) = -1 -> /\ min' = X /\ X' = X + max
                                /\ round' = round + 1
                                /\ UNCHANGED <<max, result>>
         [] ammPrice(X) = 0  -> result' = "found" /\ UNCHANGED <<X, min, max, round>>
    /\ UNCHANGED curve
AttemptPriceBefore ==
    /\ result = "searching" /\ round < MAX_ROUNDS /\ X \in 1..funds
    /\ CASE ammPrice(X - 1) = 1  -> /\ max' = X /\ X' = (X + min) \div 2
                                    /\ round' = round + 1
                                    /\ UNCHANGED <<min, result>>
         [] ammPrice(X - 1) = -1 -> /\ min' = X /\ X' = (X + max) \div 2
                                    /\ round' = round + 1
                                    /\ UNCHANGED <<max, result>>
         [] ammPrice(X - 1) = 0  -> result' = "found" /\ UNCHANGED <<X, min, max, round>>
    /\ UNCHANGED curve
AttemptSidesExchanged ==
    /\ result = "searching" /\ round < MAX_ROUNDS /\ X \in 1..funds
    /\ CASE ammPrice(X) = 1  -> /\ min' = X /\ X' = (X + max) \div 2
                                /\ round' = round + 1
                                /\ UNCHANGED <<max, result>>
         [] ammPrice(X) = -1 -> /\ max' = X /\ X' = (X + min) \div 2
                                /\ round' = round + 1
                                /\ UNCHANGED <<min, result>>
         [] ammPrice(X) = 0  -> result' = "found" /\ UNCHANGED <<X, min, max, round>>
    /\ UNCHANGED curve

\* One pass of simulate's loop: swap on the fork (which reverts for zero and
\* when the tester cannot pay), look at the price, halve the interval, reset the fork.
Attempt ==
    /\ result = "searching" /\ round < MAX_ROUNDS /\ X \in 1..funds
    /\ CASE ammPrice(X) = 1  -> /\ max' = X /\ X' = (X + min) \div 2
                                /\ round' = round + 1
                                /\ UNCHANGED <<min, result>>
         [] ammPrice(X) = -1 -> /\ min' = X /\ X' = (X + max) \div 2
                                /\ round' = round + 1
                                /\ UNCHANGED <<max, result>>
         [] ammPrice(X) = 0  -> result' = "found" /\ UNCHANGED <<X, min, max, round>>
    /\ UNCHANGED curve

SwapReverts ==
    /\ result = "searching" /\ round < MAX_ROUNDS /\ X \notin 1..funds
    /\ result' = "thrown"
    /\ UNCHANGED <<curve, X, min, max, round>>

\* Mutant: the last round's trial amount is never tried.
OutOfRoundsEarly ==
    /\ result = "searching" /\ round >= MAX_ROUNDS - 1
    /\ result' = "undefined"
    /\ UNCHANGED <<curve, X, min, max, round>>

\* The loop ends without a value.
OutOfRounds ==
    /\ result = "searching" /\ round >= MAX_ROUNDS
    /\ result' = "undefined"
    /\ UNCHANGED <<curve, X, min, max, round>>

SearchNext == Attempt \/ SwapReverts \/ OutOfRounds

SearchSpec == SearchInit /\ [][SearchNext]_searchVars

-------------------------------------------------------------------------------
(* Properties *)

SearchTypeOK ==
    /\ swap \in {"sell", "buy", "none"}
    /\ bound \in 0..MaxBound /\ X \in 0..MaxBound
    /\ min \in 0..MaxBound /\ max \in 0..MaxBound
    /\ first \in Nat /\ last \in Nat /\ funds \in Nat /\ round \in 0..MAX_ROUNDS
    /\ result \in {"searching", "found", "undefined", "thrown", "idle"}

lower == IF swap = "sell" THEN max ELSE min
upper == IF swap = "sell" THEN min ELSE max

\* The halving never throws a solution away: an amount strictly inside the bound
\* that brings the price into the band stays strictly inside the interval, and
\* the trial amount stays in the interval.
BracketKept ==
    swap # "none" =>
        /\ lower <= X /\ X <= upper
        /\ \A x \in 1..bound - 1 : x \in first..last => lower < x /\ x < upper

\* The amount printed brings the price into the band.
FoundIsRight == result = "found" => ammPrice(X) = 0

\* The bound that n rounds halve away.
PowerOfTwo[n \in 0..MAX_ROUNDS] == IF n = 0 THEN 1 ELSE 2 * PowerOfTwo[n - 1]

\* When the loop gives up there is no amount strictly inside the bound that would
\* have done, if the rounds are enough to halve the bound away. The script's 15
\* are not for a pool of more than 32768 SWEEP.
GivesUpRightly ==
    result = "undefined" /\ bound <= PowerOfTwo[MAX_ROUNDS] =>
        \A x \in 1..bound - 1 : x \notin first..last
===============================================================================

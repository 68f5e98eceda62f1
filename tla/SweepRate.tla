----------------------------- MODULE SweepRate -----------------------------
(***************************************************************************)
(* The interest-rate schedule of one SWEEP contract: the two-period part   *)
(* of contracts/Sweep/Sweep.sol.  A schedule holds a rate, a price and a   *)
(* start for the current period and for the next one; which of the two is  *)
(* in force depends only on the block time, nobody has to call anything at *)
(* the boundary.  Functions are operators from the schedule to the set of  *)
(* schedules the call can leave, empty when it reverts (BaseSweep).        *)
(***************************************************************************)
EXTENDS Integers

CONSTANTS Day,                \* seconds of a day
          InterestPrecision,  \* a rate of this size is 100% a day
          SpreadPrecision,    \* a ratio of this size is 100%
          MinRate, MaxRate,   \* refreshInterestRate takes MinRate <= rate < MaxRate
          TargetPriceLimit,   \* largest change setTargetPrice may make, a ratio
          WriteOffLimit       \* largest change writeOff may make, a ratio

ASSUME DayAssumption == Day \in Nat \ {0}
ASSUME PrecisionAssumption ==
    /\ InterestPrecision \in Nat \ {0}
    /\ SpreadPrecision \in Nat \ {0}
ASSUME RateRangeAssumption == MinRate \in Int /\ MaxRate \in Int
ASSUME LimitAssumption == TargetPriceLimit \in Nat /\ WriteOffLimit \in Nat

Answer(require, result) == IF require THEN {result} ELSE {}

Schedule ==
    [currentInterestRate : Int, nextInterestRate : Int,
     currentTargetPrice : Nat, nextTargetPrice : Nat,
     currentPeriodStart : Nat, nextPeriodStart : Nat]

\* initialize at block time now, with a price of one.
InitSchedule(now, one) ==
    [currentInterestRate |-> 0, nextInterestRate |-> 0,
     currentTargetPrice |-> one, nextTargetPrice |-> one,
     currentPeriodStart |-> now, nextPeriodStart |-> now + Day]

-----------------------------------------------------------------------------
(* Views *)

interestRate(r, now) ==
    IF now < r.nextPeriodStart THEN r.currentInterestRate ELSE r.nextInterestRate

periodStart(r, now) ==
    IF now < r.nextPeriodStart THEN r.currentPeriodStart ELSE r.nextPeriodStart

periodPrice(r, now) ==
    IF now < r.nextPeriodStart THEN r.currentTargetPrice ELSE r.nextTargetPrice

daysInterest(r, now) == (now - periodStart(r, now)) \div Day

accumulatedRate(r, now) == InterestPrecision + interestRate(r, now) * daysInterest(r, now)

\* Unsigned arithmetic: every price view reverts before the period has begun, and
\* once a negative rate has eaten the whole price.
Readable(r, now) == periodStart(r, now) =< now /\ accumulatedRate(r, now) >= 0

targetPrice(r, now) == (periodPrice(r, now) * accumulatedRate(r, now)) \div InterestPrecision

-----------------------------------------------------------------------------
(* Actions, all called by the balancer except writeOff *)

\* The next period becomes the current one once its time has come.
Roll(r, now) ==
    IF now >= r.nextPeriodStart
    THEN [r EXCEPT !.currentInterestRate = r.nextInterestRate,
                   !.currentTargetPrice = r.nextTargetPrice,
                   !.currentPeriodStart = r.nextPeriodStart]
    ELSE r

\* What the current rate makes of one unit of price over a time, in seconds.
AccruedOver(rate, time) ==
    IF rate >= 0 THEN InterestPrecision + (rate * time) \div Day
                 ELSE InterestPrecision - ((-rate) * time) \div Day

\* Mutant: the step is added without rolling the period over.
RefreshWithoutRoll(r, now, dailyRate, newPeriodStart) ==
    Answer(/\ newPeriodStart >= now /\ newPeriodStart >= r.currentPeriodStart
           /\ MinRate =< dailyRate /\ dailyRate < MaxRate,
           [r EXCEPT !.nextInterestRate = dailyRate, !.nextPeriodStart = newPeriodStart])

\* Mutant: an old period start is accepted.
RefreshOldPeriodStart(r, now, dailyRate, newPeriodStart) ==
    LET s == Roll(r, now)
        rate == AccruedOver(s.currentInterestRate, newPeriodStart - s.currentPeriodStart)
    IN  Answer(MinRate =< dailyRate /\ dailyRate < MaxRate,
               [s EXCEPT !.nextInterestRate = dailyRate,
                         !.nextPeriodStart = newPeriodStart,
                         !.nextTargetPrice =
                             (s.currentTargetPrice * rate) \div InterestPrecision])

\* Mutant: a rate that has eaten the whole price is not refused.
RefreshNegativePrice(r, now, dailyRate, newPeriodStart) ==
    LET s == Roll(r, now)
        rate == AccruedOver(s.currentInterestRate, newPeriodStart - s.currentPeriodStart)
    IN  Answer(/\ newPeriodStart >= now /\ newPeriodStart >= s.currentPeriodStart
               /\ MinRate =< dailyRate /\ dailyRate < MaxRate,
               [s EXCEPT !.nextInterestRate = dailyRate,
                         !.nextPeriodStart = newPeriodStart,
                         !.nextTargetPrice =
                             (s.currentTargetPrice * rate) \div InterestPrecision])

\* Mutant: the next price accrues up to the block time, not up to the next period.
RefreshAccruesToNow(r, now, dailyRate, newPeriodStart) ==
    LET s == Roll(r, now)
        rate == AccruedOver(s.currentInterestRate, now - s.currentPeriodStart)
    IN  Answer(/\ newPeriodStart >= now
               /\ MinRate =< dailyRate /\ dailyRate < MaxRate
               /\ newPeriodStart >= s.currentPeriodStart
               /\ rate >= 0,
               [s EXCEPT !.nextInterestRate = dailyRate,
                         !.nextPeriodStart = newPeriodStart,
                         !.nextTargetPrice =
                             (s.currentTargetPrice * rate) \div InterestPrecision])

\* newPeriodStart - currentPeriodStart is unsigned: it reverts when negative.
RefreshInterestRate(r, now, dailyRate, newPeriodStart) ==
    LET s == Roll(r, now)
        rate == AccruedOver(s.currentInterestRate, newPeriodStart - s.currentPeriodStart)
    IN  Answer(/\ newPeriodStart >= now
               /\ MinRate =< dailyRate /\ dailyRate < MaxRate
               /\ newPeriodStart >= s.currentPeriodStart
               /\ rate >= 0,
               [s EXCEPT !.nextInterestRate = dailyRate,
                         !.nextPeriodStart = newPeriodStart,
                         !.nextTargetPrice =
                             (s.currentTargetPrice * rate) \div InterestPrecision])

\* The limit is taken around the current period's price, whichever is in force.
WithinLimit(r, limit, price) ==
    /\ price >= (r.currentTargetPrice * (SpreadPrecision - limit)) \div SpreadPrecision
    /\ price =< (r.currentTargetPrice * (SpreadPrecision + limit)) \div SpreadPrecision

SetTargetPrice(r, newCurrent, newNext) ==
    Answer(/\ newCurrent > 0 /\ newNext > 0
           /\ WithinLimit(r, TargetPriceLimit, newCurrent),
           [r EXCEPT !.currentTargetPrice = newCurrent, !.nextTargetPrice = newNext])

SetInterestRate(r, newCurrent, newNext) ==
    {[r EXCEPT !.currentInterestRate = newCurrent, !.nextInterestRate = newNext]}

\* Mutant: the order of the two starts is not checked.
SetPeriodStartUnchecked(r, newCurrent, newNext) ==
    {[r EXCEPT !.currentPeriodStart = newCurrent, !.nextPeriodStart = newNext]}

SetPeriodStart(r, newCurrent, newNext) ==
    Answer(newCurrent =< newNext,
           [r EXCEPT !.currentPeriodStart = newCurrent, !.nextPeriodStart = newNext])

\* The price part of writeOff; it needs the AMM price at or below the target price,
\* and a paused token, both of which may hold at any time.
WriteOffPrice(r, now, newPrice) ==
    Answer(/\ newPrice > 0
           /\ Readable(r, now)
           /\ WithinLimit(r, WriteOffLimit, newPrice),
           [r EXCEPT !.currentTargetPrice = newPrice, !.nextTargetPrice = newPrice])
=============================================================================
